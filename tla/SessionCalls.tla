---------------------------- MODULE SessionCalls ----------------------------
(***************************************************************************)
(* Calls through a session handle (LeanWorkerSession, session.rs) and      *)
(* through a host handle (LeanWorkerHostHandle, capability.rs): what each  *)
(* method of lean-rs-worker-parent/src/supervisor.rs sends, what the child *)
(* (lean-rs-worker-child/src/child.rs) does for it and may answer, and     *)
(* what reaches the caller.  How a request travels and how a child is      *)
(* replaced is WorkerSupervisor's subject: here each is its outcome.       *)
(***************************************************************************)
EXTENDS Naturals, Sequences, FiniteSets

CONSTANTS
  Keys,        \* session configurations
  Manifested,  \* the keys whose session has a capability manifest
  Methods,     \* the methods called; a subset of those in the table
  Targets,     \* what one verification names, in order: a sequence of names
  Verdicts,    \* statuses Lean may give a target
  Ceiling,     \* LEAN_RS_VERIFY_RSS_TAINT_KIB, 0 for off
  Readings,    \* readings of the child's RSS; 0 when unavailable
  MaxRows,     \* bound: rows of a stream or listing
  MaxCalls     \* bound: calls, opens included

VARIABLES
  handle,      \* the caller's session handle: state and key
  child,       \* "up"; "unread": its stdout stays with a detached reader;
               \* "exited" with success, or "aborted"
  gen,         \* the child's generation
  current,     \* the child's session: its key and generation, or NoSession
  token,       \* the caller's cancellation token: "live", or cancelled by
               \* the "caller" or by a "row" that did not decode
  pc,          \* "ready", "open", "prepare" or "serve"
  call,        \* the call in progress
  ops,         \* calls of the host session that the handler still makes
  rows,        \* per row delivered to the sink: did it decode
  decided,     \* history: Lean's verdicts and the RSS reading that judged them
  outcome,     \* of the last call
  calls

workerVars == <<child, gen, current>>
vars == <<handle, workerVars, token, pc, call, ops, rows, decided, outcome, calls>>

NoSession == [key |-> "none", gen |-> 0]
NoHandle  == [state |-> "none", key |-> "none", gen |-> 0]
NoCall    == [method |-> "none", token |-> FALSE, via |-> "none", key |-> "none", retry |-> FALSE]

-----------------------------------------------------------------------------
(* The methods of the parent: what they send and accept                    *)

Row(method, request, accepts) == [method |-> method, request |-> request, accepts |-> accepts]

ElaborationCalls == {
  Row("elaborate",    "Elaborate",   {"Elaboration"}),
  Row("kernel_check", "KernelCheck", {"KernelCheck"})}
LookupCalls == {
  Row("declaration_kinds", "DeclarationKinds", {"Strings"}),
  Row("declaration_names", "DeclarationNames", {"Strings"})}
\* Mutant: is_def_eq was pasted from whnf.
MetaCallsPasted == {
  Row("infer_type", "InferType", {"MetaExpr"}),
  Row("whnf",       "Whnf",      {"MetaExpr"}),
  Row("is_def_eq",  "IsDefEq",   {"MetaExpr"})}
MetaCalls == {
  Row("infer_type", "InferType", {"MetaExpr"}),
  Row("whnf",       "Whnf",      {"MetaExpr"}),
  Row("is_def_eq",  "IsDefEq",   {"MetaBool"})}
DeclarationCalls == {
  Row("describe",            "Describe",           {"Declaration"}),
  Row("search_declarations", "SearchDeclarations", {"DeclarationSearch"}),
  Row("declaration_type",    "DeclarationType",    {"DeclarationType"}),
  Row("inspect_declaration", "InspectDeclaration", {"DeclarationInspection"})}
ProofCalls == {
  Row("attempt_proof", "AttemptProof", {"ProofAttempt"})}
VerificationCalls == {
  Row("verify_declaration",       "VerifyDeclaration",      {"DeclarationVerification"}),
  Row("verify_declaration_batch", "VerifyDeclarationBatch", {"DeclarationVerificationBatch"})}
BulkCalls == {
  Row("list_declarations_strings", "ListDeclarationsStrings", {"RowsComplete"}),
  Row("describe_bulk",             "DescribeBulk",            {"DeclarationBulk"})}
ModuleCalls == {
  Row("process_module_query",        "ProcessModuleQuery",       {"ProcessModuleQuery"}),
  Row("process_module_query_batch",  "ProcessModuleQueryBatch",  {"ProcessModuleQueryBatch"}),
  Row("clear_module_snapshot_cache", "ClearModuleSnapshotCache", {"ModuleSnapshotCacheCleared"})}
StreamCalls == {
  Row(m, "RunDataStream", {"StreamComplete", "StreamExportFailed",
                           "StreamCallbackFailed", "StreamRowMalformed"})
  : m \in {"run_data_stream", "run_streaming_command"}}
ExportCalls == {
  Row("capability_metadata", "CapabilityMetadata", {"CapabilityMetadata", "CapabilityMetadataMalformed"}),
  Row("capability_doctor",   "CapabilityDoctor",   {"CapabilityDoctor", "CapabilityDoctorMalformed"}),
  Row("run_json_command",    "JsonCommand",        {"JsonCommand"})}

CallTable == ElaborationCalls \cup LookupCalls \cup MetaCalls \cup DeclarationCalls
  \cup ProofCalls \cup VerificationCalls \cup BulkCalls \cup ModuleCalls
  \cup StreamCalls \cup ExportCalls
RowOf(m) == CHOOSE r \in CallTable : r.method = m

\* The answers that their method turns into an error.
Refusals == {"StreamExportFailed", "StreamCallbackFailed", "StreamRowMalformed",
             "CapabilityMetadataMalformed", "CapabilityDoctorMalformed"}

\* Typed commands encode their argument before anything else happens and
\* decode the answer after everything else.
Typed == {"run_streaming_command", "run_json_command"}
\* recover_child_abort is tried for these.
Recovers == {"verify_declaration", "verify_declaration_batch", "process_module_query_batch"}

\* The methods whose handler reports progress.
Ticking == {"kernel_check", "declaration_kinds", "declaration_names", "attempt_proof",
            "verify_declaration", "verify_declaration_batch", "describe_bulk",
            "list_declarations_strings", "run_data_stream", "run_streaming_command"}

\* with_session_imports offers these.
HandleMethods == {"process_module_query", "process_module_query_batch", "inspect_declaration",
                  "search_declarations", "attempt_proof", "verify_declaration",
                  "verify_declaration_batch"}

-----------------------------------------------------------------------------
(* The handlers of the child: the host calls they make and their answer    *)

\* An op may fail; one marked "?" may also end the handler with its answer.
Handler(request, does, answer) == [request |-> request, does |-> does, answer |-> answer]

ElaborationHandlers == {
  Handler("Elaborate",   <<"elaborate">>, "Elaboration"),
  Handler("KernelCheck", <<"kernel_check?", "summarize_evidence">>, "KernelCheck")}
LookupHandlers == {
  Handler("DeclarationKinds", <<"declaration_kind_bulk">>, "Strings"),
  Handler("DeclarationNames", <<"declaration_name_bulk">>, "Strings")}
MetaHandlers == {
  Handler("InferType", <<"elaborate?", "run_meta?", "expr_to_string">>, "MetaExpr"),
  Handler("Whnf",      <<"elaborate?", "run_meta?", "expr_to_string">>, "MetaExpr"),
  Handler("IsDefEq",   <<"elaborate?", "elaborate?", "run_meta">>, "MetaBool")}
DeclarationHandlers == {
  Handler("Describe", <<"declaration_kind?", "declaration_type", "expr_to_string",
                        "declaration_source_range">>, "Declaration"),
  Handler("SearchDeclarations", <<"search_declarations">>, "DeclarationSearch"),
  Handler("DeclarationType", <<"declaration_kind?", "declaration_type", "expr_to_string",
                               "declaration_source_range">>, "DeclarationType"),
  Handler("InspectDeclaration", <<"inspect_declaration">>, "DeclarationInspection")}
ProofHandlers == {
  Handler("AttemptProof", <<"request", "attempt_proof">>, "ProofAttempt"),
  Handler("VerifyDeclaration", <<"request", "verify">>, "DeclarationVerification"),
  Handler("VerifyDeclarationBatch", <<"request", "verify">>, "DeclarationVerificationBatch")}
BulkHandlers == {
  Handler("ListDeclarationsStrings", <<"list_declarations_strings", "rows">>, "RowsComplete"),
  Handler("DescribeBulk", <<"declaration_kind_bulk", "declaration_type_bulk", "describe">>,
          "DeclarationBulk")}
ModuleHandlers == {
  Handler("ProcessModuleQuery", <<"query", "process_module_query">>, "ProcessModuleQuery"),
  \* the RSS guard may clear the cache; an unsupported cached query runs uncached
  Handler("ProcessModuleQueryBatch", <<"selectors", "clear_module_snapshot_cache",
            "process_module_query_batch_cached?", "process_module_query_batch">>,
          "ProcessModuleQueryBatch"),
  Handler("ClearModuleSnapshotCache", <<"clear_module_snapshot_cache">>,
          "ModuleSnapshotCacheCleared")}
ExportHandlers == {
  Handler("RunDataStream", <<"binding", "rows">>, "StreamComplete"),
  Handler("CapabilityMetadata", <<"binding", "call">>, "CapabilityMetadata"),
  Handler("CapabilityDoctor",   <<"binding", "call">>, "CapabilityDoctor"),
  Handler("JsonCommand",        <<"binding", "call">>, "JsonCommand")}

HandlerTable == ElaborationHandlers \cup LookupHandlers \cup MetaHandlers
  \cup DeclarationHandlers \cup ProofHandlers \cup BulkHandlers \cup ModuleHandlers
  \cup ExportHandlers
HandlerOf(request) == CHOOSE h \in HandlerTable : h.request = request

MayEnd == {"kernel_check?", "elaborate?", "run_meta?", "declaration_kind?",
           "process_module_query_batch_cached?"}

\* The answers a handler may give besides an error.
AnswersOf(request) ==
  {HandlerOf(request).answer} \cup
  CASE request = "RunDataStream" -> {"StreamExportFailed", "StreamCallbackFailed",
                                     "StreamRowMalformed"}
    [] request = "CapabilityMetadata" -> {"CapabilityMetadataMalformed"}
    [] request = "CapabilityDoctor"   -> {"CapabilityDoctorMalformed"}
    [] OTHER -> {}

-----------------------------------------------------------------------------
(* Verdicts                                                                *)

Verdict == {"Accepted", "Rejected", "NotFound", "Ambiguous", "NeedsBuild",
            "Timeout", "BudgetExceeded", "Unsupported"}

ASSUME CallsAssumption ==
  /\ "none" \notin Keys /\ Manifested \subseteq Keys
  /\ Methods \subseteq {r.method : r \in CallTable}
  /\ Targets \in Seq({Targets[i] : i \in DOMAIN Targets}) /\ Targets # <<>>
  /\ Verdicts \subseteq Verdict
  /\ Ceiling \in Nat /\ Readings \subseteq Nat
  /\ MaxRows \in Nat /\ MaxCalls \in Nat

\* Mutant: only a missing declaration is tainted.
NonPositiveNotFoundOnly == {"NotFound"}

\* verification_status_non_positive.
NonPositive == {"NotFound", "NeedsBuild", "Rejected", "Ambiguous"}

\* apply_memory_pressure_taint of one row, under a reading of the RSS.
Tainted(status, rss) ==
  IF Ceiling # 0 /\ rss # 0 /\ rss >= Ceiling /\ status \in NonPositive
  THEN "BudgetExceeded" ELSE status

TargetsOf(m) == IF m = "verify_declaration" THEN SubSeq(Targets, 1, 1) ELSE Targets

\* taint_verification_batch_under_memory_pressure: one reading judges all.
JudgedRows(m, status, rss) ==
  [i \in 1..Len(TargetsOf(m)) |->
     [target |-> TargetsOf(m)[i], status |-> Tainted(status[i], rss)]]

\* Mutant: the degraded answer names one row for the whole batch.
DegradedFirstOnly(m) == <<[target |-> Targets[1], status |-> "BudgetExceeded"]>>

\* degraded_declaration_verification_batch_result, degraded_query_batch_outcome
\* and the verdict of worker_verify_declaration after an abort.
Degraded(m) ==
  [i \in 1..Len(TargetsOf(m)) |-> [target |-> TargetsOf(m)[i], status |-> "BudgetExceeded"]]

-----------------------------------------------------------------------------
(* The worker                                                              *)

Up(session) == child' = "up" /\ current' = session
\* The next generation, which has no session.
Restarted == gen' = gen + 1 /\ Up(NoSession)
\* The old child is stopped (a graceful stop may end in a kill), and the
\* restart limit or the spawn stands in the way of a new one.
RestartFailed ==
  /\ child' \in IF child \in {"exited", "aborted"} THEN {child} ELSE {"exited", "aborted"}
  /\ current' = NoSession /\ UNCHANGED gen

\* Mutant: the session outlives its child.
GoneKeepsSession(how) == child' = how /\ UNCHANGED <<current, gen>>

\* The child exits, or Lean aborts it.
Gone(how) == child' = how /\ current' = NoSession /\ UNCHANGED gen

\* A token counts when the call has it.
Cancelled == call.token /\ token # "live"

Request == RowOf(call.method).request

-----------------------------------------------------------------------------
(* The end of a call                                                       *)

Outcome(kind, key, rs) ==
  [kind |-> kind, method |-> call.method, rows |-> rs,
   asked |-> call.key, opened |-> handle.gen, key |-> key, gen |-> gen]
Error(kind) == Outcome(kind, "none", <<>>)
NoOutcome == [kind |-> "none", method |-> "none", rows |-> <<>>,
              asked |-> "none", opened |-> 0, key |-> "none", gen |-> 0]

\* with_session: a cancelled or timed-out call closes the handle.
Closes(o) == o.kind \in {"cancelled", "timeout"}

Malformed(rs) == \E i \in 1..Len(rs) : ~rs[i]

\* Mutant: the decode error takes the place of success only.
ReportedOkOnly(o, rs) ==
  IF call.method = "run_streaming_command" /\ o.kind \in {"ok", "decode"} /\ Malformed(rs)
  THEN Error("row_decode") ELSE o

\* run_streaming_command: a row's decode error takes the place of success
\* and of the cancellation that it caused; it is lost under every other error.
Reported(o, rs) ==
  IF call.method = "run_streaming_command" /\ o.kind \in {"ok", "decode", "cancelled"}
       /\ Malformed(rs)
  THEN Error("row_decode") ELSE o

\* The call ends.  A host handle opens the session and asks again, once,
\* after session_missing; a session handle stays with its caller.
FinishAfter(o, rs) ==
  /\ ops' = <<>> /\ rows' = rs
  /\ IF call.via = "host" /\ o.kind = "session_missing" /\ ~call.retry
     THEN /\ call' = [call EXCEPT !.retry = TRUE]
          /\ pc' = "open" /\ UNCHANGED outcome
     ELSE /\ outcome' = Reported(o, rs) /\ call' = NoCall /\ pc' = "ready"
  /\ handle' = IF call.via = "host" THEN NoHandle
               ELSE IF Closes(o) THEN [handle EXCEPT !.state = "closed"] ELSE handle
Finish(o) == FinishAfter(o, rows)

\* The call finds that the child is gone.  recover_child_abort: after an
\* abort a verification or a batch query restarts the child and reports
\* every target as degraded; the restart may fail in turn.
Lost(how) ==
  IF how = "aborted" /\ call.method \in Recovers
  THEN \/ Restarted /\ Finish(Outcome("ok", call.key, Degraded(call.method)))
       \/ RestartFailed /\ Finish(Error("dead"))
  ELSE Gone(how) /\ Finish(Error(how))

Init ==
  /\ handle = NoHandle /\ child = "up" /\ gen = 0 /\ current = NoSession
  /\ token = "live" /\ pc = "ready" /\ call = NoCall /\ ops = <<>> /\ rows = <<>>
  /\ decided = <<>> /\ outcome = NoOutcome /\ calls = 0

-----------------------------------------------------------------------------
(* Opening a session                                                       *)

StartOpen(k) ==
  /\ pc = "ready" /\ calls < MaxCalls
  /\ \E t \in BOOLEAN :
       call' = [NoCall EXCEPT !.method = "open_session", !.via = "open", !.key = k, !.token = t]
  /\ pc' = "open" /\ calls' = calls + 1
  /\ handle' = NoHandle /\ rows' = <<>> /\ decided' = <<>> /\ outcome' = NoOutcome
  /\ UNCHANGED <<workerVars, token, ops>>

\* Mutant: the caller gets a handle although the request was not sent.
OpenRefusedIgnored ==
  /\ pc = "open" /\ call.via = "open"
  /\ handle' = [state |-> "open", key |-> call.key, gen |-> gen]
  /\ \/ Cancelled /\ UNCHANGED workerVars
     \/ ~Cancelled /\ RestartFailed
  /\ outcome' = Error("refused") /\ call' = NoCall /\ pc' = "ready"
  /\ UNCHANGED <<token, ops, calls, rows, decided>>

\* Cancelled beforehand: the child keeps whatever session it has.  Or the
\* child is gone, its stdout is, or a policy restart fails.
OpenRefused ==
  /\ pc = "open"
  /\ \/ Cancelled /\ UNCHANGED workerVars /\ outcome' = Error("cancelled")
     \/ /\ ~Cancelled /\ outcome' = Error("dead")
        /\ IF child = "unread" THEN UNCHANGED workerVars ELSE RestartFailed
  /\ handle' = NoHandle /\ call' = NoCall /\ pc' = "ready"
  /\ UNCHANGED <<token, ops, calls, rows, decided>>

\* The child answers that it opened or reused the session, on this child or,
\* after a policy restart, on the next.
OpenAnswered ==
  /\ pc = "open" /\ ~Cancelled /\ child = "up"
  /\ gen' \in {gen, gen + 1}
  /\ Up([key |-> call.key, gen |-> gen'])
  /\ handle' = [state |-> "open", key |-> call.key, gen |-> gen']
  /\ IF call.via = "host"
     THEN pc' = "prepare" /\ UNCHANGED <<call, outcome>>
     ELSE pc' = "ready" /\ call' = NoCall /\ outcome' = Error("opened")
  /\ UNCHANGED <<token, ops, calls, rows, decided>>

\* The import fails, the child is replaced at the deadline, or it exits: no
\* session.
OpenFails ==
  /\ pc = "open" /\ ~Cancelled /\ child = "up"
  /\ \/ Up(NoSession) /\ UNCHANGED gen
     \/ Restarted
     \/ RestartFailed
  /\ outcome' = Error("open_failed")
  /\ handle' = NoHandle /\ call' = NoCall /\ pc' = "ready"
  /\ UNCHANGED <<token, ops, calls, rows, decided>>

-----------------------------------------------------------------------------
(* A call                                                                  *)

\* Through a session handle.  A typed argument is encoded first; a closed
\* handle refuses the call.
StartCall(m) ==
  /\ pc = "ready" /\ calls < MaxCalls /\ handle.state # "none"
  /\ calls' = calls + 1 /\ rows' = <<>> /\ decided' = <<>>
  /\ \/ /\ m \in Typed
        /\ outcome' = Error("encode") /\ UNCHANGED <<pc, call>>
     \/ /\ handle.state = "closed"
        /\ outcome' = Error("invalidated") /\ UNCHANGED <<pc, call>>
     \/ /\ handle.state = "open"
        /\ \E t \in BOOLEAN :
             call' = [method |-> m, token |-> t, via |-> "session",
                      key |-> handle.key, retry |-> FALSE]
        /\ pc' = "prepare" /\ outcome' = NoOutcome
  /\ UNCHANGED <<handle, workerVars, token, ops>>

\* Through a host handle, which opens first.
StartHostCall(m, k) ==
  /\ pc = "ready" /\ calls < MaxCalls /\ m \in HandleMethods
  /\ calls' = calls + 1 /\ rows' = <<>> /\ decided' = <<>>
  /\ \E t \in BOOLEAN :
       call' = [method |-> m, token |-> t, via |-> "host", key |-> k, retry |-> FALSE]
  /\ pc' = "open" /\ handle' = NoHandle /\ outcome' = NoOutcome
  /\ UNCHANGED <<workerVars, token, ops>>

\* round_trip up to the written request.  A token cancelled before closes
\* the handle although nothing was sent; a policy may replace the child.
Prepare ==
  /\ pc = "prepare"
  /\ \/ /\ ~Cancelled /\ child = "up"
        /\ UNCHANGED workerVars \/ Restarted
        /\ pc' = "serve"
        /\ ops' = IF current'.key # "none" THEN HandlerOf(Request).does ELSE <<>>
        /\ UNCHANGED <<handle, call, outcome, rows>>
     \/ Cancelled /\ UNCHANGED workerVars /\ Finish(Error("cancelled"))
     \/ ~Cancelled /\ child = "up" /\ RestartFailed /\ Finish(Error("dead"))
     \/ ~Cancelled /\ child \in {"exited", "aborted"} /\ Lost(child)
     \/ \* nobody can read the answer: dead_error, of a child that did not exit
        /\ ~Cancelled /\ child = "unread"
        /\ IF call.method \in Recovers THEN Lost("aborted")
           ELSE UNCHANGED workerVars /\ Finish(Error("aborted"))
  /\ UNCHANGED <<token, calls, decided>>

Serving == pc = "serve" /\ current.key # "none"

\* The child has no session: missing_session_response.
SessionMissing ==
  /\ pc = "serve" /\ current.key = "none"
  /\ Finish(Error("session_missing"))
  /\ UNCHANGED <<workerVars, token, calls, decided>>

\* The next call of the handler returns; exports need a manifest-backed
\* session, and some calls may end the handler at once.
HandlerStep ==
  /\ Serving /\ ops # <<>>
  /\ Head(ops) = "binding" => current.key \in Manifested
  /\ ops' \in {Tail(ops)} \cup (IF Head(ops) \in MayEnd THEN {<<>>} ELSE {})
  /\ IF Head(ops) = "verify"
     THEN \E status \in [1..Len(TargetsOf(call.method)) -> Verdicts], rss \in Readings :
            decided' = <<status, rss>>
     ELSE UNCHANGED decided
  /\ UNCHANGED <<handle, workerVars, pc, call, outcome, token, calls, rows>>

\* It fails: error_response, binding_error_response.
HandlerFails ==
  /\ Serving /\ ops # <<>>
  /\ Finish(Error("host_error"))
  /\ UNCHANGED <<workerVars, token, calls, decided>>

\* Lean panics or aborts, or the child exits.
ChildDies ==
  /\ child \in {"up", "unread"}
  /\ \E how \in {"exited", "aborted"} :
       \/ /\ pc # "serve" /\ Gone(how)
          /\ UNCHANGED <<handle, pc, call, ops, outcome, rows>>
       \/ pc = "serve" /\ Lost(how)
  /\ UNCHANGED <<token, calls, decided>>

\* The deadline or the hard RSS limit: the child is replaced; where that
\* fails, its error is returned instead.
Interrupted ==
  /\ pc = "serve"
  /\ \/ Restarted /\ \E kind \in {"timeout", "rss_limit"} : Finish(Error(kind))
     \/ RestartFailed /\ Finish(Error("dead"))
  /\ UNCHANGED <<token, calls, decided>>

\* A row or tick was delivered and the call's token is looked at.
StopCancelled(rs) ==
  \/ Restarted /\ FinishAfter(Error("cancelled"), rs)
  \/ RestartFailed /\ FinishAfter(Error("dead"), rs)

\* A row reaches the sink.  A row of a typed stream that does not decode
\* cancels the caller's own token, or one made for the call.
RowArrives ==
  /\ Serving /\ ops # <<>> /\ Head(ops) = "rows" /\ Len(rows) < MaxRows
  /\ \E decodes \in IF call.method = "run_data_stream" THEN {TRUE} ELSE BOOLEAN :
       LET stops == call.method = "run_streaming_command" /\ ~decodes
           rs == Append(rows, decodes)
       IN /\ token' = IF stops /\ call.token /\ token = "live" THEN "row" ELSE token
          /\ IF stops \/ Cancelled THEN StopCancelled(rs)
             ELSE /\ rows' = rs
                  /\ UNCHANGED <<handle, workerVars, pc, call, ops, outcome>>
  /\ UNCHANGED <<calls, decided>>

TickArrives ==
  /\ Serving /\ call.method \in Ticking /\ Cancelled
  /\ StopCancelled(rows)
  /\ UNCHANGED <<token, calls, decided>>

\* A sink panics, or a row's value does not decode: the call ends while the
\* reader thread keeps the child's stdout.
SinkFails ==
  /\ Serving /\ call.method \in Ticking
  /\ Finish(Error("sink_panic"))
  /\ child' = "unread" /\ UNCHANGED <<current, gen, token, calls, decided>>

Served == IF decided = <<>> THEN <<>> ELSE JudgedRows(call.method, decided[1], decided[2])

\* list_declarations_strings looks at its collector before the answer.
Value ==
  IF call.method = "list_declarations_strings" /\ Malformed(rows)
  THEN Finish(Error("bad_row"))
  ELSE \/ Finish(Outcome("ok", current.key, Served))
       \/ call.method \in Typed /\ Finish(Error("decode"))

\* The answer comes in: the method takes it, turns it into an error, or does
\* not expect it.
Answer ==
  /\ Serving /\ ops = <<>>
  /\ \E a \in AnswersOf(Request) :
       IF a \notin RowOf(call.method).accepts THEN Finish(Error("unexpected"))
       ELSE IF a \in Refusals THEN Finish(Error("refused")) ELSE Value
  /\ UNCHANGED <<workerVars, token, calls, decided>>

-----------------------------------------------------------------------------
(* The caller                                                              *)

Cancel ==
  /\ token = "live" /\ token' = "caller"
  /\ UNCHANGED <<handle, workerVars, pc, call, ops, rows, decided, outcome, calls>>
NewToken ==
  /\ pc = "ready" /\ token # "live" /\ token' = "live"
  /\ UNCHANGED <<handle, workerVars, pc, call, ops, rows, decided, outcome, calls>>

\* cycle or restart, which no session handle outlives.
Cycle ==
  /\ pc = "ready" /\ calls < MaxCalls /\ calls' = calls + 1
  /\ \/ child # "unread" /\ Restarted
     \/ child # "unread" /\ RestartFailed
     \/ child = "unread" /\ UNCHANGED workerVars
  /\ handle' = NoHandle /\ rows' = <<>> /\ decided' = <<>> /\ outcome' = NoOutcome
  /\ UNCHANGED <<token, pc, call, ops>>

Next ==
  \/ \E k \in Keys : StartOpen(k) \/ \E m \in Methods : StartHostCall(m, k)
  \/ OpenRefused \/ OpenAnswered \/ OpenFails
  \/ \E m \in Methods : StartCall(m)
  \/ Prepare \/ SessionMissing \/ HandlerStep \/ HandlerFails
  \/ ChildDies \/ Interrupted \/ RowArrives \/ TickArrives \/ SinkFails \/ Answer
  \/ Cancel \/ NewToken \/ Cycle

Spec == Init /\ [][Next]_vars

-----------------------------------------------------------------------------
(* Properties                                                              *)

\* Every variable keeps its type; what a handler still has to do exists only
\* while it serves, and a session belongs to a child that is there.
TypeOK ==
  /\ handle.state \in {"none", "open", "closed"} /\ handle.key \in Keys \cup {"none"}
  /\ handle.gen \in 0..gen
  /\ child \in {"up", "unread", "exited", "aborted"} /\ gen \in Nat
  /\ current.key \in Keys \cup {"none"} /\ current.gen \in 0..gen
  /\ current.key # "none" => child \in {"up", "unread"}
  /\ token \in {"live", "caller", "row"} /\ calls \in 0..MaxCalls
  /\ pc \in {"ready", "open", "prepare", "serve"}
  /\ pc = "ready" <=> call = NoCall
  /\ ops # <<>> => pc = "serve"
  /\ Len(rows) <= MaxRows

\* A call that succeeds was computed in the session its handle was opened
\* for: same configuration, and the child has not been replaced since.  A
\* degraded answer says so itself.
AnswersFromOwnSession ==
  outcome.kind = "ok" /\ (\A i \in 1..Len(outcome.rows) : outcome.rows[i].status # "BudgetExceeded")
    => outcome.key = outcome.asked /\ outcome.gen = outcome.opened

Definite == {"NotFound", "NeedsBuild", "Rejected", "Ambiguous"}

\* No verdict is worse than what Lean found, nor taken from a child short of
\* memory: a negative one was Lean's, under a reading below the ceiling, and
\* an acceptance was Lean's, whatever happened to the child meanwhile.
NoFalseVerdict ==
  outcome.kind = "ok" => \A i \in 1..Len(outcome.rows) :
    LET status == outcome.rows[i].status IN
    status \in Definite \cup {"Accepted"} =>
      /\ decided # <<>> /\ decided[1][i] = status
      /\ status \in Definite /\ Ceiling # 0 => decided[2] < Ceiling

\* A verification that succeeds answers every target, in order, also when
\* its child was lost.
EveryTargetAnswered ==
  outcome.kind = "ok" /\ outcome.method \in {"verify_declaration", "verify_declaration_batch"} =>
    [i \in 1..Len(outcome.rows) |-> outcome.rows[i].target] = TargetsOf(outcome.method)

\* One verdict for each target, and each of them earned.
VerdictsAreEarned == NoFalseVerdict /\ EveryTargetAnswered

\* A row that does not decode is never covered by success, nor, on a typed
\* stream, by the cancellation that it causes itself.
RowFailureSurfaces ==
  /\ outcome.kind = "ok" /\ outcome.method \in {"run_streaming_command", "list_declarations_strings"}
       => ~Malformed(rows)
  /\ outcome.kind = "cancelled" /\ outcome.method = "run_streaming_command" => ~Malformed(rows)

\* Parent and child agree on the answer to every request: no method meets a
\* response that it does not expect.
NoUnexpectedResponse == outcome.kind # "unexpected"

\* An answer is to the call that was made, of the session it was made on, and
\* not of rows that could not be read.
AnswersFitCalls == AnswersFromOwnSession /\ NoUnexpectedResponse /\ RowFailureSurfaces
=============================================================================
