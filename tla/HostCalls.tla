----------------------------- MODULE HostCalls -----------------------------
(***************************************************************************)
(* Calls on a LeanSession (lean-rs-host/src/host/session.rs) by the        *)
(* threads of one process.  A method is a program of steps: where it looks *)
(* at its cancellation token, where it enters Lean, where it reports       *)
(* progress, and where Lean calls back.  The bulk methods have up to four  *)
(* programs for the same work.  Statistics and spans are left out.         *)
(***************************************************************************)
EXTENDS CallbackRegistry, Sequences, SequencesExt

CONSTANTS
  Methods,   \* the methods called; a subset of those in Method
  Shims,     \* the optional methods whose shim the library exports
  Declared,  \* the names the environment declares
  Batches,   \* sequences of names that are passed to a bulk method
  MaxCalls   \* bound: calls together

Threads == Owners

VARIABLES
  cancelled, \* the token that the threads share
  frame,     \* per thread: its call; "do" is what the program has left
  calls

callVars == <<registryVars, cancelled, frame, calls>>

-----------------------------------------------------------------------------
(* Methods                                                                 *)

NamedMethods == {"query_declaration", "declaration_type", "declaration_kind",
                 "declaration_name"}
TextMethods == {"name_to_string", "expr_to_string_raw", "elaborate"}
EvidenceMethods == {"check_evidence", "summarize_evidence"}
\* Those whose shim a library may lack.
QueryMethods == {"process_module_query", "process_module_query_batch",
                 "process_module_query_batch_cached"}
ProofMethods == {"attempt_proof", "verify_declaration", "verify_declaration_batch",
                 "clear_module_snapshot_cache"}
MetaMethods == {"run_meta"}
OptionalMethods == QueryMethods \cup ProofMethods \cup MetaMethods \cup {"inspect_declaration"}
SourceMethods == {"declaration_source_range", "search_declarations"}
TickingMethods == {"kernel_check", "list_declarations_filtered"}

\* The bulk methods, and the method that each is the fold of.
SingleOf ==
  [declaration_type_bulk   |-> "declaration_type",
   declaration_kind_bulk   |-> "declaration_kind",
   declaration_name_bulk   |-> "declaration_name",
   elaborate_bulk          |-> "elaborate",
   query_declarations_bulk |-> "query_declaration",
   name_to_string_bulk     |-> "name_to_string",
   list_declarations_strings |-> "name_to_string"]
BulkMethods == DOMAIN SingleOf

Method == NamedMethods \cup TextMethods \cup EvidenceMethods \cup OptionalMethods
  \cup SourceMethods \cup TickingMethods \cup BulkMethods
  \cup {"list_declarations", "live_extension_registry_epoch"}

ASSUME HostCallsAssumption ==
  /\ Methods \subseteq Method /\ Shims \subseteq OptionalMethods
  /\ MaxCalls \in Nat
  /\ \A names \in Batches : Len(names) \in Nat /\ DOMAIN names = 1..Len(names)

\* ShimBindings: the shims that resolve in the library that was loaded.
HasShim(m) == m \notin OptionalMethods \/ m \in Shims

\* What Lean finds for a name.
Answer(m, name) ==
  IF m \in {"query_declaration", "declaration_type", "declaration_kind",
            "declaration_source_range"} /\ name \notin Declared
  THEN "absent" ELSE name

-----------------------------------------------------------------------------
(* Programs                                                                *)

Step(does, at) == <<[does |-> does, at |-> at]>>
Check == Step("check", 0)
\* The parts one after the other, all as long as the first.
Each(parts) ==
  IF parts = <<>> THEN <<>>
  ELSE LET w == Len(parts[1])
       IN [k \in 1 .. w * Len(parts) |-> parts[((k - 1) \div w) + 1][((k - 1) % w) + 1]]

\* make_name looks at the token too.
Lookup(i) == Check \o Step("name", i) \o Check \o Step("call", i)
WithSources(i) == Check \o Step("name", i) \o Check \o Step("roots", 0) \o Check \o Step("call", i)

\* ProgressBridge: the sink is registered around one entry into Lean.
Bridged(work) == Step("enter", 0) \o work \o Step("leave", 0)

\* Methods that need a shim of their own; one of them looks at no token.
WithShim(m, i) ==
  CASE m = "clear_module_snapshot_cache" -> Step("shim", 0) \o Step("call", i)
    [] m = "inspect_declaration" ->
         Check \o Step("shim", 0) \o Step("roots", 0) \o Check \o Step("call", i)
    [] OTHER -> Check \o Step("shim", 0) \o Step("call", i)

Ticking(m, i) ==
  Check \o Bridged((IF m = "kernel_check" THEN Step("tick", 0) ELSE <<>>)
                   \o Step("work", i) \o Step("tick", 1))

Single(m, i, sink) ==
  CASE m \in NamedMethods -> Lookup(i)
    [] m = "declaration_source_range" -> WithSources(i)
    [] m = "search_declarations" -> Check \o Step("roots", 0) \o Check \o Step("call", i)
    [] m = "live_extension_registry_epoch" -> Step("call", i)
    [] m \in OptionalMethods -> WithShim(m, i)
    [] m \in TickingMethods /\ sink -> Ticking(m, i)
    [] OTHER -> Check \o Step("call", i)

\* Mutant: the loop looks at the token once, and so do not its calls.
OneByOneUnchecked(m, n) ==
  Check \o Each([i \in 1..n |-> Step("name", i) \o Step("call", i) \o Step("report", i)])
\* With a token, item by item; name_to_string_bulk in any case.
OneByOne(m, n) ==
  Check \o Each([i \in 1..n |-> Check \o Single(SingleOf[m], i, FALSE) \o Step("report", i)])

\* One entry into Lean, which reports each item; or no sink and one answer.
AllAtOnce(n, sink) ==
  IF sink THEN Bridged(Each([i \in 1..n |-> Step("work", i) \o Step("tick", i)]))
  ELSE Step("all", n)

\* query_declarations_bulk makes its names first, and looks for absent ones last.
QueryAtOnce(n, sink) ==
  Check \o Each([i \in 1..n |-> Check \o Step("name", i) \o Step("report", i)]) \o Check
  \o AllAtOnce(n, sink) \o Step("zip", 0)

Same(names) == \A i \in DOMAIN names : names[i] = names[1]

\* Without token and sink, a batch of equal names is one lookup.
Bulk(m, names, token, sink) ==
  CASE m = "list_declarations_strings" ->
         Check \o Step("list", 0) \o IF names = <<>> THEN <<>> ELSE OneByOne(m, Len(names))
    [] names = <<>> -> <<>>
    [] token \/ m = "name_to_string_bulk" -> OneByOne(m, Len(names))
    [] m = "query_declarations_bulk" -> QueryAtOnce(Len(names), sink)
    [] /\ ~sink /\ Same(names)
       /\ m \notin {"elaborate_bulk", "query_declarations_bulk"} -> Check \o Step("one", Len(names))
    [] OTHER -> Check \o AllAtOnce(Len(names), sink)

Program(m, names, token, sink) ==
  IF m \in BulkMethods THEN Bulk(m, names, token, sink) ELSE Single(m, 1, sink)

-----------------------------------------------------------------------------
(* Calls                                                                   *)

NoFrame == [method |-> "none", names |-> <<>>, token |-> FALSE, sink |-> FALSE,
            do |-> <<>>, out |-> <<>>, bridge |-> 0, outcome |-> "none",
            late |-> 0, panicked |-> FALSE, ticks |-> <<>>]

Running(t) == frame[t].outcome = "running"

CallsInit ==
  /\ RegistryInit /\ cancelled = FALSE
  /\ frame = [t \in Threads |-> NoFrame] /\ calls = 0

\* Arguments a method takes: a token, a sink, a name or a batch.
Tokened(m) == m \notin {"clear_module_snapshot_cache", "live_extension_registry_epoch"}
Sinked(m) == m \in BulkMethods \cup TickingMethods
NamesFor(m) == IF m \in BulkMethods THEN Batches
               ELSE {b \in Batches : Len(b) = 1}

StartCall(t, m) ==
  /\ ~Running(t) /\ calls < MaxCalls
  /\ calls' = calls + 1
  /\ \E token, sink \in BOOLEAN, names \in NamesFor(m) :
       /\ token => Tokened(m)
       /\ sink => Sinked(m)
       /\ frame' = [frame EXCEPT ![t] =
            [NoFrame EXCEPT !.method = m, !.names = names, !.token = token, !.sink = sink,
                            !.do = Program(m, names, token, sink), !.outcome = "running"]]
  /\ UNCHANGED <<registryVars, cancelled>>

\* Anyone who has the token, at any time.
Cancel == ~cancelled /\ cancelled' = TRUE /\ UNCHANGED <<registryVars, frame, calls>>

At(t, does) == Running(t) /\ frame[t].do # <<>> /\ Head(frame[t].do).does = does
Advanced(f) == [f EXCEPT !.do = Tail(@)]
Item(t) == Head(frame[t].do).at

\* The frame ends, and with it the bridge, whatever happened.
End(t, how) ==
  /\ frame' = [frame EXCEPT ![t].outcome = how, ![t].do = <<>>, ![t].bridge = 0]
  /\ IF frame[t].bridge # 0 THEN Unregister(frame[t].bridge) ELSE UNCHANGED registryVars

Go(t, f) == frame' = [frame EXCEPT ![t] = Advanced(f)] /\ UNCHANGED registryVars

\* An entry into Lean under a token that was cancelled before.
Entering(f) == IF f.token /\ cancelled THEN [f EXCEPT !.late = @ + 1] ELSE f

Result(t, i) == Answer(IF frame[t].method \in BulkMethods THEN SingleOf[frame[t].method]
                       ELSE frame[t].method, frame[t].names[i])
Collected(f, answers) == [f EXCEPT !.out = @ \o answers]

\* check_cancellation.
CheckToken(t) ==
  /\ At(t, "check")
  /\ IF frame[t].token /\ cancelled THEN End(t, "cancelled") ELSE Go(t, frame[t])
  /\ UNCHANGED <<cancelled, calls>>

\* make_name, or the listing of list_declarations_strings: Lean may raise.
EnterLean(t) ==
  /\ At(t, "name") \/ At(t, "list")
  /\ \/ Go(t, Entering(frame[t]))
     \/ End(t, "lean")
  /\ UNCHANGED <<cancelled, calls>>

\* The source roots of the project: file system.
SourceRoots(t) ==
  /\ At(t, "roots")
  /\ Go(t, frame[t]) \/ End(t, "io")
  /\ UNCHANGED <<cancelled, calls>>

\* An optional shim that the library does not export.
OptionalShim(t) ==
  /\ At(t, "shim")
  /\ IF HasShim(frame[t].method) THEN Go(t, frame[t]) ELSE End(t, "unsupported")
  /\ UNCHANGED <<cancelled, calls>>

\* query_declaration: an absent name is an error.
Missing(t) ==
  /\ frame[t].method \in {"query_declaration", "query_declarations_bulk"}
  /\ Result(t, Item(t)) = "absent"

\* One item.
CallLean(t) ==
  /\ At(t, "call")
  /\ \/ Missing(t) /\ End(t, "missing")
     \/ ~Missing(t) /\ Go(t, Collected(Entering(frame[t]), <<Result(t, Item(t))>>))
     \/ End(t, "lean")
  /\ UNCHANGED <<cancelled, calls>>

\* Mutant: the one answer is not replicated.
ReplicatedOnce(t) == <<Result(t, 1)>>
\* The one answer stands for every name of the batch.
Replicated(t) == [i \in 1..Item(t) |-> Result(t, 1)]

CallBulk(t) ==
  /\ At(t, "all") \/ At(t, "one")
  /\ \/ /\ At(t, "one") /\ Go(t, Collected(Entering(frame[t]), Replicated(t)))
     \/ /\ At(t, "all")
        /\ Go(t, Collected(Entering(frame[t]), [i \in 1..Item(t) |-> Result(t, i)]))
     \/ End(t, "lean")
  /\ UNCHANGED <<cancelled, calls>>

-----------------------------------------------------------------------------
(* Progress                                                                *)

\* Mutant: the index is reported, not the count.
TickedFromZero(f, i) == [f EXCEPT !.ticks = Append(@, i - 1)]
Ticked(f, i) == [f EXCEPT !.ticks = Append(@, i)]

\* Mutant: a panic of the sink is swallowed.
ReportSwallows(t) ==
  /\ At(t, "report")
  /\ \/ Go(t, IF frame[t].sink THEN Ticked(frame[t], Item(t)) ELSE frame[t])
     \/ /\ frame[t].sink
        /\ Go(t, [frame[t] EXCEPT !.panicked = TRUE])
  /\ UNCHANGED <<cancelled, calls>>

\* report_progress: on this side of the boundary, a panic is caught here.
Report(t) ==
  /\ At(t, "report")
  /\ \/ Go(t, IF frame[t].sink THEN Ticked(frame[t], Item(t)) ELSE frame[t])
     \/ /\ frame[t].sink
        /\ frame' = [frame EXCEPT ![t].panicked = TRUE, ![t].do = <<>>, ![t].outcome = "panic"]
        /\ UNCHANGED registryVars
  /\ UNCHANGED <<cancelled, calls>>

\* Mutant: the handle is dropped at once, and only its id is kept.
EnterDropsHandle(t) ==
  /\ At(t, "enter")
  /\ IF CanRegister
     THEN /\ nextId' = (Allocated + 1) % IdSpace /\ UNCHANGED registry
          /\ frame' = [frame EXCEPT ![t] = [Advanced(Entering(@)) EXCEPT !.bridge = Allocated]]
     ELSE End(t, "registry")
  /\ UNCHANGED <<cancelled, calls>>

\* ProgressBridge::new, and the entry into Lean.
Enter(t) ==
  /\ At(t, "enter")
  /\ IF CanRegister
     THEN /\ Register(t)
          /\ frame' = [frame EXCEPT ![t] = [Advanced(Entering(@)) EXCEPT !.bridge = Allocated]]
     ELSE End(t, "registry")
  /\ UNCHANGED <<cancelled, calls>>

\* Lean does one item.
Work(t) ==
  /\ At(t, "work")
  /\ Go(t, Collected(frame[t], <<Result(t, Item(t))>>)) \/ End(t, "lean")
  /\ UNCHANGED <<cancelled, calls>>

\* Lean calls back: progress_trampoline.  A status that is not Ok makes Lean
\* return it at once, and decode_result turns it into the call's error.
Tick(t) ==
  /\ At(t, "tick")
  /\ \/ Reaches(frame[t].bridge, t) /\ Go(t, Ticked(frame[t], Item(t)))
     \/ /\ Reaches(frame[t].bridge, t)
        /\ frame' = [frame EXCEPT ![t].panicked = TRUE, ![t].do = <<>>,
                                  ![t].outcome = "panic", ![t].bridge = 0]
        /\ Unregister(frame[t].bridge)
     \/ Stale(frame[t].bridge) /\ End(t, "stale")
     \/ /\ ~Stale(frame[t].bridge) /\ ~Reaches(frame[t].bridge, t)
        /\ End(t, "misrouted")
  /\ UNCHANGED <<cancelled, calls>>

\* The call returns and the bridge is dropped; the answer may not decode.
Leave(t) ==
  /\ At(t, "leave")
  /\ \/ /\ frame' = [frame EXCEPT ![t] = [Advanced(@) EXCEPT !.bridge = 0]]
        /\ Unregister(frame[t].bridge)
     \/ End(t, "conversion")
  /\ UNCHANGED <<cancelled, calls>>

\* query_declarations_bulk: the first absent name is the error.
ZipNames(t) ==
  /\ At(t, "zip")
  /\ IF Contains(frame[t].out, "absent") THEN End(t, "missing") ELSE Go(t, frame[t])
  /\ UNCHANGED <<cancelled, calls>>

Return(t) ==
  /\ Running(t) /\ frame[t].do = <<>>
  /\ End(t, "ok")
  /\ UNCHANGED <<cancelled, calls>>

Steps(t) ==
  \/ CheckToken(t) \/ EnterLean(t) \/ SourceRoots(t) \/ OptionalShim(t) \/ CallLean(t)
  \/ CallBulk(t) \/ Report(t) \/ Enter(t) \/ Work(t) \/ Tick(t) \/ Leave(t) \/ ZipNames(t)
  \/ Return(t)

CallsNext == Cancel \/ \E t \in Threads : (\E m \in Methods : StartCall(t, m)) \/ Steps(t)
CallsSpec == CallsInit /\ [][CallsNext]_callVars

-----------------------------------------------------------------------------
(* Properties                                                              *)

CallOutcomes == {"none", "running", "ok", "cancelled", "lean", "io", "unsupported", "missing",
                 "panic", "registry", "stale", "misrouted", "conversion"}

CallsTypeOK ==
  /\ RegistryTypeOK /\ cancelled \in BOOLEAN
  /\ calls \in 0..MaxCalls
  /\ \A t \in Threads :
       /\ frame[t].method \in Method \cup {"none"} /\ frame[t].names \in Batches \cup {<<>>}
       /\ frame[t].token \in BOOLEAN /\ frame[t].sink \in BOOLEAN
       /\ frame[t].panicked \in BOOLEAN /\ frame[t].late \in Nat
       /\ frame[t].outcome \in CallOutcomes /\ frame[t].bridge \in 0..(IdSpace - 1)

\* Cancellation is cooperative but prompt: once the token is cancelled, the
\* call enters Lean at most once more (the entry it had just looked for),
\* whichever of its programs it runs (cancellation.rs, session.rs).
CancelStops == \A t \in Threads : frame[t].late <= 1

\* Whichever program ran, an ok answer has the single answers of the names,
\* in order, and a missing name is reported only if one is missing
\* (session.rs:2224, 1089).
AnswersAreSingle ==
  \A t \in Threads : frame[t].method \in BulkMethods =>
    LET single == SingleOf[frame[t].method]
        answers == [i \in DOMAIN frame[t].names |-> Answer(single, frame[t].names[i])]
    IN /\ frame[t].outcome = "ok" => frame[t].out = answers
       /\ frame[t].outcome \in {"ok", "missing"} /\ single = "query_declaration" =>
            ((frame[t].outcome = "missing") <=> Contains(answers, "absent"))

\* While Lean works for a call, the id it was given is live and reaches the
\* sink of that call, and not of another thread's (callback.rs, progress.rs).
BridgesReachTheirSinks ==
  \A t \in Threads : /\ frame[t].bridge # 0 => Reaches(frame[t].bridge, t)
                     /\ frame[t].outcome \notin {"stale", "misrouted"}

\* A panic of the sink is the outcome of the call, wherever the sink ran.
PanicSurfaces == \A t \in Threads : frame[t].panicked => frame[t].outcome = "panic"

\* A sink is called for its own call only, and what becomes of it is known.
SinksAreServed == BridgesReachTheirSinks /\ PanicSurfaces

\* A bulk call that succeeds has reported each of its items, in order, in
\* each of its phases (progress.rs: current is monotone within a phase).
TicksCountItems ==
  \A t \in Threads :
    frame[t].method \in BulkMethods /\ frame[t].sink /\ frame[t].outcome = "ok" =>
      LET items == [i \in DOMAIN frame[t].names |-> i]
      IN frame[t].ticks \in {items, items \o items}

\* Bulk methods are folds of their single methods, in what they return and in
\* what they report.
BulkIsFold == AnswersAreSingle /\ TicksCountItems
=============================================================================
