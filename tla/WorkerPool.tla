----------------------------- MODULE WorkerPool -----------------------------
(***************************************************************************)
(* The local worker pool and its leases (`LeanWorkerPool`, `PoolEntry` and *)
(* `LeanWorkerSessionLease`, crates/lean-rs-worker-parent/src/pool.rs).    *)
(*                                                                         *)
(* A lease borrows the pool mutably, so one caller drives everything: the  *)
(* variable pc is its place inside the current call, and what overtakes it *)
(* is the death of a child.  A supervisor is reduced to what the pool can  *)
(* see of it, and each of its calls to the set of its outcomes;            *)
(* WorkerSupervisor models how they come about.                            *)
(***************************************************************************)
EXTENDS Naturals, Sequences, Functions, FiniteSetsExt

CONSTANTS
  Keys,          \* LeanWorkerSessionKey
  MaxWorkers,    \* config.max_workers
  Budget,        \* config.max_total_child_rss_kib; one no reading reaches
  Ceiling,       \* config.per_worker_rss_ceiling_kib;   stands for None
  QueueWait,     \* config.queue_wait_timeout is not zero
  IdleCycle,     \* config.idle_cycle_after is Some
  Samples,       \* the RSS readings a child may give
  Unknown,       \* None: no reading, or no total
  MaxCalls       \* bound: acquisitions and lease calls

ASSUME PoolAssumption ==
  /\ MaxWorkers \in Nat \ {0} /\ Budget \in Nat \ {0} /\ Ceiling \in Nat \ {0}
  /\ QueueWait \in BOOLEAN /\ IdleCycle \in BOOLEAN
  /\ Samples \subseteq Nat /\ Unknown \notin Nat /\ MaxCalls \in Nat

VARIABLES
  entries,     \* entries, in the order they were opened
  counts,      \* the admission counters
  inProgress,  \* cold_opens_in_progress
  seen,        \* seen_keys
  rssBefore,   \* rss_before_admission_kib
  lease,       \* the live lease, if any
  \* the current call: its place, its key and the entry it works on
  pc, target, at,
  \* history of the last call: how often a child ran its command, its outcome
  \* (and, in the lease, how many of its commands ran on another generation)
  ran, result,
  calls

poolVars == <<counts, inProgress, seen, rssBefore>>
histVars == <<ran, result>>
vars == <<entries, poolVars, lease, pc, target, at, histVars, calls>>

NoKey    == "no_key"
NoLease  == [at |-> 0, gen |-> 0, valid |-> FALSE, override |-> FALSE, strays |-> 0]
Readings == Samples \cup {Unknown}

NoCounts == [hits |-> 0, misses |-> 0, empty_pool |-> 0, no_matching_key |-> 0,
             attempts |-> 0, admitted |-> 0, refusals |-> 0, concurrent |-> 0]

-----------------------------------------------------------------------------
(* A worker as the pool sees it.  gen is lifecycle_snapshot()'s generation, *)
(* session: the child has an open session, timeout: config.request_timeout. *)
(* proc: "stuck" is a child whose stop failed, so that its supervisor       *)
(* rejects requests; "mute" is a child whose stdout was lost.               *)

NewWorker(open) == [gen |-> 0, proc |-> "running", session |-> open, timeout |-> "base"]

\* An outcome: whether the command ran, and (history) on which generation.
Out(w, r)   == [worker |-> w, result |-> r, ran |-> 0, on |-> w.gen]
Lost(w, p)  == [w EXCEPT !.proc = p, !.session = FALSE]
Replaced(w) == [w EXCEPT !.gen = @ + 1, !.proc = "running", !.session = FALSE]

\* restart_with_reason: the new child, or the ways in which the stop, the
\* intensity limit or the spawn fail.
RestartOutcomes(w, r) ==
  LET ended == {Out(Replaced(w), r),
                Out(Lost(w, "dead"), "restart_limit"),
                Out([Lost(w, "dead") EXCEPT !.gen = @ + 1], "spawn_failed")}
  IN CASE w.proc = "dead"    -> ended
       [] w.proc = "running" -> ended \cup {Out(Lost(w, "stuck"), "stop_failed")}
       [] w.proc = "mute"    -> {Out(Lost(w, "stuck"), "exited")}
       [] w.proc = "stuck"   -> ended \cup {Out(w, "stop_failed"), Out(w, "exited")}

\* The ways in which a request that reached a running child goes wrong.
Failures(w) ==
  {Out(Lost(w, "dead"), "exited"), Out(Lost(w, "mute"), "protocol")}
    \cup UNION {RestartOutcomes(w, r) : r \in {"cancelled", "timeout", "rss_hard_limit"}}

\* What a running child does with a command: without a session it answers
\* session_missing.  A child abort may be absorbed by a restart ("degraded").
CommandAnswers(w) ==
  IF ~w.session
  THEN {Out(w, "session_missing")} \cup Failures(w)
  ELSE {[o EXCEPT !.ran = 1, !.on = w.gen] :
          o \in {Out(w, "ok"), Out(w, "error")} \cup Failures(w) \cup RestartOutcomes(w, "degraded")}

OpenAnswers(w) ==
  {Out([w EXCEPT !.session = TRUE], "ok"), Out([w EXCEPT !.session = FALSE], "error")}
    \cup Failures(w)

Answers(w, call) == IF call = "command" THEN CommandAnswers(w) ELSE OpenAnswers(w)

\* prepare_request and ensure_running before the answer: the token may already
\* be cancelled, the policy may restart the child first, a dead or stopping
\* supervisor refuses.
Request(w, call) ==
  {Out(w, "cancelled")} \cup
  CASE w.proc = "dead"    -> {Out(w, "exited")}
    [] w.proc = "mute"    -> {Out(w, "exited")}
    [] w.proc = "stuck"   -> {Out(w, "refused")}
    [] w.proc = "running" ->
         Answers(w, call) \cup
         UNION {IF o.result = "restarted" THEN Answers(o.worker, call) ELSE {o}
                  : o \in RestartOutcomes(w, "restarted")}

-----------------------------------------------------------------------------
Init ==
  /\ entries = <<>> /\ counts = NoCounts /\ inProgress = 0 /\ seen = {}
  /\ rssBefore = Unknown /\ lease = NoLease
  /\ pc = "ready" /\ target = NoKey /\ at = 0
  /\ ran = 0 /\ result = "none" /\ calls = 0

\* A call returns.
Return(r) ==
  /\ pc' = "ready" /\ at' = 0 /\ target' = NoKey
  /\ result' = r

Positions == {i \in 1..Len(entries) : entries[i].key = target}

\* total_known_child_rss and PoolRssTotal.available_total: unknown as soon as
\* one reading is missing.
KnownTotal(rss) ==
  IF Unknown \in Range(rss) THEN Unknown
  ELSE MapThenSumSet(LAMBDA i : rss[i], DOMAIN rss)

-----------------------------------------------------------------------------
(* acquire_lease                                                           *)

Acquire(k) ==
  /\ pc = "ready" /\ lease = NoLease /\ calls < MaxCalls
  /\ calls' = calls + 1
  /\ target' = k /\ seen' = seen \cup {k}
  /\ ran' = 0 /\ result' = "none"
  /\ pc' = "admit"
  /\ UNCHANGED <<entries, counts, inProgress, rssBefore, lease, at>>

\* admit_lease finds an entry of this key.
AdmitHit ==
  /\ pc = "admit"
  /\ \E i \in Positions : (\A j \in Positions : i <= j) /\ at' = i
  /\ counts' = [counts EXCEPT !.hits = @ + 1]
  /\ pc' = "assign"
  /\ UNCHANGED <<entries, inProgress, seen, rssBefore, lease, target, histVars, calls>>

\* record_key_miss, record_cold_open_attempt and, by outcome, a refusal or an
\* admission, in one step of the counters.
CountMiss(admitted) ==
  counts' = [counts EXCEPT !.misses = @ + 1,
                           !.empty_pool = IF entries = <<>> THEN @ + 1 ELSE @,
                           !.no_matching_key = IF entries = <<>> THEN @ ELSE @ + 1,
                           !.attempts = @ + 1,
                           !.concurrent = IF inProgress > 0 THEN @ + 1 ELSE @,
                           !.admitted = IF admitted THEN @ + 1 ELSE @,
                           !.refusals = IF admitted THEN @ ELSE @ + 1]

\* refresh_total_child_rss: every entry is sampled; a missing reading leaves
\* the last one in place.
Sampled(rss) ==
  [i \in 1..Len(entries) |->
     [entries[i] EXCEPT !.rss = IF rss[i] = Unknown THEN @ ELSE rss[i]]]

\* Mutant: a full pool is noticed one worker late.
FullOffByOne == Len(entries) > MaxWorkers
Full == Len(entries) >= MaxWorkers

\* ensure_spawn_within_total_rss_budget.
OverBudget(total) == total # Unknown /\ total >= Budget

\* admit_lease finds none: refused when the pool is full (at once or after
\* sleeping out the queue wait) or its known RSS is over budget.
AdmitMiss ==
  /\ pc = "admit" /\ Positions = {}
  /\ \E rss \in [1..Len(entries) -> Readings] :
       LET total == KnownTotal(rss) IN
       /\ entries' = Sampled(rss)
       /\ rssBefore' = total
       /\ IF Full \/ OverBudget(total)
          THEN /\ CountMiss(FALSE)
               /\ Return(IF ~Full THEN "rss_budget"
                         ELSE IF QueueWait THEN "queue_timeout" ELSE "max_workers")
               /\ UNCHANGED <<inProgress, ran>>
          ELSE /\ CountMiss(TRUE)
               /\ inProgress' = inProgress + 1
               /\ pc' = "open"
               /\ UNCHANGED <<target, at, histVars>>
  /\ UNCHANGED <<seen, lease, calls>>

\* grant_lease on entry i of es.
GrantLease(es, i) ==
  /\ entries' = [es EXCEPT ![i].leases = @ + 1]
  /\ lease' = [at |-> i, gen |-> es[i].worker.gen, valid |-> TRUE, override |-> FALSE,
                strays |-> 0]
  /\ Return("granted")

\* The cold open succeeds.  A builder with imports has opened a session.
OpenEntry ==
  /\ pc = "open"
  /\ inProgress' = inProgress - 1
  /\ \E open \in BOOLEAN, rss \in Readings :
       GrantLease(Append(entries, [key |-> target, worker |-> NewWorker(open),
                                   leases |-> 0, rss |-> rss]),
                  Len(entries) + 1)
  /\ UNCHANGED <<counts, seen, rssBefore, ran, calls>>

\* Mutant: the error return forgets the open in progress.
OpenEntryFailsLeaks ==
  /\ pc = "open"
  /\ Return("open_failed")
  /\ UNCHANGED <<entries, inProgress, counts, seen, rssBefore, lease, ran, calls>>

OpenEntryFails ==
  /\ pc = "open"
  /\ inProgress' = inProgress - 1
  /\ Return("open_failed")
  /\ UNCHANGED <<entries, counts, seen, rssBefore, lease, ran, calls>>

\* ensure_entry_running: a child that exited is replaced by a new capability;
\* one whose stop failed may have exited by now.
EnsureEntryRunning ==
  /\ pc = "assign"
  /\ LET w == entries[at].worker IN
     \/ /\ w.proc # "dead"
        /\ pc' = "policy"
        /\ UNCHANGED <<entries, target, at, histVars>>
     \/ /\ w.proc # "running"
        /\ \E open \in BOOLEAN :
             entries' = [entries EXCEPT ![at].worker = NewWorker(open)]
        /\ pc' = "policy"
        /\ UNCHANGED <<target, at, histVars>>
     \/ /\ w.proc # "running"
        /\ Return("open_failed")
        /\ UNCHANGED <<entries, ran>>
  /\ UNCHANGED <<poolVars, lease, calls>>

-----------------------------------------------------------------------------
(* enforce_policy on entry e: the set of [entry, result] it may end in,     *)
(* "kept" when neither the RSS ceiling nor the idle bound is reached.       *)

SampledEntry(e, r) == [e EXCEPT !.rss = IF r = Unknown THEN @ ELSE r]

\* cycle_for_policy: on success the sample of the old child is forgotten.
CycleForPolicy(e) ==
  {[entry  |-> [e EXCEPT !.worker = o.worker,
                         !.rss = IF o.result = "cycled" THEN Unknown ELSE @],
    result |-> o.result] : o \in RestartOutcomes(e.worker, "cycled")}

EnforcePolicy(e) ==
  UNION {LET s == SampledEntry(e, r) IN
         IF r # Unknown /\ r >= Ceiling
         THEN CycleForPolicy(s)
         ELSE {[entry |-> s, result |-> "kept"]}
                \cup (IF IdleCycle THEN CycleForPolicy(s) ELSE {})
           : r \in Readings}

\* enforce_entry_policy_before_assignment, and the grant.
AssignPolicy ==
  /\ pc = "policy"
  /\ \E o \in EnforcePolicy(entries[at]) :
       LET es == [entries EXCEPT ![at] = o.entry] IN
       IF o.result \in {"kept", "cycled"}
       THEN GrantLease(es, at)
       ELSE /\ entries' = es
            /\ Return(o.result)
            /\ UNCHANGED lease
  /\ UNCHANGED <<poolVars, ran, calls>>

-----------------------------------------------------------------------------
(* The lease                                                               *)

Leased == entries[lease.at].worker

\* Mutant: the generation is not compared.
ensure_valid_flag_only == lease # NoLease /\ lease.valid
ensure_valid == lease # NoLease /\ lease.valid /\ Leased.gen = lease.gen

LeaseCall == pc = "ready" /\ calls < MaxCalls /\ calls' = calls + 1

SetRequestTimeout ==
  /\ LeaseCall /\ ensure_valid /\ ~lease.override
  /\ lease' = [lease EXCEPT !.override = TRUE]
  /\ UNCHANGED <<entries, poolVars, pc, target, at, histVars>>

\* cycle(): a cycle that failed leaves the lease as it was.
LeaseCycle ==
  /\ LeaseCall /\ ensure_valid
  /\ \E o \in RestartOutcomes(Leased, "cycled") :
       /\ entries' = [entries EXCEPT ![lease.at].worker = o.worker]
       /\ lease' = [lease EXCEPT !.valid = o.result # "cycled"]
       /\ result' = o.result
  /\ ran' = 0
  /\ UNCHANGED <<poolVars, pc, target, at>>

\* run_with_current_session up to the command: the pool's own policy may
\* cycle the worker, which invalidates the lease.
BeginCommand ==
  /\ LeaseCall /\ ensure_valid
  /\ ran' = 0
  /\ \E o \in EnforcePolicy(entries[lease.at]) :
       \/ /\ o.result = "kept"
          /\ entries' = [entries EXCEPT ![lease.at] =
                [o.entry EXCEPT !.worker.timeout = IF lease.override THEN "override" ELSE @]]
          /\ pc' = "first" /\ result' = "none"
          /\ UNCHANGED lease
       \/ /\ o.result # "kept"
          /\ entries' = [entries EXCEPT ![lease.at] = o.entry]
          /\ lease' = [lease EXCEPT !.valid = o.result # "cycled"]
          /\ result' = o.result /\ pc' = "ready"
  /\ UNCHANGED <<poolVars, target, at>>

\* invalidates_lease.
InvalidatesLease(r) == r \in {"cancelled", "timeout", "restart_limit", "exited"}

\* History: the command ran on another generation than the one granted.
Strayed(o) == IF o.ran = 1 /\ o.on # lease.gen THEN 1 ELSE 0

\* Mutant: the override is undone only on the success path.
FinishCommandOkOnly(o) ==
  /\ entries' = [entries EXCEPT ![lease.at].worker =
       [o.worker EXCEPT !.timeout = IF lease.override /\ o.result = "ok" THEN "base" ELSE @]]
  /\ lease' = [lease EXCEPT !.valid = @ /\ ~InvalidatesLease(o.result),
                            !.strays = @ + Strayed(o)]
  /\ result' = o.result /\ pc' = "ready"

\* map_lifecycle_result: the override is undone whatever the result.
FinishCommand(o) ==
  /\ entries' = [entries EXCEPT ![lease.at].worker =
       [o.worker EXCEPT !.timeout = IF lease.override THEN "base" ELSE @]]
  /\ lease' = [lease EXCEPT !.valid = @ /\ ~InvalidatesLease(o.result),
                            !.strays = @ + Strayed(o)]
  /\ result' = o.result /\ pc' = "ready"

\* Mutant: any error of the worker is taken for a missing session.
RetriesAnyError(r) == r \in {"session_missing", "error"}
\* worker_session_missing.
Retries(r) == r = "session_missing"

\* command(&mut session), the first time or after the session was reopened;
\* the generation is not looked at again.
RunCommand ==
  /\ pc \in {"first", "second"}
  /\ \E o \in Request(Leased, "command") :
       /\ ran' = ran + o.ran
       /\ IF pc = "first" /\ Retries(o.result)
          THEN /\ entries' = [entries EXCEPT ![lease.at].worker = o.worker]
               /\ pc' = "reopen"
               /\ UNCHANGED <<lease, result>>
          ELSE FinishCommand(o)
  /\ UNCHANGED <<poolVars, target, at, calls>>

\* open_session, after the child answered that it has none.
ReopenSession ==
  /\ pc = "reopen"
  /\ \E o \in Request(Leased, "open") :
       IF o.result = "ok"
       THEN /\ entries' = [entries EXCEPT ![lease.at].worker =
                 [o.worker EXCEPT !.timeout = IF lease.override THEN "override" ELSE @]]
            /\ pc' = "second"
            /\ UNCHANGED <<lease, result>>
       ELSE FinishCommand(o)
  /\ UNCHANGED <<poolVars, target, at, ran, calls>>

\* Mutant: an invalidated lease does not give its slot back.
ReleaseValidOnly ==
  /\ pc = "ready" /\ lease # NoLease
  /\ entries' = IF lease.valid THEN [entries EXCEPT ![lease.at].leases = @ - 1] ELSE entries
  /\ lease' = NoLease
  /\ UNCHANGED <<poolVars, pc, target, at, histVars, calls>>

\* Mutant: release() and the Drop behind it both give the slot back.
ReleaseWithoutFlag ==
  /\ pc = "ready" /\ lease # NoLease
  /\ entries' = [entries EXCEPT ![lease.at].leases = @ - 2]
  /\ lease' = NoLease
  /\ UNCHANGED <<poolVars, pc, target, at, histVars, calls>>

\* release() and Drop, once for each lease.
Release ==
  /\ pc = "ready" /\ lease # NoLease
  /\ entries' = [entries EXCEPT ![lease.at].leases = @ - 1]
  /\ lease' = NoLease
  /\ UNCHANGED <<poolVars, pc, target, at, histVars, calls>>

-----------------------------------------------------------------------------
\* A child dies by itself; its supervisor notices at the next call.
ChildDies(i) ==
  /\ entries[i].worker.proc \in {"running", "mute"}
  /\ entries' = [entries EXCEPT ![i].worker = Lost(@, "dead")]
  /\ UNCHANGED <<poolVars, lease, pc, target, at, histVars, calls>>

Next ==
  \/ \E k \in Keys : Acquire(k)
  \/ AdmitHit \/ AdmitMiss \/ OpenEntry \/ OpenEntryFails
  \/ EnsureEntryRunning \/ AssignPolicy
  \/ SetRequestTimeout \/ LeaseCycle \/ BeginCommand \/ RunCommand
  \/ ReopenSession \/ Release
  \/ \E i \in 1..Len(entries) : ChildDies(i)

Spec == Init /\ [][Next]_vars

-----------------------------------------------------------------------------
(* Properties                                                              *)

WorkerType == [gen : Nat, proc : {"running", "dead", "stuck", "mute"},
               session : BOOLEAN, timeout : {"base", "override"}]
EntryType  == [key : Keys, worker : WorkerType, leases : Nat, rss : Readings]
CountsType == [hits : Nat, misses : Nat, empty_pool : Nat, no_matching_key : Nat,
               attempts : Nat, admitted : Nat, refusals : Nat, concurrent : Nat]
LeaseType  == [at : Nat, gen : Nat, valid : BOOLEAN, override : BOOLEAN, strays : Nat]
Outcomes   == {"none", "granted", "cycled", "restart_limit", "spawn_failed", "stop_failed",
               "exited", "protocol", "cancelled", "timeout", "rss_hard_limit", "ok",
               "error", "degraded", "session_missing", "refused", "open_failed",
               "rss_budget", "queue_timeout", "max_workers"}

\* Every variable keeps its type.
TypeOK ==
  /\ entries \in Seq(EntryType)
  /\ counts \in CountsType
  /\ inProgress \in Nat /\ seen \subseteq Keys
  /\ lease \in LeaseType
  /\ pc \in {"ready", "admit", "assign", "policy", "open", "first", "reopen", "second"}
  /\ target \in Keys \cup {NoKey} /\ at \in Nat
  /\ ran \in Nat /\ result \in Outcomes /\ calls \in Nat

\* The pool holds at most max_workers entries and never two of one key, the
\* one being opened counted in.
CapacityRespected ==
  /\ Len(entries) + inProgress <= MaxWorkers
  /\ \A i, j \in 1..Len(entries) : entries[i].key = entries[j].key => i = j

\* Admission grants one slot and release, drop or neither path of a failed
\* call ever disturbs it: an entry is active exactly while a lease is out.
LeaseAccounting ==
  \A i \in 1..Len(entries) :
    entries[i].leases = IF lease # NoLease /\ lease.at = i THEN 1 ELSE 0

\* Between two calls every cold open attempt was admitted or refused, every
\* miss was an attempt with a reason, every entry was an admission, and no
\* open is left in progress by an error return.
AdmissionAccounting ==
  pc = "ready" =>
    /\ counts.attempts = counts.admitted + counts.refusals
    /\ counts.attempts = counts.misses
    /\ counts.misses = counts.empty_pool + counts.no_matching_key
    /\ Len(entries) <= counts.admitted
    /\ inProgress = 0 /\ counts.concurrent = 0

\* Every admission is bounded and accounted for.
AdmissionsBounded == CapacityRespected /\ AdmissionAccounting

\* A worker is opened only when the readings taken for it were incomplete or
\* below the budget.
ColdOpensWithinBudget ==
  [][Len(entries') > Len(entries) => rssBefore = Unknown \/ ~(rssBefore >= Budget)]_vars

\* A timeout set on a lease is in force only inside that lease's commands: it
\* does not reach the next lease on the worker, however the command ended and
\* however often the worker was replaced meanwhile.
TimeoutRestored ==
  pc \in {"ready", "admit", "assign", "policy", "open"} =>
    \A i \in 1..Len(entries) : entries[i].worker.timeout = "base"

\* A lease leaves nothing behind on the worker it was granted.
LeasesEndClean == LeaseAccounting /\ TimeoutRestored

\* One command of the caller is run by a child at most once, the retry after
\* a missing session included.
NoCommandRunsTwice == ran <= 1

\* The generation is compared once, before the request, and the request's own
\* policy may replace the child behind that check.  A lease begins a command
\* only on the generation it was granted; at most one command of it runs on a
\* replacement, one that was begun before; and after that it begins no other,
\* however the stray one ended, by success too.
LeaseFenced ==
  /\ pc = "first" => lease.valid /\ Leased.gen = lease.gen
  /\ lease.strays = 1 => pc = "ready"
  /\ lease.strays <= 1

\* A command runs once; a lease is fenced from its second command after a
\* replacement on, and from its first when the pool replaced the worker.
CommandsAreFenced == NoCommandRunsTwice /\ LeaseFenced

\* What the pool promises and does not keep: a lease is tied to the worker
\* generation admitted for it, and a cycle for memory invalidates it before a
\* command is executed (docs/architecture/20-worker-pool.md:39, 58).
CommandsStayPut == lease.strays = 0
=============================================================================
