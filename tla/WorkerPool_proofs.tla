------------------------- MODULE WorkerPool_proofs --------------------------
(***************************************************************************)
(* TLAPS proofs about WorkerPool, for every set of keys, every limit and   *)
(* every reading a child may give.                                         *)
(***************************************************************************)
EXTENDS WorkerPool, TLAPS

InCommand == pc \in {"first", "reopen", "second"}
Admitting == pc \in {"admit", "open", "assign", "policy"}

\* Where the caller can be: the indices in use name entries, no lease is out
\* while one is being acquired, and a key being opened has no entry yet.
Places ==
  /\ Admitting => lease = NoLease /\ target \in Keys
  /\ InCommand => lease # NoLease
  /\ lease # NoLease => lease.at \in 1..Len(entries)
  /\ pc \in {"assign", "policy"} => at \in 1..Len(entries)
  /\ pc = "open" => Positions = {} /\ (rssBefore = Unknown \/ ~(rssBefore >= Budget))

\* The admission counters at every place of a call.
Counters ==
  /\ inProgress = IF pc = "open" THEN 1 ELSE 0
  /\ counts.attempts = counts.admitted + counts.refusals
  /\ counts.attempts = counts.misses
  /\ counts.misses = counts.empty_pool + counts.no_matching_key
  /\ Len(entries) + inProgress <= counts.admitted
  /\ counts.concurrent = 0

\* A worker has another timeout only while a command of an overriding lease
\* is inside it.
Timeouts ==
  \A i \in 1..Len(entries) :
    \/ entries[i].worker.timeout = "base"
    \/ InCommand /\ lease.override /\ lease.at = i

\* Until a child has run the command, nothing has.
Runs == (InCommand => ran = 0) /\ NoCommandRunsTwice

\* While a lease is out its worker's generation only grows; a command that
\* strayed was the last, and left the worker on a later generation.
Fenced ==
  /\ pc = "first" => lease.valid /\ Leased.gen = lease.gen
  /\ lease # NoLease => lease.gen <= Leased.gen
  /\ \/ lease.strays = 0
     \/ lease # NoLease /\ pc = "ready" /\ lease.strays = 1 /\ lease.gen < Leased.gen

\* The inductive invariant.
PoolInv ==
  /\ TypeOK
  /\ Places
  /\ CapacityRespected
  /\ LeaseAccounting
  /\ Counters
  /\ Timeouts
  /\ Runs
  /\ Fenced

-----------------------------------------------------------------------------
(* The outcomes of the supervisor's calls.                                 *)

\* What a worker may become: its timeout stays, its generation never goes back.
Follows(v, w) == v \in WorkerType /\ v.timeout = w.timeout /\ w.gen <= v.gen

\* Losing a child and replacing it, opening and losing a session.
LEMMA WorkerSteps ==
  ASSUME NEW w \in WorkerType
  PROVE  /\ w.gen \in Nat /\ Follows(w, w)
         /\ \A p \in {"dead", "stuck", "mute"} : Follows(Lost(w, p), w)
         /\ Follows(Replaced(w), w)
         /\ Follows([Lost(w, "dead") EXCEPT !.gen = @ + 1], w)
         /\ \A b \in BOOLEAN : Follows([w EXCEPT !.session = b], w)
<1>0. w.gen \in Nat
  BY DEF WorkerType
<1>1. ASSUME NEW p \in {"dead", "stuck", "mute"}
      PROVE  Follows(Lost(w, p), w)
  <2>1. /\ Lost(w, p) \in WorkerType /\ Lost(w, p).timeout = w.timeout
        /\ Lost(w, p).gen = w.gen
    BY DEF WorkerType, Lost
  <2> QED
    BY <1>0, <2>1 DEF Follows
<1>2. Follows(Replaced(w), w)
  <2>1. \A n \in Nat : LET v == [w EXCEPT !.gen = n, !.proc = "running", !.session = FALSE] IN
                      v \in WorkerType /\ v.timeout = w.timeout /\ v.gen = n
    BY DEF WorkerType
  <2>2. w.gen + 1 \in Nat /\ w.gen <= w.gen + 1
    BY <1>0
  <2> QED
    BY <2>1, <2>2 DEF Replaced, Follows
<1>3. Follows([Lost(w, "dead") EXCEPT !.gen = @ + 1], w)
  <2> DEFINE v == Lost(w, "dead")
             l == [v EXCEPT !.gen = @ + 1]
  <2>1. v \in WorkerType /\ v.timeout = w.timeout /\ w.gen <= v.gen
    BY <1>1 DEF Follows
  <2> HIDE DEF v
  <2>2. v.gen \in Nat /\ v.gen + 1 \in Nat /\ w.gen <= v.gen + 1
    BY <1>0, <2>1 DEF WorkerType
  <2>3. l \in WorkerType /\ l.timeout = v.timeout /\ l.gen = v.gen + 1
    BY <2>1, <2>2 DEF WorkerType
  <2>4. Follows(l, w)
    BY <2>1, <2>2, <2>3 DEF Follows
  <2> QED
    BY <2>4 DEF v
<1>4. ASSUME NEW b \in BOOLEAN
      PROVE  Follows([w EXCEPT !.session = b], w)
  <2>1. /\ [w EXCEPT !.session = b] \in WorkerType
        /\ [w EXCEPT !.session = b].timeout = w.timeout
        /\ [w EXCEPT !.session = b].gen = w.gen
    BY DEF WorkerType
  <2> QED
    BY <1>0, <2>1 DEF Follows
<1>5. Follows(w, w)
  BY <1>0 DEF Follows
<1> QED
  BY <1>0, <1>1, <1>2, <1>3, <1>4, <1>5

LEMMA FollowsOn ==
  ASSUME NEW u \in WorkerType, NEW v, NEW w, Follows(v, u), Follows(w, v)
  PROVE  Follows(w, u)
<1>1. u.gen \in Nat /\ v.gen \in Nat /\ w.gen \in Nat
  BY WorkerSteps DEF Follows
<1> QED
  BY <1>1 DEF Follows

\* A restart keeps the type and the timeout, runs no command and ends in the
\* given result or in one of its four failures.
LEMMA Restarts ==
  ASSUME NEW w \in WorkerType, NEW r, NEW o \in RestartOutcomes(w, r)
  PROVE  /\ Follows(o.worker, w)
         /\ o.result \in {r, "restart_limit", "spawn_failed", "stop_failed", "exited"}
         /\ o = Out(o.worker, o.result) /\ o.ran = 0
<1> DEFINE l == [Lost(w, "dead") EXCEPT !.gen = @ + 1]
<1>1. o \in {Out(Replaced(w), r), Out(Lost(w, "dead"), "restart_limit"),
             Out(l, "spawn_failed"), Out(Lost(w, "stuck"), "stop_failed"),
             Out(Lost(w, "stuck"), "exited"), Out(w, "stop_failed"), Out(w, "exited")}
  <2> DEFINE ended == {Out(Replaced(w), r), Out(Lost(w, "dead"), "restart_limit"),
                       Out(l, "spawn_failed")}
  <2>1. w.proc \in {"running", "dead", "stuck", "mute"}
    BY DEF WorkerType
  <2>2. o \in ended \cup {Out(Lost(w, "stuck"), "stop_failed"), Out(Lost(w, "stuck"), "exited"),
                          Out(w, "stop_failed"), Out(w, "exited")}
    <3>1. CASE w.proc = "dead"
      BY <3>1 DEF RestartOutcomes
    <3>2. CASE w.proc = "running"
      BY <3>2 DEF RestartOutcomes
    <3>3. CASE w.proc = "mute"
      BY <3>3 DEF RestartOutcomes
    <3>4. CASE w.proc = "stuck"
      BY <3>4 DEF RestartOutcomes
    <3> QED
      BY <2>1, <3>1, <3>2, <3>3, <3>4
  <2> QED
    BY <2>2
<1>2. /\ \A v, x : Out(v, x).worker = v /\ Out(v, x).result = x /\ Out(v, x).ran = 0
      /\ \E v, x : o = Out(v, x)
  BY <1>1 DEF Out
<1>3. \A v \in {Replaced(w), Lost(w, "dead"), Lost(w, "stuck"), l, w} :
        Follows(v, w)
  BY WorkerSteps
<1> HIDE DEF l
<1>4. o = Out(o.worker, o.result)
  BY <1>2
<1> QED
  BY <1>1, <1>2, <1>3, <1>4

\* A request that goes wrong in the child never looks like a missing session.
LEMMA RequestFailures ==
  ASSUME NEW w \in WorkerType, NEW o \in Failures(w)
  PROVE  /\ Follows(o.worker, w)
         /\ o.result \in Outcomes \ {"none", "session_missing"}
         /\ o = Out(o.worker, o.result) /\ o.ran = 0
<1>1. CASE o \in {Out(Lost(w, "dead"), "exited"), Out(Lost(w, "mute"), "protocol")}
  <2>1. \A v, x : Out(v, x).worker = v /\ Out(v, x).result = x /\ Out(v, x).ran = 0
    BY DEF Out
  <2>2. {"exited", "protocol"} \subseteq Outcomes \ {"none", "session_missing"}
    BY DEF Outcomes
  <2>3. PICK v, x : /\ v \in {Lost(w, "dead"), Lost(w, "mute")}
                    /\ x \in {"exited", "protocol"} /\ o = Out(v, x)
    BY <1>1
  <2>4. Follows(v, w)
    BY <2>3, WorkerSteps
  <2> QED
    BY <2>1, <2>2, <2>3, <2>4
<1>2. CASE \E r \in {"cancelled", "timeout", "rss_hard_limit"} : o \in RestartOutcomes(w, r)
  <2>1. PICK r \in {"cancelled", "timeout", "rss_hard_limit"} : o \in RestartOutcomes(w, r)
    BY <1>2
  <2>2. /\ Follows(o.worker, w) /\ o = Out(o.worker, o.result) /\ o.ran = 0
        /\ o.result \in {r, "restart_limit", "spawn_failed", "stop_failed", "exited"}
    BY <2>1, Restarts
  <2> QED
    BY <2>2 DEF Outcomes
<1> QED
  BY <1>1, <1>2 DEF Failures

\* A child that answers session_missing has not run the command; one that ran
\* it did so on its own generation.
LEMMA Commands ==
  ASSUME NEW w \in WorkerType, NEW o \in CommandAnswers(w)
  PROVE  /\ Follows(o.worker, w)
         /\ o.result \in Outcomes /\ o.ran \in {0, 1}
         /\ o.result = "session_missing" => o.ran = 0
         /\ o.ran = 1 => o.on = w.gen
<1>1. CASE ~w.session
  <2>1. CASE o = Out(w, "session_missing")
    BY <2>1, WorkerSteps DEF Out, Outcomes
  <2>2. CASE o \in Failures(w)
    BY <2>2, RequestFailures
  <2> QED
    BY <1>1, <2>1, <2>2 DEF CommandAnswers
<1>2. CASE w.session
  <2>1. PICK a \in {Out(w, "ok"), Out(w, "error")} \cup Failures(w)
                      \cup RestartOutcomes(w, "degraded") : o = [a EXCEPT !.ran = 1, !.on = w.gen]
    BY <1>2 DEF CommandAnswers
  <2>2. /\ Follows(a.worker, w)
        /\ a.result \in Outcomes \ {"none", "session_missing"}
    <3>1. CASE a \in {Out(w, "ok"), Out(w, "error")}
      <4>1. a.worker = w /\ a.result \in {"ok", "error"}
        BY <3>1 DEF Out
      <4> QED
        BY <4>1, WorkerSteps DEF Outcomes
    <3>2. CASE a \in Failures(w)
      BY <3>2, RequestFailures
    <3>3. CASE a \in RestartOutcomes(w, "degraded")
      <4>1. /\ Follows(a.worker, w)
            /\ a.result \in {"degraded", "restart_limit", "spawn_failed", "stop_failed", "exited"}
        BY <3>3, Restarts
      <4> QED
        BY <4>1 DEF Outcomes
    <3> QED
      BY <2>1, <3>1, <3>2, <3>3
  <2>3. /\ o.worker = a.worker /\ o.result = a.result /\ o.ran = 1 /\ o.on = w.gen
    <3>1. \E v, x : a = Out(v, x)
      BY <2>1, RequestFailures, Restarts
    <3> QED
      BY <2>1, <3>1 DEF Out
  <2> QED
    BY <2>2, <2>3
<1> QED
  BY <1>1, <1>2

\* Neither does an open.
LEMMA Opens ==
  ASSUME NEW w \in WorkerType, NEW o \in OpenAnswers(w)
  PROVE  /\ Follows(o.worker, w)
         /\ o.result \in Outcomes /\ o.ran = 0
<1>1. CASE o \in Failures(w)
  BY <1>1, RequestFailures
<1>2. CASE o \in {Out([w EXCEPT !.session = TRUE], "ok"), Out([w EXCEPT !.session = FALSE], "error")}
  <2>1. \A b \in BOOLEAN : Follows([w EXCEPT !.session = b], w)
    BY WorkerSteps
  <2>2. PICK b \in BOOLEAN, x \in {"ok", "error"} : o = Out([w EXCEPT !.session = b], x)
    BY <1>2
  <2>3. o.worker = [w EXCEPT !.session = b] /\ o.result = x /\ o.ran = 0
    BY <2>2 DEF Out
  <2> QED
    BY <2>1, <2>3 DEF Outcomes
<1> QED
  BY <1>1, <1>2 DEF OpenAnswers

\* What holds of every answer holds of the requests behind the supervisor's
\* own checks and its policy restart.
LEMMA CommandRequests ==
  ASSUME NEW w \in WorkerType, NEW o \in Request(w, "command")
  PROVE  /\ Follows(o.worker, w)
         /\ o.result \in Outcomes /\ o.ran \in {0, 1}
         /\ o.result = "session_missing" => o.ran = 0
         /\ o.ran = 1 => o.on \in Nat /\ w.gen <= o.on /\ o.on <= o.worker.gen
<1>0. w.gen \in Nat /\ Follows(w, w)
  BY WorkerSteps
<1>1. CASE o \in {Out(w, "cancelled"), Out(w, "exited"), Out(w, "refused")}
  <2>1. o.worker = w /\ o.result \in {"cancelled", "exited", "refused"} /\ o.ran = 0
    BY <1>1 DEF Out
  <2> QED
    BY <1>0, <2>1 DEF Outcomes
<1>2. CASE o \in CommandAnswers(w)
  <2>1. Follows(o.worker, w) /\ (o.ran = 1 => o.on = w.gen)
    BY <1>2, Commands
  <2>2. o.ran = 1 => o.on \in Nat /\ w.gen <= o.on /\ o.on <= o.worker.gen
    BY <1>0, <2>1 DEF Follows
  <2> QED
    BY <1>2, <2>2, Commands
<1>3. CASE \E q \in RestartOutcomes(w, "restarted") :
             o \in IF q.result = "restarted" THEN CommandAnswers(q.worker) ELSE {q}
  <2>1. PICK q \in RestartOutcomes(w, "restarted") :
               o \in IF q.result = "restarted" THEN CommandAnswers(q.worker) ELSE {q}
    BY <1>3
  <2>2. /\ Follows(q.worker, w) /\ q.ran = 0
        /\ q.result \in {"restarted", "restart_limit", "spawn_failed", "stop_failed", "exited"}
    BY <2>1, Restarts
  <2>3. CASE q.result = "restarted"
    <3>1. o \in CommandAnswers(q.worker)
      BY <2>1, <2>3
    <3>2. /\ Follows(o.worker, q.worker)
          /\ o.result \in Outcomes /\ o.ran \in {0, 1}
          /\ o.result = "session_missing" => o.ran = 0
          /\ o.ran = 1 => o.on = q.worker.gen
      BY <3>1, <2>2, Commands DEF Follows
    <3>3. Follows(o.worker, w)
      BY <2>2, <3>2, FollowsOn
    <3>4. o.ran = 1 => o.on \in Nat /\ w.gen <= o.on /\ o.on <= o.worker.gen
      BY <2>2, <3>2, WorkerSteps DEF Follows
    <3> QED
      BY <3>2, <3>3, <3>4
  <2>4. CASE q.result # "restarted"
    BY <2>1, <2>2, <2>4 DEF Outcomes
  <2> QED
    BY <2>3, <2>4
<1>4. w.proc \in {"running", "dead", "stuck", "mute"}
  BY DEF WorkerType
<1> QED
  BY <1>1, <1>2, <1>3, <1>4 DEF Request, Answers

LEMMA OpenRequests ==
  ASSUME NEW w \in WorkerType, NEW o \in Request(w, "open")
  PROVE  /\ Follows(o.worker, w)
         /\ o.result \in Outcomes /\ o.ran = 0
<1>0. w.gen \in Nat /\ Follows(w, w)
  BY WorkerSteps
<1>1. CASE o \in {Out(w, "cancelled"), Out(w, "exited"), Out(w, "refused")}
  <2>1. o.worker = w /\ o.result \in {"cancelled", "exited", "refused"} /\ o.ran = 0
    BY <1>1 DEF Out
  <2> QED
    BY <1>0, <2>1 DEF Outcomes
<1>2. CASE o \in OpenAnswers(w)
  BY <1>2, Opens
<1>3. CASE \E q \in RestartOutcomes(w, "restarted") :
             o \in IF q.result = "restarted" THEN OpenAnswers(q.worker) ELSE {q}
  <2>1. PICK q \in RestartOutcomes(w, "restarted") :
               o \in IF q.result = "restarted" THEN OpenAnswers(q.worker) ELSE {q}
    BY <1>3
  <2>2. /\ Follows(q.worker, w) /\ q.ran = 0
        /\ q.result \in {"restarted", "restart_limit", "spawn_failed", "stop_failed", "exited"}
    BY <2>1, Restarts
  <2>3. CASE q.result = "restarted"
    <3>1. o \in OpenAnswers(q.worker)
      BY <2>1, <2>3
    <3>2. /\ Follows(o.worker, q.worker)
          /\ o.result \in Outcomes /\ o.ran = 0
      BY <3>1, <2>2, Opens DEF Follows
    <3>3. Follows(o.worker, w)
      BY <2>2, <3>2, FollowsOn
    <3> QED
      BY <3>2, <3>3
  <2>4. CASE q.result # "restarted"
    BY <2>1, <2>2, <2>4 DEF Outcomes
  <2> QED
    BY <2>3, <2>4
<1>4. w.proc \in {"running", "dead", "stuck", "mute"}
  BY DEF WorkerType
<1> QED
  BY <1>1, <1>2, <1>3, <1>4 DEF Request, Answers

\* The pool's policy changes neither the key nor the leases of an entry, and
\* when it keeps the worker the worker is the same.
LEMMA Policies ==
  ASSUME NEW e \in EntryType, NEW o \in EnforcePolicy(e)
  PROVE  /\ o.entry \in EntryType
         /\ o.entry.key = e.key /\ o.entry.leases = e.leases
         /\ Follows(o.entry.worker, e.worker)
         /\ o.result \in {"kept", "cycled", "restart_limit", "spawn_failed", "stop_failed", "exited"}
         /\ o.result = "kept" => o.entry.worker = e.worker
<1>1. PICK r \in Readings :
        LET s == SampledEntry(e, r) IN
        o \in CycleForPolicy(s) \cup {[entry |-> s, result |-> "kept"]}
  BY DEF EnforcePolicy
<1> DEFINE s == SampledEntry(e, r)
<1>2. /\ s \in EntryType /\ s.key = e.key /\ s.leases = e.leases
      /\ s.worker = e.worker /\ s.worker \in WorkerType
  BY DEF SampledEntry, EntryType
<1> HIDE DEF s
<1>3. CASE o = [entry |-> s, result |-> "kept"]
  BY <1>2, <1>3, WorkerSteps
<1>4. CASE o \in CycleForPolicy(s)
  <2>1. PICK q \in RestartOutcomes(s.worker, "cycled") :
          o = [entry  |-> [s EXCEPT !.worker = q.worker,
                                    !.rss = IF q.result = "cycled" THEN Unknown ELSE @],
               result |-> q.result]
    BY <1>4 DEF CycleForPolicy
  <2>2. /\ Follows(q.worker, s.worker)
        /\ q.result \in {"cycled", "restart_limit", "spawn_failed", "stop_failed", "exited"}
    BY <1>2, Restarts
  <2>3. /\ o.result = q.result
        /\ o.entry = [s EXCEPT !.worker = q.worker,
                               !.rss = IF q.result = "cycled" THEN Unknown ELSE @]
    BY <2>1
  <2>4. /\ o.entry \in EntryType /\ o.entry.key = s.key /\ o.entry.leases = s.leases
        /\ o.entry.worker = q.worker
    BY <1>2, <2>2, <2>3 DEF EntryType, Readings, Follows
  <2> QED
    BY <1>2, <2>2, <2>3, <2>4
<1> QED
  BY <1>1, <1>3, <1>4 DEF s

-----------------------------------------------------------------------------
(* The entries under a step.                                               *)

\* A step that keeps the number, the keys and the leases of the entries.
SameSlots ==
  /\ entries' \in Seq(EntryType)
  /\ Len(entries') = Len(entries)
  /\ \A j \in 1..Len(entries) : /\ entries'[j].key = entries[j].key
                                /\ entries'[j].leases = entries[j].leases

LEMMA WorkerAt ==
  ASSUME entries \in Seq(EntryType), NEW i \in 1..Len(entries)
  PROVE  entries[i].worker \in WorkerType
<1>1. entries[i] \in EntryType
  OBVIOUS
<1> QED
  BY <1>1 DEF EntryType

LEMMA CapacityKept ==
  ASSUME CapacityRespected, SameSlots, inProgress' = inProgress
  PROVE  CapacityRespected'
BY DEF CapacityRespected, SameSlots

LEMMA LeasesKept ==
  ASSUME LeaseAccounting, SameSlots, lease'.at = lease.at,
         (lease' = NoLease) <=> (lease = NoLease)
  PROVE  LeaseAccounting'
BY DEF LeaseAccounting, SameSlots

LEMMA CountersKept ==
  ASSUME Counters, SameSlots, counts' = counts, inProgress' = inProgress,
         (pc' = "open") <=> (pc = "open")
  PROVE  Counters'
BY DEF Counters, SameSlots

\* Replacing an entry, or the worker of an entry.
LEMMA ReplaceEntry ==
  ASSUME entries \in Seq(EntryType), NEW i \in 1..Len(entries), NEW e \in EntryType,
         e.key = entries[i].key, e.leases = entries[i].leases,
         entries' = [entries EXCEPT ![i] = e]
  PROVE  /\ SameSlots
         /\ entries'[i] = e
         /\ \A j \in 1..Len(entries) : j # i => entries'[j] = entries[j]
BY DEF SameSlots

LEMMA ReplaceWorker ==
  ASSUME entries \in Seq(EntryType), NEW i \in 1..Len(entries), NEW w \in WorkerType,
         entries' = [entries EXCEPT ![i].worker = w]
  PROVE  /\ SameSlots
         /\ entries'[i].worker = w
         /\ \A j \in 1..Len(entries) : j # i => entries'[j] = entries[j]
<1>1. entries[i] \in EntryType
  OBVIOUS
<1> DEFINE e == [entries[i] EXCEPT !.worker = w]
<1>2. /\ e \in EntryType /\ e.worker = w
      /\ e.key = entries[i].key /\ e.leases = entries[i].leases
  BY <1>1 DEF EntryType
<1>3. entries' = [entries EXCEPT ![i] = e]
  OBVIOUS
<1> HIDE DEF e
<1> QED
  BY <1>2, <1>3, ReplaceEntry

\* The lease of a step that only marks it.
LEMMA LeaseMarked ==
  ASSUME TypeOK, Places, lease # NoLease, NEW v \in BOOLEAN,
         lease' = [lease EXCEPT !.valid = v]
  PROVE  /\ lease' \in LeaseType
         /\ lease' # NoLease /\ lease'.at = lease.at /\ lease'.gen = lease.gen
         /\ lease'.override = lease.override /\ lease'.valid = v
         /\ lease'.strays = lease.strays
<1>1. lease \in LeaseType
  BY DEF TypeOK
<1>2. lease.at # 0
  <2>1. lease.at \in 1..Len(entries)
    BY DEF Places
  <2> QED
    BY <2>1
<1>3. /\ lease' \in LeaseType
      /\ lease'.at = lease.at /\ lease'.gen = lease.gen
      /\ lease'.override = lease.override /\ lease'.valid = v
      /\ lease'.strays = lease.strays
  BY <1>1 DEF LeaseType
<1>4. NoLease.at = 0
  BY DEF NoLease
<1> QED
  BY <1>2, <1>3, <1>4

\* No lease is out, and none was granted; or it is out as before, beside a
\* worker whose generation has not gone back.
LEMMA FencedWithoutLease ==
  ASSUME lease' = NoLease, pc' # "first"
  PROVE  Fenced'
BY DEF Fenced, NoLease

LEMMA FencedKept ==
  ASSUME TypeOK, Fenced, lease # NoLease, lease' # NoLease, Leased.gen \in Nat, Leased'.gen \in Nat,
         Leased.gen <= Leased'.gen, lease'.gen = lease.gen, lease'.strays = lease.strays,
         pc' = "first" => lease'.valid /\ Leased'.gen = lease.gen,
         pc = "ready" => pc' = "ready" \/ lease.strays = 0
  PROVE  Fenced'
<1>1. lease.gen \in Nat
  BY DEF TypeOK, LeaseType
<1> QED
  BY <1>1 DEF Fenced

-----------------------------------------------------------------------------
(* Acquisition preserves the invariant.                                    *)

LEMMA AcquireStep ==
  ASSUME PoolInv, NEW k \in Keys, Acquire(k)
  PROVE  PoolInv'
<1> USE DEF PoolInv, Acquire
<1>1. TypeOK'
  BY DEF TypeOK, Outcomes
<1>2. Places'
  BY DEF Places, Admitting, InCommand, NoLease, Positions
<1>3. CapacityRespected' /\ LeaseAccounting'
  BY DEF CapacityRespected, LeaseAccounting
<1>4. Counters'
  BY DEF Counters
<1>5. Timeouts' /\ Runs'
  BY DEF Timeouts, Runs, InCommand, NoCommandRunsTwice
<1>6. Fenced'
  BY FencedWithoutLease
<1> QED
  BY <1>1, <1>2, <1>3, <1>4, <1>5, <1>6

LEMMA AdmitHitStep ==
  ASSUME PoolInv, AdmitHit
  PROVE  PoolInv'
<1> USE DEF PoolInv, AdmitHit
<1>0. PICK i \in Positions : at' = i
  OBVIOUS
<1>1. TypeOK'
  <2>1. at' \in Nat
    BY <1>0 DEF Positions
  <2>2. counts' \in CountsType
    <3>1. counts \in CountsType /\ counts' = [counts EXCEPT !.hits = @ + 1]
      BY DEF TypeOK
    <3> QED
      BY <3>1 DEF CountsType
  <2> QED
    BY <2>1, <2>2 DEF TypeOK, histVars
<1>2. Places'
  BY <1>0 DEF Places, Admitting, InCommand, Positions
<1>3. CapacityRespected' /\ LeaseAccounting'
  BY DEF CapacityRespected, LeaseAccounting
<1>4. Counters'
  <2>1. counts \in CountsType /\ counts' = [counts EXCEPT !.hits = @ + 1]
    BY DEF TypeOK
  <2>2. /\ counts'.attempts = counts.attempts /\ counts'.admitted = counts.admitted
        /\ counts'.refusals = counts.refusals /\ counts'.misses = counts.misses
        /\ counts'.empty_pool = counts.empty_pool
        /\ counts'.no_matching_key = counts.no_matching_key
        /\ counts'.concurrent = counts.concurrent
    BY <2>1 DEF CountsType
  <2> QED
    BY <2>2 DEF Counters
<1>5. Timeouts' /\ Runs'
  BY DEF Timeouts, Runs, InCommand, NoCommandRunsTwice, histVars
<1>6. Fenced'
  BY FencedWithoutLease DEF Places, Admitting
<1> QED
  BY <1>1, <1>2, <1>3, <1>4, <1>5, <1>6

\* Sampling changes nothing but the readings.
LEMMA SampledSlots ==
  ASSUME entries \in Seq(EntryType), NEW rss \in [1..Len(entries) -> Readings],
         entries' = Sampled(rss)
  PROVE  /\ SameSlots
         /\ \A j \in 1..Len(entries) : entries'[j].worker = entries[j].worker
<1>1. ASSUME NEW j \in 1..Len(entries)
      PROVE  /\ Sampled(rss)[j] \in EntryType
             /\ Sampled(rss)[j].key = entries[j].key
             /\ Sampled(rss)[j].leases = entries[j].leases
             /\ Sampled(rss)[j].worker = entries[j].worker
  <2>1. entries[j] \in EntryType /\ rss[j] \in Readings
    OBVIOUS
  <2>2. Sampled(rss)[j] = [entries[j] EXCEPT !.rss = IF rss[j] = Unknown THEN @ ELSE rss[j]]
    BY DEF Sampled
  <2> QED
    BY <2>1, <2>2 DEF EntryType
<1>2. Sampled(rss) \in Seq(EntryType) /\ Len(Sampled(rss)) = Len(entries)
  BY <1>1 DEF Sampled
<1> QED
  BY <1>1, <1>2 DEF SameSlots

LEMMA CountFields ==
  ASSUME NEW c \in CountsType
  PROVE  /\ c.empty_pool \in Nat /\ c.no_matching_key \in Nat
         /\ c.admitted \in Nat /\ c.refusals \in Nat /\ c.misses \in Nat
         /\ c.attempts \in Nat /\ c.concurrent \in Nat
BY DEF CountsType

\* One miss, and with it one attempt that is admitted or refused.
LEMMA MissCounted ==
  ASSUME counts \in CountsType, inProgress = 0, NEW admit \in BOOLEAN, CountMiss(admit)
  PROVE  /\ counts' \in CountsType
         /\ counts'.attempts = counts.attempts + 1 /\ counts'.misses = counts.misses + 1
         /\ counts'.empty_pool + counts'.no_matching_key
              = counts.empty_pool + counts.no_matching_key + 1
         /\ counts'.admitted = counts.admitted + (IF admit THEN 1 ELSE 0)
         /\ counts'.refusals = counts.refusals + (IF admit THEN 0 ELSE 1)
         /\ counts'.concurrent = counts.concurrent
<1> DEFINE e == IF entries = <<>> THEN counts.empty_pool + 1 ELSE counts.empty_pool
           n == IF entries = <<>> THEN counts.no_matching_key ELSE counts.no_matching_key + 1
           a == IF admit THEN counts.admitted + 1 ELSE counts.admitted
           r == IF admit THEN counts.refusals ELSE counts.refusals + 1
           m == counts.misses + 1
           t == counts.attempts + 1
           c == counts.concurrent
<1>1. counts' = [counts EXCEPT !.misses = m, !.empty_pool = e, !.no_matching_key = n,
                   !.attempts = t, !.concurrent = c, !.admitted = a, !.refusals = r]
  BY DEF CountMiss
<1>2. /\ e \in Nat /\ n \in Nat /\ e + n = counts.empty_pool + counts.no_matching_key + 1
      /\ a \in Nat /\ a = counts.admitted + (IF admit THEN 1 ELSE 0)
      /\ r \in Nat /\ r = counts.refusals + (IF admit THEN 0 ELSE 1)
      /\ m \in Nat /\ t \in Nat /\ c \in Nat
  <2>1. /\ counts.empty_pool \in Nat /\ counts.no_matching_key \in Nat
        /\ counts.admitted \in Nat /\ counts.refusals \in Nat /\ counts.misses \in Nat
        /\ counts.attempts \in Nat /\ counts.concurrent \in Nat
    BY CountFields
  <2>2. e \in Nat /\ n \in Nat /\ e + n = counts.empty_pool + counts.no_matching_key + 1
    <3>1. \/ e = counts.empty_pool + 1 /\ n = counts.no_matching_key
          \/ e = counts.empty_pool /\ n = counts.no_matching_key + 1
      BY Zenon
    <3> HIDE DEF e, n
    <3> QED
      BY <2>1, <3>1
  <2>3. a \in Nat /\ a = counts.admitted + (IF admit THEN 1 ELSE 0)
    BY <2>1
  <2>4. r \in Nat /\ r = counts.refusals + (IF admit THEN 0 ELSE 1)
    BY <2>1
  <2>5. m \in Nat /\ t \in Nat /\ c \in Nat
    BY <2>1
  <2> QED
    BY <2>2, <2>3, <2>4, <2>5
<1> HIDE DEF e, n, a, r, m, t, c
<1>3. /\ counts' \in CountsType /\ counts'.misses = m /\ counts'.empty_pool = e
      /\ counts'.no_matching_key = n /\ counts'.attempts = t /\ counts'.concurrent = c
      /\ counts'.admitted = a /\ counts'.refusals = r
  BY <1>1, <1>2 DEF CountsType
<1> QED
  BY <1>2, <1>3 DEF m, t, c

LEMMA AdmitMissStep ==
  ASSUME PoolInv, AdmitMiss
  PROVE  PoolInv'
<1>1. PICK rss \in [1..Len(entries) -> Readings] :
        LET total == KnownTotal(rss) IN
        /\ entries' = Sampled(rss)
        /\ rssBefore' = total
        /\ IF Full \/ OverBudget(total)
           THEN /\ CountMiss(FALSE)
                /\ Return(IF ~Full THEN "rss_budget"
                          ELSE IF QueueWait THEN "queue_timeout" ELSE "max_workers")
                /\ UNCHANGED <<inProgress, ran>>
           ELSE /\ CountMiss(TRUE)
                /\ inProgress' = inProgress + 1
                /\ pc' = "open"
                /\ UNCHANGED <<target, at, histVars>>
  BY DEF AdmitMiss
<1>2. /\ pc = "admit" /\ Positions = {} /\ UNCHANGED <<seen, lease, calls>>
      /\ lease = NoLease /\ target \in Keys /\ inProgress = 0
  BY DEF AdmitMiss, PoolInv, Places, Admitting, Counters
<1>3. SameSlots /\ \A j \in 1..Len(entries) : entries'[j].worker = entries[j].worker
  BY <1>1, SampledSlots DEF PoolInv, TypeOK
<1> DEFINE admit == ~(Full \/ OverBudget(KnownTotal(rss)))
<1>4. /\ IF admit THEN CountMiss(TRUE) ELSE CountMiss(FALSE)
      /\ IF admit
         THEN /\ inProgress' = 1 /\ pc' = "open" /\ Len(entries) < MaxWorkers
              /\ (rssBefore' = Unknown \/ ~(rssBefore' >= Budget))
              /\ UNCHANGED <<target, at, ran, result>>
         ELSE /\ inProgress' = 0 /\ pc' = "ready" /\ at' = 0 /\ target' = NoKey
              /\ ran' = ran
              /\ result' \in {"rss_budget", "queue_timeout", "max_workers"}
  <2>1. CASE admit
    <3>1. Len(entries) < MaxWorkers
      BY <2>1, PoolAssumption DEF Full, PoolInv, TypeOK
    <3>2. rssBefore' = Unknown \/ ~(rssBefore' >= Budget)
      BY <1>1, <2>1 DEF OverBudget
    <3>3. /\ CountMiss(TRUE) /\ inProgress' = inProgress + 1 /\ pc' = "open"
          /\ UNCHANGED <<target, at, ran, result>>
      BY <1>1, <2>1, Zenon DEF histVars
    <3>4. inProgress' = 1
      BY <1>2, <3>3
    <3> HIDE DEF admit
    <3> QED
      BY <2>1, <3>1, <3>2, <3>3, <3>4, Zenon
  <2>2. CASE ~admit
    BY <1>1, <1>2, <2>2 DEF Return
  <2> QED
    BY <2>1, <2>2
<1> HIDE DEF admit
<1>5. /\ counts' \in CountsType
      /\ counts'.attempts = counts.attempts + 1 /\ counts'.misses = counts.misses + 1
      /\ counts'.empty_pool + counts'.no_matching_key
           = counts.empty_pool + counts.no_matching_key + 1
      /\ counts'.admitted = counts.admitted + (IF admit THEN 1 ELSE 0)
      /\ counts'.refusals = counts.refusals + (IF admit THEN 0 ELSE 1)
      /\ counts'.concurrent = counts.concurrent
  <2>1. counts \in CountsType
    BY DEF PoolInv, TypeOK
  <2>2. CASE admit
    BY <1>2, <1>4, <2>1, <2>2, MissCounted
  <2>3. CASE ~admit
    BY <1>2, <1>4, <2>1, <2>3, MissCounted
  <2> QED
    BY <2>2, <2>3
<1>6. TypeOK'
  <2>1. /\ inProgress' \in Nat /\ pc' \in {"ready", "open"}
        /\ target' \in Keys \cup {NoKey} /\ at' \in Nat /\ ran' = ran
        /\ result' \in Outcomes
    BY <1>2, <1>4 DEF PoolInv, TypeOK, Outcomes
  <2> QED
    BY <1>2, <1>3, <1>5, <2>1 DEF PoolInv, TypeOK, SameSlots
<1>7. Places'
  BY <1>2, <1>3, <1>4 DEF PoolInv, Places, Admitting, InCommand, Positions, SameSlots, NoLease
<1>8. CapacityRespected'
  <2>1. Len(entries') + inProgress' <= MaxWorkers
    <3>1. Len(entries') = Len(entries) /\ Len(entries) \in Nat /\ MaxWorkers \in Nat
      BY <1>3, PoolAssumption DEF SameSlots, PoolInv, TypeOK
    <3>2. Len(entries) + 0 <= MaxWorkers
      BY <1>2 DEF PoolInv, CapacityRespected
    <3> QED
      BY <1>4, <3>1, <3>2
  <2> QED
    BY <1>3, <2>1 DEF PoolInv, CapacityRespected, SameSlots
<1>9. LeaseAccounting'
  BY <1>2, <1>3, LeasesKept DEF PoolInv
<1>10. Counters'
  <2>1. /\ counts.attempts \in Nat /\ counts.admitted \in Nat /\ counts.refusals \in Nat
        /\ counts.misses \in Nat /\ counts'.admitted \in Nat /\ counts'.refusals \in Nat
        /\ counts.empty_pool \in Nat /\ counts.no_matching_key \in Nat
        /\ counts'.empty_pool \in Nat /\ counts'.no_matching_key \in Nat
    BY <1>5 DEF PoolInv, TypeOK, CountsType
  <2>2. /\ counts.attempts = counts.admitted + counts.refusals
        /\ counts.attempts = counts.misses
        /\ counts.misses = counts.empty_pool + counts.no_matching_key
        /\ Len(entries) + 0 <= counts.admitted
        /\ counts.concurrent = 0
    BY <1>2 DEF PoolInv, Counters
  <2>3. Len(entries') = Len(entries) /\ Len(entries) \in Nat
    BY <1>3 DEF SameSlots, PoolInv, TypeOK
  <2>4. /\ counts'.attempts = counts'.admitted + counts'.refusals
        /\ counts'.attempts = counts'.misses
        /\ counts'.misses = counts'.empty_pool + counts'.no_matching_key
        /\ counts'.concurrent = 0
    BY <1>5, <2>1, <2>2
  <2>5. /\ Len(entries') + inProgress' <= counts'.admitted
        /\ inProgress' = IF pc' = "open" THEN 1 ELSE 0
    BY <1>4, <1>5, <2>1, <2>2, <2>3
  <2> QED
    BY <2>4, <2>5 DEF Counters
<1>11. Timeouts'
  BY <1>2, <1>3, <1>4 DEF PoolInv, Timeouts, InCommand, SameSlots
<1>12. Runs' /\ Fenced'
  BY <1>2, <1>4, FencedWithoutLease DEF PoolInv, Runs, InCommand, NoCommandRunsTwice
<1> QED
  BY <1>6, <1>7, <1>8, <1>9, <1>10, <1>11, <1>12 DEF PoolInv

\* A grant takes one slot of an entry and changes nothing else in it.
LEMMA Grants ==
  ASSUME NEW es \in Seq(EntryType), NEW i \in 1..Len(es), GrantLease(es, i)
  PROVE  /\ entries' \in Seq(EntryType) /\ Len(entries') = Len(es)
         /\ \A j \in 1..Len(es) :
              /\ entries'[j].key = es[j].key /\ entries'[j].worker = es[j].worker
              /\ entries'[j].leases = es[j].leases + (IF j = i THEN 1 ELSE 0)
         /\ lease' \in LeaseType
         /\ lease' # NoLease /\ lease'.at = i /\ Fenced'
         /\ pc' = "ready" /\ at' = 0 /\ target' = NoKey /\ result' = "granted"
<1>1. /\ entries' = [es EXCEPT ![i].leases = @ + 1]
      /\ lease' = [at |-> i, gen |-> es[i].worker.gen, valid |-> TRUE, override |-> FALSE,
                  strays |-> 0]
      /\ pc' = "ready" /\ at' = 0 /\ target' = NoKey /\ result' = "granted"
  BY DEF GrantLease, Return
<1>2. ASSUME NEW j \in 1..Len(es)
      PROVE  /\ es[j] \in EntryType /\ es[j].leases \in Nat
             /\ es[j].worker.gen \in Nat
  <2>1. es[j] \in EntryType
    OBVIOUS
  <2>2. es[j].leases \in Nat /\ es[j].worker \in WorkerType
    BY <2>1 DEF EntryType
  <2> QED
    BY <2>1, <2>2 DEF WorkerType
<1>3. \A e \in EntryType :
        LET f == [e EXCEPT !.leases = @ + 1] IN
        /\ f \in EntryType /\ f.key = e.key /\ f.worker = e.worker
        /\ f.leases = e.leases + 1
  BY DEF EntryType
<1> DEFINE f == [es[i] EXCEPT !.leases = @ + 1]
<1>4. /\ f \in EntryType /\ f.key = es[i].key /\ f.worker = es[i].worker
      /\ f.leases = es[i].leases + 1
  BY <1>2, <1>3
<1>5. entries' = [es EXCEPT ![i] = f]
  BY <1>1
<1> HIDE DEF f
<1>6. /\ entries' \in Seq(EntryType) /\ Len(entries') = Len(es)
      /\ entries'[i] = f
      /\ \A j \in 1..Len(es) : j # i => entries'[j] = es[j]
  BY <1>4, <1>5
<1>7. /\ lease' \in LeaseType
      /\ lease'.at = i /\ lease'.gen = es[i].worker.gen /\ lease'.strays = 0
  BY <1>1, <1>2 DEF LeaseType
<1>8. lease' # NoLease
  <2>1. NoLease.at = 0
    BY DEF NoLease
  <2> QED
    BY <1>7, <2>1
<1>9. Fenced'
  BY <1>1, <1>2, <1>4, <1>6, <1>7 DEF Fenced, Leased
<1> QED
  BY <1>1, <1>2, <1>4, <1>6, <1>7, <1>8, <1>9

LEMMA NewWorkers ==
  ASSUME NEW open \in BOOLEAN
  PROVE  NewWorker(open) \in WorkerType /\ NewWorker(open).timeout = "base"
BY DEF NewWorker, WorkerType

LEMMA OpenEntryStep ==
  ASSUME PoolInv, OpenEntry
  PROVE  PoolInv'
<1>1. PICK open \in BOOLEAN, r \in Readings :
        GrantLease(Append(entries, [key |-> target, worker |-> NewWorker(open),
                                    leases |-> 0, rss |-> r]), Len(entries) + 1)
  BY DEF OpenEntry
<1> DEFINE e  == [key |-> target, worker |-> NewWorker(open), leases |-> 0, rss |-> r]
           es == Append(entries, e)
<1>2. /\ pc = "open" /\ inProgress = 1 /\ inProgress' = 0 /\ lease = NoLease
      /\ target \in Keys /\ Positions = {}
      /\ UNCHANGED <<counts, seen, rssBefore, ran, calls>>
      /\ entries \in Seq(EntryType)
  BY DEF OpenEntry, PoolInv, Places, Admitting, Counters, TypeOK
<1>3. /\ e \in EntryType /\ e.key = target /\ e.leases = 0 /\ e.worker.timeout = "base"
  BY <1>2, NewWorkers DEF EntryType
<1> HIDE DEF e
<1>4. /\ es \in Seq(EntryType) /\ Len(es) = Len(entries) + 1 /\ es[Len(entries) + 1] = e
      /\ \A j \in 1..Len(entries) : es[j] = entries[j]
      /\ Len(entries) \in Nat /\ Len(entries) + 1 \in 1..Len(es)
  BY <1>2, <1>3
<1>5. GrantLease(es, Len(entries) + 1)
  BY <1>1 DEF e
<1> HIDE DEF es
<1>6. /\ entries' \in Seq(EntryType) /\ Len(entries') = Len(es)
      /\ \A j \in 1..Len(es) :
              /\ entries'[j].key = es[j].key /\ entries'[j].worker = es[j].worker
              /\ entries'[j].leases = es[j].leases + (IF j = Len(entries) + 1 THEN 1 ELSE 0)
      /\ lease' \in LeaseType
      /\ lease' # NoLease /\ lease'.at = Len(entries) + 1 /\ Fenced'
      /\ pc' = "ready" /\ at' = 0 /\ target' = NoKey /\ result' = "granted"
  BY <1>4, <1>5, Grants
<1>7. TypeOK'
  BY <1>2, <1>6 DEF PoolInv, TypeOK, Outcomes
<1>8. Places'
  BY <1>4, <1>6 DEF Places, Admitting, InCommand
<1>9. CapacityRespected'
  <2>1. \A j \in 1..Len(entries) : entries[j].key # target
    BY <1>2 DEF Positions
  <2>2. ASSUME NEW i \in 1..Len(entries'), NEW j \in 1..Len(entries'),
               entries'[i].key = entries'[j].key
        PROVE  i = j
    <3>1. es[i].key = es[j].key
      BY <1>6, <2>2
    <3>2. CASE i \in 1..Len(entries) /\ j \in 1..Len(entries)
      BY <1>4, <3>1, <3>2 DEF PoolInv, CapacityRespected
    <3>3. CASE i = Len(entries) + 1 /\ j \in 1..Len(entries)
      BY <1>3, <1>4, <2>1, <3>1, <3>3
    <3>4. CASE j = Len(entries) + 1 /\ i \in 1..Len(entries)
      BY <1>3, <1>4, <2>1, <3>1, <3>4
    <3>5. CASE i = Len(entries) + 1 /\ j = Len(entries) + 1
      BY <3>5
    <3> QED
      BY <1>4, <1>6, <3>2, <3>3, <3>4, <3>5
  <2>3. Len(entries') + inProgress' <= MaxWorkers
    BY <1>2, <1>4, <1>6, PoolAssumption DEF PoolInv, CapacityRespected
  <2> QED
    BY <2>2, <2>3 DEF CapacityRespected
<1>10. LeaseAccounting'
  <2>1. \A j \in 1..Len(entries) : entries[j].leases = 0
    BY <1>2 DEF PoolInv, LeaseAccounting
  <2>2. ASSUME NEW j \in 1..Len(entries')
        PROVE  entries'[j].leases = IF j = Len(entries) + 1 THEN 1 ELSE 0
    <3>1. es[j].leases = 0
      BY <1>3, <1>4, <1>6, <2>1
    <3> QED
      BY <1>6, <3>1
  <2> QED
    BY <1>6, <2>2 DEF LeaseAccounting
<1>11. Counters'
  <2>1. counts.admitted \in Nat
    BY CountFields DEF PoolInv, TypeOK
  <2> QED
    BY <1>2, <1>4, <1>6, <2>1 DEF PoolInv, Counters
<1>12. Timeouts'
  <2>1. \A j \in 1..Len(entries) : entries[j].worker.timeout = "base"
    BY <1>2 DEF PoolInv, Timeouts, InCommand
  <2>2. ASSUME NEW j \in 1..Len(entries')
        PROVE  entries'[j].worker.timeout = "base"
    BY <1>3, <1>4, <1>6, <2>1
  <2> QED
    BY <2>2 DEF Timeouts
<1>13. Runs'
  BY <1>2, <1>6 DEF PoolInv, Runs, InCommand, NoCommandRunsTwice
<1> QED
  BY <1>6, <1>7, <1>8, <1>9, <1>10, <1>11, <1>12, <1>13 DEF PoolInv

LEMMA OpenEntryFailsStep ==
  ASSUME PoolInv, OpenEntryFails
  PROVE  PoolInv'
<1>1. /\ pc = "open" /\ inProgress = 1 /\ inProgress' = 0 /\ lease = NoLease
      /\ pc' = "ready" /\ at' = 0 /\ target' = NoKey /\ result' = "open_failed"
      /\ UNCHANGED <<entries, counts, seen, rssBefore, lease, ran, calls>>
  BY DEF OpenEntryFails, Return, PoolInv, Places, Admitting, Counters
<1>2. TypeOK'
  BY <1>1 DEF PoolInv, TypeOK, Outcomes
<1>3. Places' /\ Timeouts' /\ Runs' /\ Fenced' /\ LeaseAccounting'
  BY <1>1, FencedWithoutLease DEF PoolInv, Places, Admitting, InCommand, Timeouts, Runs,
                                  NoCommandRunsTwice, LeaseAccounting
<1>4. CapacityRespected' /\ Counters'
  <2>1. counts.admitted \in Nat /\ Len(entries) \in Nat
    BY CountFields DEF PoolInv, TypeOK
  <2> QED
    BY <1>1, <2>1, PoolAssumption DEF PoolInv, CapacityRespected, Counters
<1> QED
  BY <1>2, <1>3, <1>4 DEF PoolInv

\* The hit's liveness check: the entry keeps its worker or gets a new one.
LEMMA EnsureEntryRunningStep ==
  ASSUME PoolInv, EnsureEntryRunning
  PROVE  PoolInv'
<1>1. /\ pc = "assign" /\ lease = NoLease /\ target \in Keys /\ at \in 1..Len(entries)
      /\ entries \in Seq(EntryType) /\ at \in Nat
      /\ UNCHANGED <<counts, inProgress, seen, rssBefore, lease, calls>>
  BY DEF EnsureEntryRunning, poolVars, PoolInv, Places, Admitting, TypeOK
<1>2. \/ pc' = "policy" /\ UNCHANGED <<entries, target, at, ran, result>>
      \/ /\ \E open \in BOOLEAN : entries' = [entries EXCEPT ![at].worker = NewWorker(open)]
         /\ pc' = "policy" /\ UNCHANGED <<target, at, ran, result>>
      \/ /\ pc' = "ready" /\ at' = 0 /\ target' = NoKey /\ result' = "open_failed"
         /\ UNCHANGED <<entries, ran>>
  BY DEF EnsureEntryRunning, Return, histVars
<1>3. /\ SameSlots
      /\ \A j \in 1..Len(entries) : \/ entries'[j].worker.timeout = "base"
                                    \/ entries'[j] = entries[j]
  <2>1. CASE entries' = entries
    BY <1>1, <2>1 DEF SameSlots
  <2>2. CASE \E open \in BOOLEAN : entries' = [entries EXCEPT ![at].worker = NewWorker(open)]
    <3>1. PICK open \in BOOLEAN : entries' = [entries EXCEPT ![at].worker = NewWorker(open)]
      BY <2>2
    <3>2. NewWorker(open) \in WorkerType /\ NewWorker(open).timeout = "base"
      BY NewWorkers
    <3>3. /\ SameSlots /\ entries'[at].worker = NewWorker(open)
          /\ \A j \in 1..Len(entries) : j # at => entries'[j] = entries[j]
      BY <1>1, <3>1, <3>2, ReplaceWorker
    <3> QED
      BY <3>2, <3>3
  <2> QED
    BY <1>2, <2>1, <2>2
<1>4. /\ pc' \in {"policy", "ready"} /\ target' \in Keys \cup {NoKey} /\ at' \in Nat
      /\ ran' = ran /\ result' \in {result, "open_failed"}
      /\ pc' = "policy" => target' = target /\ at' = at
  BY <1>1, <1>2
<1>5. TypeOK'
  BY <1>1, <1>3, <1>4 DEF PoolInv, TypeOK, Outcomes, SameSlots
<1>6. Places'
  BY <1>1, <1>3, <1>4 DEF Places, Admitting, InCommand, SameSlots
<1>7. CapacityRespected' /\ LeaseAccounting' /\ Counters'
  BY <1>1, <1>3, <1>4, CapacityKept, LeasesKept, CountersKept DEF PoolInv
<1>8. Timeouts'
  BY <1>1, <1>3 DEF PoolInv, Timeouts, InCommand, SameSlots
<1>9. Runs' /\ Fenced'
  BY <1>1, <1>4, FencedWithoutLease DEF PoolInv, Runs, InCommand, NoCommandRunsTwice
<1> QED
  BY <1>5, <1>6, <1>7, <1>8, <1>9 DEF PoolInv

LEMMA AssignPolicyStep ==
  ASSUME PoolInv, AssignPolicy
  PROVE  PoolInv'
<1>1. /\ pc = "policy" /\ lease = NoLease /\ target \in Keys /\ at \in 1..Len(entries)
      /\ entries \in Seq(EntryType) /\ inProgress = 0
      /\ UNCHANGED <<counts, inProgress, seen, rssBefore, ran, calls>>
  BY DEF AssignPolicy, poolVars, PoolInv, Places, Admitting, TypeOK, Counters
<1>2. PICK o \in EnforcePolicy(entries[at]) :
        LET es == [entries EXCEPT ![at] = o.entry] IN
        IF o.result \in {"kept", "cycled"}
        THEN GrantLease(es, at)
        ELSE /\ entries' = es
             /\ Return(o.result)
             /\ UNCHANGED lease
  BY DEF AssignPolicy
<1>3. /\ o.entry \in EntryType
      /\ o.entry.key = entries[at].key /\ o.entry.leases = entries[at].leases
      /\ o.entry.worker.timeout = entries[at].worker.timeout
      /\ o.result \in {"kept", "cycled", "restart_limit", "spawn_failed", "stop_failed", "exited"}
  BY <1>1, Policies DEF Follows
<1> DEFINE es == [entries EXCEPT ![at] = o.entry]
<1>4. /\ es \in Seq(EntryType) /\ Len(es) = Len(entries)
      /\ \A j \in 1..Len(entries) :
           /\ es[j].key = entries[j].key /\ es[j].leases = entries[j].leases
           /\ es[j].worker.timeout = entries[j].worker.timeout
  BY <1>1, <1>3
<1>5. \A j \in 1..Len(entries) : entries[j].leases = 0 /\ entries[j].worker.timeout = "base"
  BY <1>1 DEF PoolInv, LeaseAccounting, Timeouts, InCommand
<1>6. /\ entries' \in Seq(EntryType) /\ Len(entries') = Len(entries)
      /\ \A j \in 1..Len(entries) :
           /\ entries'[j].key = entries[j].key
           /\ entries'[j].leases = IF lease' # NoLease /\ j = lease'.at THEN 1 ELSE 0
           /\ entries'[j].worker.timeout = "base"
      /\ lease' \in LeaseType
      /\ lease' # NoLease => lease'.at \in 1..Len(entries)
      /\ Fenced'
      /\ pc' = "ready" /\ at' = 0 /\ target' = NoKey /\ result' \in Outcomes
  <2>1. CASE o.result \in {"kept", "cycled"}
    <3>1. GrantLease(es, at)
      BY <1>2, <2>1
    <3> HIDE DEF es
    <3>2. /\ entries' \in Seq(EntryType) /\ Len(entries') = Len(es)
          /\ \A j \in 1..Len(es) :
               /\ entries'[j].key = es[j].key /\ entries'[j].worker = es[j].worker
               /\ entries'[j].leases = es[j].leases + (IF j = at THEN 1 ELSE 0)
          /\ lease' \in LeaseType
          /\ lease' # NoLease /\ lease'.at = at /\ Fenced'
          /\ pc' = "ready" /\ at' = 0 /\ target' = NoKey /\ result' = "granted"
      BY <1>1, <1>4, <3>1, Grants
    <3>3. result' \in Outcomes
      BY <3>2 DEF Outcomes
    <3> QED
      BY <1>1, <1>4, <1>5, <3>2, <3>3
  <2>2. CASE o.result \notin {"kept", "cycled"}
    <3>1. entries' = es /\ Return(o.result) /\ lease' = lease
      BY <1>2, <2>2
    <3>2. /\ pc' = "ready" /\ at' = 0 /\ target' = NoKey /\ result' \in Outcomes
      BY <1>3, <2>2, <3>1 DEF Return, Outcomes
    <3>3. lease' = NoLease /\ lease' \in LeaseType /\ Fenced'
      BY <1>1, <3>1, <3>2, FencedWithoutLease DEF NoLease, LeaseType
    <3> HIDE DEF es
    <3> QED
      BY <1>4, <1>5, <3>1, <3>2, <3>3
  <2> QED
    BY <2>1, <2>2
<1>7. TypeOK'
  BY <1>1, <1>6 DEF PoolInv, TypeOK
<1>8. Places'
  BY <1>6 DEF Places, Admitting, InCommand
<1>9. CapacityRespected' /\ Counters'
  BY <1>1, <1>6 DEF PoolInv, CapacityRespected, Counters
<1>10. LeaseAccounting' /\ Timeouts'
  BY <1>6 DEF LeaseAccounting, Timeouts
<1>11. Runs'
  BY <1>1, <1>6 DEF PoolInv, Runs, InCommand, NoCommandRunsTwice
<1> QED
  BY <1>6, <1>7, <1>8, <1>9, <1>10, <1>11 DEF PoolInv

-----------------------------------------------------------------------------
(* The lease's calls preserve the invariant.                               *)

LEMMA SetRequestTimeoutStep ==
  ASSUME PoolInv, SetRequestTimeout
  PROVE  PoolInv'
<1>1. /\ pc = "ready" /\ lease # NoLease /\ calls' = calls + 1
      /\ lease' = [lease EXCEPT !.override = TRUE]
      /\ UNCHANGED <<entries, counts, inProgress, seen, rssBefore, pc, target, at, ran, result>>
  BY DEF SetRequestTimeout, LeaseCall, ensure_valid, poolVars, histVars
<1>2. /\ lease \in LeaseType
      /\ lease.at \in 1..Len(entries)
  BY <1>1 DEF PoolInv, TypeOK, Places
<1>3. /\ lease' \in LeaseType
      /\ lease'.at = lease.at /\ lease'.gen = lease.gen /\ lease'.strays = lease.strays
  BY <1>1, <1>2 DEF LeaseType
<1>4. lease' # NoLease
  <2>1. NoLease.at = 0
    BY DEF NoLease
  <2> QED
    BY <1>2, <1>3, <2>1
<1>5. TypeOK'
  BY <1>1, <1>3 DEF PoolInv, TypeOK
<1>6. Places'
  BY <1>1, <1>2, <1>3, <1>4 DEF Places, Admitting, InCommand
<1>7. CapacityRespected' /\ LeaseAccounting' /\ Counters'
  BY <1>1, <1>3, <1>4 DEF PoolInv, CapacityRespected, LeaseAccounting, Counters
<1>8. Timeouts' /\ Runs'
  BY <1>1 DEF PoolInv, Timeouts, Runs, InCommand, NoCommandRunsTwice
<1>9. Fenced'
  BY <1>1, <1>2, <1>3, <1>4 DEF PoolInv, Fenced, Leased
<1> QED
  BY <1>5, <1>6, <1>7, <1>8, <1>9 DEF PoolInv

LEMMA LeaseCycleStep ==
  ASSUME PoolInv, LeaseCycle
  PROVE  PoolInv'
<1>1. PICK o \in RestartOutcomes(Leased, "cycled") :
        /\ entries' = [entries EXCEPT ![lease.at].worker = o.worker]
        /\ lease' = [lease EXCEPT !.valid = o.result # "cycled"]
        /\ result' = o.result
  BY DEF LeaseCycle
<1>2. /\ pc = "ready" /\ lease # NoLease /\ ran' = 0 /\ calls' = calls + 1
      /\ lease.at \in 1..Len(entries) /\ entries \in Seq(EntryType)
      /\ UNCHANGED <<counts, inProgress, seen, rssBefore, pc, target, at>>
  BY DEF LeaseCycle, LeaseCall, ensure_valid, poolVars, PoolInv, Places, TypeOK
<1>3. Leased \in WorkerType
  BY <1>2, WorkerAt DEF Leased
<1>4. /\ o.worker \in WorkerType /\ o.worker.timeout = Leased.timeout
      /\ Leased.gen <= o.worker.gen
      /\ o.result \in {"cycled", "restart_limit", "spawn_failed", "stop_failed", "exited"}
  BY <1>3, Restarts DEF Follows
<1>5. /\ SameSlots /\ entries'[lease.at].worker = o.worker
      /\ \A j \in 1..Len(entries) : j # lease.at => entries'[j] = entries[j]
  BY <1>1, <1>2, <1>4, ReplaceWorker
<1>6. /\ lease' \in LeaseType
      /\ lease' # NoLease /\ lease'.at = lease.at
      /\ lease'.gen = lease.gen /\ lease'.strays = lease.strays
  BY <1>1, <1>2, LeaseMarked DEF PoolInv
<1>7. TypeOK'
  BY <1>1, <1>2, <1>4, <1>5, <1>6 DEF PoolInv, TypeOK, Outcomes, SameSlots
<1>8. Places'
  BY <1>2, <1>5, <1>6 DEF Places, Admitting, InCommand, SameSlots
<1>9. CapacityRespected' /\ LeaseAccounting' /\ Counters'
  BY <1>2, <1>5, <1>6, CapacityKept, LeasesKept, CountersKept DEF PoolInv
<1>10. Timeouts'
  <2>1. \A j \in 1..Len(entries) : entries[j].worker.timeout = "base"
    BY <1>2 DEF PoolInv, Timeouts, InCommand
  <2> QED
    BY <1>2, <1>4, <1>5, <2>1 DEF Timeouts, SameSlots, Leased
<1>11. Runs'
  BY <1>2 DEF Runs, InCommand, NoCommandRunsTwice
<1>12. Fenced'
  <2>1. Leased' = o.worker
    BY <1>5, <1>6 DEF Leased
  <2>2. Leased.gen \in Nat /\ Leased'.gen \in Nat
    BY <1>3, <1>4, <2>1, WorkerSteps
  <2> QED
    BY <1>2, <1>4, <1>6, <2>1, <2>2, FencedKept DEF PoolInv
<1> QED
  BY <1>7, <1>8, <1>9, <1>10, <1>11, <1>12 DEF PoolInv

LEMMA BeginCommandStep ==
  ASSUME PoolInv, BeginCommand
  PROVE  PoolInv'
<1>1. PICK o \in EnforcePolicy(entries[lease.at]) :
       \/ /\ o.result = "kept"
          /\ entries' = [entries EXCEPT ![lease.at] =
                [o.entry EXCEPT !.worker.timeout = IF lease.override THEN "override" ELSE @]]
          /\ pc' = "first" /\ result' = "none"
          /\ UNCHANGED lease
       \/ /\ o.result # "kept"
          /\ entries' = [entries EXCEPT ![lease.at] = o.entry]
          /\ lease' = [lease EXCEPT !.valid = o.result # "cycled"]
          /\ result' = o.result /\ pc' = "ready"
  BY DEF BeginCommand
<1>2. /\ pc = "ready" /\ lease # NoLease /\ ran' = 0 /\ calls' = calls + 1
      /\ lease.at \in 1..Len(entries) /\ entries \in Seq(EntryType)
      /\ lease.valid /\ Leased.gen = lease.gen
      /\ lease \in LeaseType
      /\ UNCHANGED <<counts, inProgress, seen, rssBefore, target, at>>
  BY DEF BeginCommand, LeaseCall, ensure_valid, poolVars, PoolInv, Places, TypeOK
<1>3. entries[lease.at] \in EntryType
  BY <1>2
<1>4. /\ o.entry \in EntryType
      /\ o.entry.key = entries[lease.at].key /\ o.entry.leases = entries[lease.at].leases
      /\ o.entry.worker.timeout = entries[lease.at].worker.timeout
      /\ entries[lease.at].worker.gen <= o.entry.worker.gen
      /\ o.result \in {"kept", "cycled", "restart_limit", "spawn_failed", "stop_failed", "exited"}
      /\ o.result = "kept" => o.entry.worker = entries[lease.at].worker
  BY <1>3, Policies DEF Follows
<1>5. \A j \in 1..Len(entries) : entries[j].worker.timeout = "base"
  BY <1>2 DEF PoolInv, Timeouts, InCommand
<1>5a. Leased.gen \in Nat
  BY <1>2, WorkerAt, WorkerSteps DEF Leased
<1>6. CASE o.result = "kept"
  <2> DEFINE e == [o.entry EXCEPT !.worker.timeout = IF lease.override THEN "override" ELSE @]
  <2>1. /\ entries' = [entries EXCEPT ![lease.at] = e]
        /\ pc' = "first" /\ result' = "none" /\ lease' = lease
    BY <1>1, <1>6
  <2>2. /\ e \in EntryType /\ e.key = o.entry.key /\ e.leases = o.entry.leases
        /\ e.worker.gen = o.entry.worker.gen
        /\ ~lease.override => e.worker.timeout = o.entry.worker.timeout
    <3>1. o.entry.worker \in WorkerType
      BY <1>4 DEF EntryType
    <3> DEFINE t == IF lease.override THEN "override" ELSE o.entry.worker.timeout
               w == [o.entry.worker EXCEPT !.timeout = t]
    <3>2. t \in {"base", "override"}
      BY <3>1 DEF WorkerType
    <3>3. ~lease.override => t = o.entry.worker.timeout
      OBVIOUS
    <3>4. e = [o.entry EXCEPT !.worker = w]
      OBVIOUS
    <3> HIDE DEF t, e
    <3>5. w \in WorkerType /\ w.gen = o.entry.worker.gen /\ w.timeout = t
      BY <3>1, <3>2 DEF WorkerType
    <3> HIDE DEF w
    <3>6. /\ e \in EntryType /\ e.key = o.entry.key /\ e.leases = o.entry.leases
          /\ e.worker = w
      BY <1>4, <3>4, <3>5 DEF EntryType
    <3> QED
      BY <3>3, <3>5, <3>6
  <2> HIDE DEF e
  <2>3. /\ SameSlots /\ entries'[lease.at] = e
        /\ \A j \in 1..Len(entries) : j # lease.at => entries'[j] = entries[j]
    BY <1>2, <1>4, <2>1, <2>2, ReplaceEntry
  <2>4. TypeOK'
    BY <1>2, <2>1, <2>3 DEF PoolInv, TypeOK, Outcomes, SameSlots
  <2>5. Places'
    BY <1>2, <2>1, <2>3 DEF Places, Admitting, InCommand, SameSlots
  <2>6. CapacityRespected' /\ LeaseAccounting' /\ Counters'
    BY <1>2, <2>1, <2>3, CapacityKept, LeasesKept, CountersKept DEF PoolInv
  <2>7. Timeouts'
    BY <1>2, <1>4, <1>5, <2>1, <2>2, <2>3 DEF Timeouts, InCommand, SameSlots
  <2>8. Runs'
    BY <1>2 DEF Runs, NoCommandRunsTwice
  <2>9. Fenced'
    <3>1. Leased'.gen = Leased.gen
      BY <1>4, <1>6, <2>1, <2>2, <2>3 DEF Leased
    <3>2. lease.strays = 0
      BY <1>2 DEF PoolInv, Fenced, TypeOK, LeaseType
    <3> QED
      BY <1>2, <1>5a, <2>1, <3>1, <3>2, FencedKept DEF PoolInv
  <2> QED
    BY <2>4, <2>5, <2>6, <2>7, <2>8, <2>9 DEF PoolInv
<1>7. CASE o.result # "kept"
  <2>1. /\ entries' = [entries EXCEPT ![lease.at] = o.entry]
        /\ lease' = [lease EXCEPT !.valid = o.result # "cycled"]
        /\ result' = o.result /\ pc' = "ready"
    BY <1>1, <1>7
  <2>2. /\ SameSlots /\ entries'[lease.at] = o.entry
        /\ \A j \in 1..Len(entries) : j # lease.at => entries'[j] = entries[j]
    BY <1>2, <1>4, <2>1, ReplaceEntry
  <2>3. /\ lease' \in LeaseType
        /\ lease' # NoLease /\ lease'.at = lease.at
        /\ lease'.gen = lease.gen /\ lease'.strays = lease.strays
    BY <1>2, <2>1, LeaseMarked DEF PoolInv
  <2>4. TypeOK'
    BY <1>2, <1>4, <1>7, <2>1, <2>2, <2>3 DEF PoolInv, TypeOK, Outcomes, SameSlots
  <2>5. Places'
    BY <1>2, <2>1, <2>2, <2>3 DEF Places, Admitting, InCommand, SameSlots
  <2>6. CapacityRespected' /\ LeaseAccounting' /\ Counters'
    BY <1>2, <2>1, <2>2, <2>3, CapacityKept, LeasesKept, CountersKept DEF PoolInv
  <2>7. Timeouts'
    BY <1>2, <1>4, <1>5, <2>1, <2>2 DEF Timeouts, SameSlots
  <2>8. Runs'
    BY <1>2, <2>1 DEF Runs, InCommand, NoCommandRunsTwice
  <2>9. Fenced'
    <3>1. Leased' = o.entry.worker
      BY <2>2, <2>3 DEF Leased
    <3>2. o.entry.worker \in WorkerType
      BY <1>4 DEF EntryType
    <3>3. Leased.gen <= Leased'.gen /\ Leased'.gen \in Nat
      BY <1>4, <3>1, <3>2, WorkerSteps DEF Leased
    <3> QED
      BY <1>2, <1>5a, <2>1, <2>3, <3>3, FencedKept DEF PoolInv
  <2> QED
    BY <2>4, <2>5, <2>6, <2>7, <2>8, <2>9 DEF PoolInv
<1> QED
  BY <1>6, <1>7

\* The end of a command: the override is gone from the worker, and a lease
\* without one never disturbed it.
LEMMA FinishCommandStep ==
  ASSUME PoolInv, InCommand, NEW o, o.worker \in WorkerType, o.result \in Outcomes,
         o.worker.timeout = Leased.timeout, Leased.gen <= o.worker.gen, o.ran \in {0, 1},
         o.ran = 1 => o.on \in Nat /\ Leased.gen <= o.on /\ o.on <= o.worker.gen,
         FinishCommand(o),
         ran' \in {0, 1}, UNCHANGED <<counts, inProgress, seen, rssBefore, target, at, calls>>
  PROVE  PoolInv'
<1>1. /\ lease # NoLease /\ lease.at \in 1..Len(entries) /\ entries \in Seq(EntryType)
      /\ pc # "open"
  BY DEF PoolInv, Places, TypeOK, InCommand
<1> DEFINE w == o.worker
           r == o.result
           t == IF lease.override THEN "base" ELSE w.timeout
           v == [w EXCEPT !.timeout = t]
<1>2. /\ entries' = [entries EXCEPT ![lease.at].worker = v]
      /\ lease' = [lease EXCEPT !.valid = @ /\ ~InvalidatesLease(r), !.strays = @ + Strayed(o)]
      /\ result' = r /\ pc' = "ready"
  BY DEF FinishCommand
<1>3. t = "base"
  <2>1. CASE ~lease.override
    BY <1>1, <2>1 DEF PoolInv, Timeouts, Leased
  <2> QED
    BY <2>1
<1>4. v \in WorkerType /\ v.timeout = "base" /\ v.gen = w.gen
  BY <1>3 DEF WorkerType
<1> HIDE DEF v, t
<1>5. /\ SameSlots /\ entries'[lease.at].worker = v
      /\ \A j \in 1..Len(entries) : j # lease.at => entries'[j] = entries[j]
  BY <1>1, <1>2, <1>4, ReplaceWorker
<1>6. /\ lease' \in LeaseType
      /\ lease' # NoLease /\ lease'.at = lease.at
      /\ lease'.gen = lease.gen /\ lease'.strays = lease.strays + Strayed(o)
      /\ lease.gen \in Nat /\ lease.strays \in Nat
  <2>1. /\ (lease.valid /\ ~InvalidatesLease(r)) \in BOOLEAN
        /\ Strayed(o) \in Nat
    BY DEF Strayed
  <2>2. lease \in LeaseType
    BY DEF PoolInv, TypeOK
  <2> DEFINE b == lease.valid /\ ~InvalidatesLease(r)
             n == lease.strays + Strayed(o)
  <2>3. b \in BOOLEAN /\ n \in Nat /\ lease' = [lease EXCEPT !.valid = b, !.strays = n]
    BY <1>2, <2>1, <2>2 DEF LeaseType
  <2> HIDE DEF b
  <2>4. /\ lease' \in LeaseType /\ lease'.at = lease.at
        /\ lease'.gen = lease.gen /\ lease'.strays = n
        /\ lease.gen \in Nat /\ lease.strays \in Nat
    <3> HIDE DEF n
    <3> QED
      BY <2>2, <2>3 DEF LeaseType
  <2>5. /\ lease' \in LeaseType /\ lease'.at = lease.at
        /\ lease'.gen = lease.gen /\ lease'.strays = lease.strays + Strayed(o)
        /\ lease.gen \in Nat /\ lease.strays \in Nat
    BY <2>4
  <2>6. NoLease.at = 0
    BY DEF NoLease
  <2> QED
    BY <1>1, <2>5, <2>6
<1>7. TypeOK'
  BY <1>2, <1>5, <1>6 DEF PoolInv, TypeOK, SameSlots
<1>8. Places'
  BY <1>1, <1>2, <1>5, <1>6 DEF Places, Admitting, InCommand, SameSlots
<1>9. CapacityRespected' /\ LeaseAccounting' /\ Counters'
  BY <1>1, <1>2, <1>5, <1>6, CapacityKept, LeasesKept, CountersKept DEF PoolInv
<1>10. Timeouts'
  BY <1>4, <1>5 DEF PoolInv, Timeouts, SameSlots
<1>11. Runs'
  BY <1>2 DEF Runs, InCommand, NoCommandRunsTwice
<1>12. Fenced'
  <2>1. Leased'.gen = o.worker.gen
    BY <1>4, <1>5, <1>6 DEF Leased, w
  <2>2. Leased.gen \in Nat /\ Leased'.gen \in Nat
    BY <1>1, <2>1, WorkerAt, WorkerSteps DEF Leased
  <2>3. lease.strays = 0 /\ lease.gen <= Leased.gen
    BY <1>1 DEF PoolInv, Fenced, InCommand
  <2>4. lease.gen <= Leased'.gen
    BY <1>6, <2>1, <2>2, <2>3
  <2>5. CASE Strayed(o) = 0
    BY <1>2, <1>6, <2>3, <2>4, <2>5 DEF Fenced
  <2>6. CASE Strayed(o) # 0
    <3>1. o.ran = 1 /\ o.on # lease.gen /\ Strayed(o) = 1
      BY <2>6 DEF Strayed
    <3>2. lease.gen < Leased'.gen
      BY <1>6, <2>1, <2>2, <2>3, <3>1
    <3>3. lease'.strays = 1
      BY <1>6, <2>3, <3>1
    <3>4. lease'.gen < Leased'.gen /\ lease'.gen <= Leased'.gen
      BY <1>6, <2>4, <3>2
    <3> QED
      BY <1>2, <1>6, <3>3, <3>4 DEF Fenced
  <2> QED
    BY <2>5, <2>6
<1> QED
  BY <1>7, <1>8, <1>9, <1>10, <1>11, <1>12 DEF PoolInv

\* A step inside a command that goes on with worker w.
LEMMA CommandGoesOn ==
  ASSUME PoolInv, InCommand, NEW w \in WorkerType,
         \/ w.timeout = Leased.timeout
         \/ lease.override
         \/ w.timeout = "base",
         entries' = [entries EXCEPT ![lease.at].worker = w],
         Leased.gen <= w.gen, pc' \in {"reopen", "second"}, ran' = 0,
         UNCHANGED <<counts, inProgress, seen, rssBefore, lease, result, target, at, calls>>
  PROVE  PoolInv'
<1>1. /\ lease # NoLease /\ lease.at \in 1..Len(entries) /\ entries \in Seq(EntryType)
      /\ pc # "open"
  BY DEF PoolInv, Places, TypeOK, InCommand
<1>2. /\ SameSlots /\ entries'[lease.at].worker = w
      /\ \A j \in 1..Len(entries) : j # lease.at => entries'[j] = entries[j]
  BY <1>1, ReplaceWorker
<1>3. TypeOK'
  BY <1>2 DEF PoolInv, TypeOK, SameSlots
<1>4. Places'
  BY <1>1, <1>2 DEF Places, Admitting, InCommand, SameSlots
<1>5. CapacityRespected' /\ LeaseAccounting' /\ Counters'
  BY <1>1, <1>2, CapacityKept, LeasesKept, CountersKept DEF PoolInv
<1>6. Timeouts'
  BY <1>1, <1>2 DEF PoolInv, Timeouts, SameSlots, InCommand, Leased
<1>7. Runs'
  BY DEF Runs, InCommand, NoCommandRunsTwice
<1>8. Fenced'
  <2>1. Leased' = w
    BY <1>2 DEF Leased
  <2>2. Leased.gen \in Nat /\ Leased'.gen \in Nat
    BY <1>1, <2>1, WorkerAt, WorkerSteps DEF Leased
  <2> QED
    BY <1>1, <2>1, <2>2, FencedKept DEF PoolInv, InCommand
<1> QED
  BY <1>3, <1>4, <1>5, <1>6, <1>7, <1>8 DEF PoolInv

LEMMA RunCommandStep ==
  ASSUME PoolInv, RunCommand
  PROVE  PoolInv'
<1>1. PICK o \in Request(Leased, "command") :
        /\ ran' = ran + o.ran
        /\ IF pc = "first" /\ Retries(o.result)
           THEN /\ entries' = [entries EXCEPT ![lease.at].worker = o.worker]
                /\ pc' = "reopen"
                /\ UNCHANGED <<lease, result>>
           ELSE FinishCommand(o)
  BY DEF RunCommand
<1>2. /\ InCommand /\ ran = 0
      /\ UNCHANGED <<counts, inProgress, seen, rssBefore, target, at, calls>>
      /\ lease.at \in 1..Len(entries) /\ entries \in Seq(EntryType)
  BY DEF RunCommand, InCommand, poolVars, PoolInv, Places, Runs, TypeOK
<1>3. Leased \in WorkerType
  BY <1>2, WorkerAt DEF Leased
<1>4. /\ o.worker \in WorkerType /\ o.worker.timeout = Leased.timeout
      /\ Leased.gen <= o.worker.gen
      /\ o.result \in Outcomes /\ o.ran \in {0, 1}
      /\ o.result = "session_missing" => o.ran = 0
      /\ o.ran = 1 => o.on \in Nat /\ Leased.gen <= o.on /\ o.on <= o.worker.gen
  BY <1>3, CommandRequests DEF Follows
<1>5. CASE pc = "first" /\ Retries(o.result)
  <2>1. /\ entries' = [entries EXCEPT ![lease.at].worker = o.worker]
        /\ pc' = "reopen" /\ UNCHANGED <<lease, result>>
    BY <1>1, <1>5
  <2>2. ran' = 0
    BY <1>1, <1>2, <1>4, <1>5 DEF Retries
  <2> QED
    BY <1>2, <1>4, <2>1, <2>2, CommandGoesOn
<1>6. CASE ~(pc = "first" /\ Retries(o.result))
  <2>1. FinishCommand(o) /\ ran' \in {0, 1}
    BY <1>1, <1>2, <1>4, <1>6
  <2> QED
    BY <1>2, <1>4, <2>1, FinishCommandStep
<1> QED
  BY <1>5, <1>6

LEMMA ReopenSessionStep ==
  ASSUME PoolInv, ReopenSession
  PROVE  PoolInv'
<1>1. PICK o \in Request(Leased, "open") :
        IF o.result = "ok"
        THEN /\ entries' = [entries EXCEPT ![lease.at].worker =
                  [o.worker EXCEPT !.timeout = IF lease.override THEN "override" ELSE @]]
             /\ pc' = "second"
             /\ UNCHANGED <<lease, result>>
        ELSE FinishCommand(o)
  BY DEF ReopenSession
<1>2. /\ InCommand /\ ran = 0 /\ ran' = 0
      /\ UNCHANGED <<counts, inProgress, seen, rssBefore, target, at, calls>>
      /\ lease.at \in 1..Len(entries) /\ entries \in Seq(EntryType)
  BY DEF ReopenSession, InCommand, poolVars, PoolInv, Places, Runs, TypeOK
<1>3. Leased \in WorkerType
  BY <1>2, WorkerAt DEF Leased
<1>4. /\ o.worker \in WorkerType /\ o.worker.timeout = Leased.timeout /\ o.result \in Outcomes
      /\ Leased.gen <= o.worker.gen /\ o.ran = 0
  BY <1>3, OpenRequests DEF Follows
<1>5. CASE o.result = "ok"
  <2> DEFINE t == IF lease.override THEN "override" ELSE o.worker.timeout
             w == [o.worker EXCEPT !.timeout = t]
  <2>1. /\ entries' = [entries EXCEPT ![lease.at].worker = w]
        /\ pc' = "second" /\ UNCHANGED <<lease, result>>
    BY <1>1, <1>5
  <2>2. t \in {"base", "override"} /\ (lease.override \/ t = Leased.timeout)
    BY <1>4 DEF WorkerType
  <2> HIDE DEF t
  <2>3. w \in WorkerType /\ w.timeout = t /\ w.gen = o.worker.gen
    BY <1>4, <2>2 DEF WorkerType
  <2> HIDE DEF w
  <2> QED
    BY <1>2, <1>4, <2>1, <2>2, <2>3, CommandGoesOn
<1>6. CASE o.result # "ok"
  <2>1. FinishCommand(o)
    BY <1>1, <1>6
  <2> QED
    BY <1>2, <1>4, <2>1, FinishCommandStep
<1> QED
  BY <1>5, <1>6

LEMMA ReleaseStep ==
  ASSUME PoolInv, Release
  PROVE  PoolInv'
<1>1. /\ pc = "ready" /\ lease # NoLease /\ lease' = NoLease
      /\ entries' = [entries EXCEPT ![lease.at].leases = @ - 1]
      /\ UNCHANGED <<counts, inProgress, seen, rssBefore, pc, target, at, ran, result, calls>>
      /\ lease.at \in 1..Len(entries) /\ entries \in Seq(EntryType)
  BY DEF Release, poolVars, histVars, PoolInv, Places, TypeOK
<1> DEFINE e == [entries[lease.at] EXCEPT !.leases = 0]
<1>2. entries[lease.at].leases = 1 /\ entries[lease.at] \in EntryType
  BY <1>1 DEF PoolInv, LeaseAccounting
<1>3. entries' = [entries EXCEPT ![lease.at] = e]
  BY <1>1, <1>2
<1>4. /\ e \in EntryType /\ e.key = entries[lease.at].key
      /\ e.worker = entries[lease.at].worker /\ e.leases = 0
  BY <1>2 DEF EntryType
<1> HIDE DEF e
<1>5. /\ entries' \in Seq(EntryType) /\ Len(entries') = Len(entries)
      /\ entries'[lease.at] = e
      /\ \A j \in 1..Len(entries) : j # lease.at => entries'[j] = entries[j]
  BY <1>1, <1>3, <1>4
<1>6. TypeOK'
  <2>1. NoLease \in LeaseType
    BY DEF NoLease, LeaseType
  <2> QED
    BY <1>1, <1>5, <2>1 DEF PoolInv, TypeOK
<1>7. Places'
  BY <1>1, <1>5 DEF Places, Admitting, InCommand
<1>8. CapacityRespected' /\ Counters'
  BY <1>1, <1>4, <1>5 DEF PoolInv, CapacityRespected, Counters
<1>9. LeaseAccounting'
  BY <1>1, <1>4, <1>5 DEF PoolInv, LeaseAccounting
<1>10. Timeouts' /\ Runs' /\ Fenced'
  BY <1>1, <1>4, <1>5, FencedWithoutLease DEF PoolInv, Timeouts, Runs, InCommand,
                                              NoCommandRunsTwice
<1> QED
  BY <1>6, <1>7, <1>8, <1>9, <1>10 DEF PoolInv

LEMMA ChildDiesStep ==
  ASSUME PoolInv, NEW i \in 1..Len(entries), ChildDies(i)
  PROVE  PoolInv'
<1>1. /\ entries' = [entries EXCEPT ![i].worker = Lost(@, "dead")]
      /\ UNCHANGED <<counts, inProgress, seen, rssBefore, lease, pc, target, at, ran, result, calls>>
      /\ entries \in Seq(EntryType)
  BY DEF ChildDies, poolVars, histVars, PoolInv, TypeOK
<1> DEFINE w == Lost(entries[i].worker, "dead")
<1>2. entries[i].worker \in WorkerType
  BY <1>1, WorkerAt
<1>3. /\ w \in WorkerType /\ w.timeout = entries[i].worker.timeout
      /\ w.gen = entries[i].worker.gen
  <2>1. w.gen = entries[i].worker.gen
    BY <1>2 DEF Lost, WorkerType
  <2>2. Follows(w, entries[i].worker)
    BY <1>2, WorkerSteps
  <2> QED
    BY <2>1, <2>2 DEF Follows
<1>4. entries' = [entries EXCEPT ![i].worker = w]
  BY <1>1
<1> HIDE DEF w
<1>5. /\ SameSlots /\ entries'[i].worker = w
      /\ \A j \in 1..Len(entries) : j # i => entries'[j] = entries[j]
  BY <1>1, <1>3, <1>4, ReplaceWorker
<1>6. TypeOK'
  BY <1>1, <1>5 DEF PoolInv, TypeOK, SameSlots
<1>7. Places'
  <2>1. Positions' = Positions
    BY <1>1, <1>5 DEF Positions, SameSlots
  <2> QED
    BY <1>1, <1>5, <2>1 DEF PoolInv, Places, Admitting, InCommand, SameSlots
<1>8. CapacityRespected' /\ LeaseAccounting' /\ Counters'
  BY <1>1, <1>5, CapacityKept, LeasesKept, CountersKept DEF PoolInv
<1>9. Timeouts'
  BY <1>1, <1>3, <1>5 DEF PoolInv, Timeouts, InCommand, SameSlots
<1>10. Runs'
  BY <1>1 DEF PoolInv, Runs, InCommand, NoCommandRunsTwice
<1>11. Fenced'
  <2>1. CASE lease = NoLease
    BY <1>1, <2>1, FencedWithoutLease DEF PoolInv, Places, InCommand
  <2>2. CASE lease # NoLease
    <3>1. lease.at \in 1..Len(entries)
      BY <2>2 DEF PoolInv, Places
    <3>2. Leased'.gen = Leased.gen
      BY <1>1, <1>3, <1>5, <3>1 DEF Leased
    <3> QED
      BY <1>1, <2>2, <3>2 DEF PoolInv, Fenced
  <2> QED
    BY <2>1, <2>2
<1> QED
  BY <1>6, <1>7, <1>8, <1>9, <1>10, <1>11 DEF PoolInv

-----------------------------------------------------------------------------
(* The theorems.                                                           *)

LEMMA PoolInvInit == Init => PoolInv
<1> SUFFICES ASSUME Init PROVE PoolInv
  OBVIOUS
<1> USE DEF Init
<1>1. TypeOK
  <2>1. counts \in CountsType
    BY DEF NoCounts, CountsType
  <2>2. lease \in LeaseType
    BY DEF NoLease, LeaseType
  <2>3. entries \in Seq(EntryType)
    OBVIOUS
  <2> QED
    BY <2>1, <2>2, <2>3 DEF TypeOK, Outcomes
<1>2. Places /\ LeaseAccounting /\ Timeouts
  BY DEF Places, Admitting, InCommand, LeaseAccounting, Timeouts
<1>3. Counters
  BY DEF Counters, NoCounts
<1>4. CapacityRespected
  BY PoolAssumption DEF CapacityRespected
<1>5. Runs /\ Fenced
  BY DEF Runs, Fenced, InCommand, NoCommandRunsTwice, NoLease
<1> QED
  BY <1>1, <1>2, <1>3, <1>4, <1>5 DEF PoolInv

LEMMA PoolInvStutter == PoolInv /\ UNCHANGED vars => PoolInv'
BY DEF PoolInv, vars, poolVars, histVars, TypeOK, Places, CapacityRespected, LeaseAccounting,
       Counters, Timeouts, Runs, Fenced, Admitting, InCommand, Positions, Leased,
       NoCommandRunsTwice

LEMMA PoolInvNext == PoolInv /\ [Next]_vars => PoolInv'
<1> SUFFICES ASSUME PoolInv, [Next]_vars PROVE PoolInv'
  OBVIOUS
<1>1. CASE \E k \in Keys : Acquire(k)
  BY <1>1, AcquireStep
<1>2. CASE AdmitHit
  BY <1>2, AdmitHitStep
<1>3. CASE AdmitMiss
  BY <1>3, AdmitMissStep
<1>4. CASE OpenEntry
  BY <1>4, OpenEntryStep
<1>5. CASE OpenEntryFails
  BY <1>5, OpenEntryFailsStep
<1>6. CASE EnsureEntryRunning
  BY <1>6, EnsureEntryRunningStep
<1>7. CASE AssignPolicy
  BY <1>7, AssignPolicyStep
<1>8. CASE SetRequestTimeout
  BY <1>8, SetRequestTimeoutStep
<1>9. CASE LeaseCycle
  BY <1>9, LeaseCycleStep
<1>10. CASE BeginCommand
  BY <1>10, BeginCommandStep
<1>11. CASE RunCommand
  BY <1>11, RunCommandStep
<1>12. CASE ReopenSession
  BY <1>12, ReopenSessionStep
<1>13. CASE Release
  BY <1>13, ReleaseStep
<1>14. CASE \E i \in 1..Len(entries) : ChildDies(i)
  BY <1>14, ChildDiesStep
<1>15. CASE UNCHANGED vars
  BY <1>15, PoolInvStutter
<1> QED
  BY <1>1, <1>2, <1>3, <1>4, <1>5, <1>6, <1>7, <1>8, <1>9, <1>10, <1>11, <1>12, <1>13,
     <1>14, <1>15 DEF Next

LEMMA PoolInvHolds == Spec => []PoolInv
BY PoolInvInit, PoolInvNext, PTL DEF Spec

\* Every variable of the pool keeps its type.
THEOREM PoolTypeCorrect == Spec => []TypeOK
<1>1. PoolInv => TypeOK
  BY DEF PoolInv
<1> QED
  BY <1>1, PoolInvHolds, PTL

\* The pool never holds more workers than max_workers, the one being opened
\* included, and never two for one session key.
THEOREM CapacityHolds == Spec => []CapacityRespected
<1>1. PoolInv => CapacityRespected
  BY DEF PoolInv
<1> QED
  BY <1>1, PoolInvHolds, PTL

\* active_leases of an entry is 1 exactly while its lease is out.
THEOREM LeasesBalance == Spec => []LeaseAccounting
<1>1. PoolInv => LeaseAccounting
  BY DEF PoolInv
<1> QED
  BY <1>1, PoolInvHolds, PTL

\* Every cold open attempt ends as one admission or one refusal.
THEOREM AdmissionsBalance == Spec => []AdmissionAccounting
<1>1. PoolInv => AdmissionAccounting
  <2> SUFFICES ASSUME PoolInv, pc = "ready" PROVE AdmissionAccounting
    BY DEF AdmissionAccounting
  <2>1. Len(entries) \in Nat /\ counts.admitted \in Nat /\ inProgress = 0
    BY CountFields DEF PoolInv, TypeOK, Counters
  <2> QED
    BY <2>1 DEF PoolInv, Counters, AdmissionAccounting
<1> QED
  BY <1>1, PoolInvHolds, PTL

\* Both at once: what the pool admits is bounded and accounted for.
THEOREM AdmissionsHold == Spec => []AdmissionsBounded
BY CapacityHolds, AdmissionsBalance, PTL DEF AdmissionsBounded

\* A lease's timeout never outlives the command it was set for.
THEOREM TimeoutsRestored == Spec => []TimeoutRestored
<1>1. PoolInv => TimeoutRestored
  BY DEF PoolInv, Timeouts, TimeoutRestored, InCommand
<1> QED
  BY <1>1, PoolInvHolds, PTL

\* The retry after a missing session never runs a command a second time.
THEOREM CommandsRunOnce == Spec => []NoCommandRunsTwice
<1>1. PoolInv => NoCommandRunsTwice
  BY DEF PoolInv, Runs
<1> QED
  BY <1>1, PoolInvHolds, PTL

\* A command is begun only on the generation the lease was granted; at most one
\* of a lease's commands runs on a replacement that its own request made, and
\* none is begun after it.
THEOREM LeasesFenced == Spec => []LeaseFenced
<1>1. PoolInv => LeaseFenced
  BY DEF PoolInv, Fenced, LeaseFenced
<1> QED
  BY <1>1, PoolInvHolds, PTL

\* Only a cold open lengthens the list of entries.
LEMMA ExceptLength ==
  ASSUME NEW s \in Seq(EntryType), NEW i, NEW x
  PROVE  Len([s EXCEPT ![i] = x]) = Len(s)
OBVIOUS

LEMMA SameLength ==
  ASSUME PoolInv, Next, ~OpenEntry
  PROVE  Len(entries') = Len(entries)
<1>1. entries \in Seq(EntryType)
  BY DEF PoolInv, TypeOK
<1>2. CASE AdmitMiss
  <2>1. PICK rss \in [1..Len(entries) -> Readings] : entries' = Sampled(rss)
    BY <1>2 DEF AdmitMiss
  <2> QED
    BY <1>1, <2>1, SampledSlots DEF SameSlots
<1>3. CASE AssignPolicy
  <2>1. /\ at \in 1..Len(entries)
        /\ \E o \in EnforcePolicy(entries[at]) :
             LET es == [entries EXCEPT ![at] = o.entry] IN
             entries' = es \/ GrantLease(es, at)
    BY <1>3 DEF AssignPolicy, PoolInv, Places
  <2>2. PICK o \in EnforcePolicy(entries[at]) :
          LET es == [entries EXCEPT ![at] = o.entry] IN
          entries' = es \/ GrantLease(es, at)
    BY <2>1
  <2> DEFINE es == [entries EXCEPT ![at] = o.entry]
  <2>3. o.entry \in EntryType
    BY <1>1, <2>1, Policies
  <2>4. es \in Seq(EntryType) /\ Len(es) = Len(entries)
    BY <1>1, <2>1, <2>3
  <2>5. entries' = es \/ GrantLease(es, at)
    BY <2>2
  <2> HIDE DEF es
  <2> QED
    BY <2>1, <2>4, <2>5, Grants
<1>4. CASE \/ EnsureEntryRunning \/ LeaseCycle \/ BeginCommand \/ RunCommand
           \/ ReopenSession \/ Release \/ \E i \in 1..Len(entries) : ChildDies(i)
  <2>1. entries' = entries \/ \E i, x : entries' = [entries EXCEPT ![i] = x]
    BY <1>4 DEF EnsureEntryRunning, LeaseCycle, BeginCommand, RunCommand, ReopenSession,
                FinishCommand, Release, ChildDies
  <2> QED
    BY <1>1, <2>1, ExceptLength
<1>5. CASE \/ \E k \in Keys : Acquire(k)
           \/ AdmitHit \/ OpenEntryFails \/ SetRequestTimeout
  BY <1>5 DEF Acquire, AdmitHit, OpenEntryFails, SetRequestTimeout
<1> QED
  BY <1>2, <1>3, <1>4, <1>5 DEF Next

\* No entry is added while the complete readings taken for it are over budget.
THEOREM BudgetRespected == Spec => ColdOpensWithinBudget
<1>1. PoolInv /\ [Next]_vars
        => [Len(entries') > Len(entries) => rssBefore = Unknown \/ ~(rssBefore >= Budget)]_vars
  <2> SUFFICES ASSUME PoolInv, Next, Len(entries') > Len(entries)
               PROVE  rssBefore = Unknown \/ ~(rssBefore >= Budget)
    BY DEF vars
  <2>1. CASE OpenEntry
    BY <2>1 DEF OpenEntry, PoolInv, Places
  <2>2. CASE ~OpenEntry
    <3>1. Len(entries') = Len(entries) /\ Len(entries) \in Nat
      BY <2>2, SameLength DEF PoolInv, TypeOK
    <3> QED
      BY <3>1
  <2> QED
    BY <2>1, <2>2
<1> QED
  BY <1>1, PoolInvHolds, PTL DEF Spec, ColdOpensWithinBudget

\* A lease leaves neither its slot nor its timeout behind (release, run_with_current_session).
THEOREM LeasesLeaveNothing == Spec => []LeasesEndClean
BY LeasesBalance, TimeoutsRestored, PTL DEF LeasesEndClean

\* A command is run once, and a lease whose worker was replaced runs at most the
\* command during whose request that happened (ensure_valid, run_with_current_session).
THEOREM CommandsKept == Spec => []CommandsAreFenced
BY CommandsRunOnce, LeasesFenced, PTL DEF CommandsAreFenced
=============================================================================
