# lean-rs: TLA+ models

This directory holds TLA+ modules that model lean-rs, the TLC configurations that
check them on small instances, and TLAPS proofs of theorems about them for every
value of the constants. Source paths are relative to `src/crates/`; `doc 30` is
`src/docs/architecture/30-worker-runtime-semantics.md`, `doc 20` is
`20-worker-pool.md` beside it. `PROJECT.json` says line by line which definition
stands for which code.

Contents: [1 the system](#1-the-system), [2 the modules](#2-the-modules),
[3 runs, bounds, fairness](#3-runs-bounds-fairness), [4 proofs](#4-proofs),
[5 known divergences](#5-known-divergences), [6 not modelled](#6-not-modelled),
[7 plan](#7-plan).

## 1. The system

lean-rs embeds Lean 4 in Rust. Lean cannot be unloaded, keeps process-global
state, and aborts the process when it panics. A host that must survive this runs
Lean in a *worker child*: a separate process that serves one request at a time
over its standard input and output, supervised by the parent. Below the worker
there is a library for hosting Lean in one's own process, and beside it the
tools that build, package and find what is loaded.

| Component | State it keeps | Operations | Hard behaviour | Correct when |
| --- | --- | --- | --- | --- |
| Supervisor, `lean-rs-worker-parent/src/supervisor.rs` | state, generation, request id, handles, restart window, counters | `spawn`, requests, `status`, `cycle`, `shutdown`, `Drop` | the child dies, wedges or answers late, while a reader thread, a bounded channel and two pipes lie between it and the caller; stops escalate to kill | an answer belongs to the request it ends; a reused stdout is clean; no two children at once; restart intensity; every call returns but for two unbounded waits |
| Child serve loop, `lean-rs-worker-child/src/child.rs` | current session, frame cap, stream sequences | one handler per `Request` | rows from several Lean threads, frames over the cap, a pipe that breaks | one terminal frame per request, all of its rows before it, nothing the parent cannot read |
| Session reuse, both ends | parent: key list, hint, budget, deferred restart; child: pool, stamps, cache | open, request, cache clear, restart | the ends predict each other without talking; an import makes other environments stale | no stale session, pool within capacity, one import over a bound at most |
| Local pool and leases, `pool.rs` | entries, admission counters, leases | acquire, command, cycle, timeout, release | a worker replaced inside a command; error paths between two counters | accounts that add up, one run per command, fenced leases |
| Capability and host handle, `capability.rs`, `session.rs` | builder; worker and session configuration | configure, `check`, `open`, calls, retry | the deployment changes while it is checked; opens fail half-way; a child replaced under a handle | checks foretell opens, no child left behind, equal keys mean equal sessions, answers from the session that was opened |
| Import planning, `planning.rs`, `lean-toolchain/src/modules.rs` | none | discover modules, group them into batches | nested libraries, a second copy of the session key | a partition, by innermost root, under the key its own builder has |
| Frame protocol, `lean-rs-worker-protocol/src/` | frame cap | encode, decode, handshake, `ConfigureFrameLimit` | answers at the cap; hand-written conversions | no frame over the cap; every field arrives |
| Host sessions in one process, `lean-rs-host/src/host/` | environments, `SessionPool` per thread, the import lock | import, acquire, release, bracketed queries | process-global flag and registry under several threads | imports see the flag they set, stamps are exact, nothing leaks |
| Host queries, `host/session.rs` | cancellation token, progress bridge | single and bulk calls | up to four programs for the same work; panics below Lean frames | bulk is the fold of single; stops at the token; sinks reached |
| Callback registry, `lean-rs/src/callback.rs` | id to closure | register, call, drop | ids wrap around | ids never reach another owner |
| ABI conversions, `lean-rs/src/abi`, `host/process/query.rs`, … | none | read and build Lean constructors | tags, slots and offsets written by hand | each field is the one it is named for |
| Lean shims, `lean-rs-host-shims` | snapshot cache | elaborate, query, verify | look-up, elaboration and write-back are apart | answers are those of a fresh elaboration |
| Loader and build helpers, `lean-toolchain`, `lean-rs/src/module` | files | package, build, validate, open | several build scripts, crashes, edits | complete directories, honest cache, manifests that open |
| Runtime, objects, raw bindings | reference counts | init, attach, retain, release | memory-level | not modelled |

Interaction. A pool entry owns a capability, a capability owns one supervisor, a
supervisor owns one child at a time and starts one reader thread per request. The
parent writes a request frame and reads frames until a `Response`; rows, progress
and diagnostics go through the reader's bounded channel to sinks on the caller's
thread. The child makes the request's calls on a host session, which enters Lean
through the shims; Lean calls back through the registry. The parent's key list
and the child's pool are coupled only by the answers `HostSessionOpened` and
`HostSessionReused`.

## 2. The modules

| Module | Models | Composes |
| --- | --- | --- |
| `WorkerService` | what a caller is promised of one worker (abstract) | |
| `WorkerSupervisor` | supervisor, child process, pipes, reader thread, channel | implements `WorkerService` |
| `SessionReuse` | both ends of session reuse, the generation budget | |
| `WorkerPool` | the local pool, its leases and their commands | |
| `ChildServe` | the serve loop, its frames and caps, data streams | |
| `SessionKeys` | builders, their configuration, session keys and sessions | |
| `ImportPlanning` | module discovery and batches | `SessionKeys` |
| `CapabilityOpen` | `check` and `open`, the child's locator | `ImportPlanning` |
| `SessionCalls` | calls on a session and on a host handle, end to end | |
| `WorkerHandles` | from a builder to the answers of its handle | `CapabilityOpen`, `SessionCalls` |
| `CallbackRegistry` | ids of callbacks | |
| `HostCalls` | methods of a `LeanSession` | `CallbackRegistry` |
| `HostSessions` | imports, pools and calls by several threads | `HostCalls` |
| `SnapshotCache` | the shims' cache of elaborated modules | |
| `SourcePackage` | the cache of packaged sources, across processes | |
| `Artifacts` | build cache, manifests, opening | |
| `ShimTypes`, `ShimReads`, `ShimRequests`, `ShimWire` | layout of the types that cross Lean, host, child and wire | each extends the one before |
| `ExportCalls` | a capability's own exports: declared, opened, looked up, called | |
| `ChildSide` | what a request meets in the child | `ChildServe`, `HostCalls`, `ShimWire`, `ExportCalls` |
| `PooledSessions` | the parent's books on its workers | `WorkerPool`, `SessionReuse` |
| `Capabilities` | a capability of one's own process, and one in a worker | `Artifacts`, `WorkerHandles` |
| `…_proofs` | proofs about the module of that name; `Toolchain_proofs`: about `SourcePackage` and `Artifacts`; `LeanSide_proofs`: about `SnapshotCache` and `ExportCalls` | |
| `MC…` | TLC instances: model values, tables, symmetry | |

**WorkerSupervisor.** Five actors interleave. The *caller's thread* is `pc`:
`"ready"` between two calls of the public API, and otherwise the place where the
thread may block or be overtaken (`loop`, `recv`, `recvForever`, `event` are the
read loop of `send_request_*`; `reap` the wait for the exit after end of file; `grace`,
`gracejoin`, `exitwait`, `killwait` the ladder of a stop; `stopped` the restart).
The *child* takes requests, writes frames into `pipe`, and may crash, lose a pipe,
close its stdout and run on (`Mute`), or do nothing at all. The *reader thread*
(`rpc`, `rhold`) moves frames from the pipe to the bounded channel `chan`. The
*environment* cancels, lets the deadline come, moves the clock and lets kills land. There is no second caller: every method
takes `&mut self`. A frame carries the request it is about as history: the wire
has no id, and no action of the parent reads it. `stdoutAt` says who owns the read
end of stdout, which moves to the reader and comes back only by a successful join.

**SessionReuse.** The parent (`keys`, `hint`, `budget`, `pending`) predicts
whether the next open will import; the child (`current`, `parked`, `epoch`,
`cache`) decides. A `setup` pairs the two: equal or unequal capacities, a child
that pools or an older one that does not, keys that register extensions, epoch
reads that may fail. An open is the call, the policy restart before it, and one
action per answer. `past` counts imports after a bound was reached.

**WorkerPool.** A lease borrows the pool mutably, so one caller drives
everything; what overtakes it is the death of a child. `pc` is the place inside
`acquire_lease` or inside a command. A supervisor is what the pool sees of it,
and each of its calls is the set of its outcomes; how they come about is
`WorkerSupervisor`'s subject. `ran` counts how often a child ran the command,
`strays` how many commands of the lease ran on another generation than its own: the
outcome of a request names the generation it ran on, which its own policy restart may
have made.

**ChildServe.** A frame is its kind, its size and what the properties ask of it.
Each handler that writes more than its answer is a group of actions; rows come
from Lean threads through a callback that passes the error latch and then the
forwarder's lock, two steps that other threads may come between. The export itself
is external: `ExportReturns` assumes the contract of `lean-rs/src/callback.rs:147` and
172, no callback is running or comes later when it returns, and `run_data_stream` does
not check it.

**SessionKeys, ImportPlanning, CapabilityOpen.** A builder is a record with one
field per field of the Rust struct that anything depends on, `Configured` its
methods, `SessionKey` the key the pool compares, `SessionConfig` the session the
child is asked for. A *place* is what a deployment offers: files at the places
where a worker child is looked for, the environment variable, Cargo, Lake, the
toolchain, a manifest, how the child behaves. `check` and `open` run the steps
`static`, `artifact`, `spawn`, `health`, `session`, `metadata`, `done`; the
place may change between any two. Discovery and planning are operators on a
*site*: lakefiles, declared libraries, sources, named by their modules' components.

**SessionCalls, WorkerHandles.** A table has a row per method: what the parent
sends and accepts, what the child's handler calls and may answer. A call is an
optional policy restart, the handler's calls of the host session one by one, and
the parent's reaction. A verdict carries the RSS reading that judged it as
history. `WorkerHandles` starts it from what an open left behind.

**HostCalls, CallbackRegistry, HostSessions.** A method is a *program*: a
sequence of steps `look at the token`, `enter Lean`, `tick`, `call back`; the
bulk methods have up to four. A thread runs one step at a time. `HostSessions`
adds how the thread came to its session: lock, flag, import, stamp, unlock, and
the pool. The registry's ids are allocated around the end of a small id space.

**SnapshotCache.** A query reads the cache, finds an entry or an older build to
start from, elaborates, and writes the whole cache back: three steps without a
lock. An elaboration's *world* is what its result depends on; the property
compares the world of an answer with that of a fresh elaboration.

**SourcePackage.** Processes share files only. A directory is a set of file and
content pairs. Removals go file by file: `RemoveStale` empties an entry; a sweep of
the temporary directories (`SweepFile`, `SweepNext`, `SweepEnds`) runs beside the
writes, checks and renames of other calls, and one that had opened a directory when it
was renamed takes its files from the entry (`SweepInstalled`). An operation in a
directory that another process is taking apart may fail (`Disturbed`). `stolen` and
`cut` remember whom a sweep or an unfinished removal has touched; nothing the code does
depends on them.

**Artifacts.** Time stamps are a counter. People edit sources, change dependencies and
toolchains, and processes die, at any moment. A loader reads the manifest for the
preflight (`checked`), looks at the library (`seen`), reads the manifest again
(`held`), and opens the library that is there then (`got`): four moments, with builds
between any two.

**ShimTypes … ShimWire.** Lean's declarations, the layout its compiler gives
them, and the readers and builders of the host, the child's conversions and the
wire's variants, as tables. Every type crosses on its own, one value of each
constructor: the value of a field stands for itself by its name.

**ExportCalls.** What a build script declares of a library, what Lake compiled, and
what a caller asks for are three choices that nothing but the manifest relates. The
signatures travel as in the code: spelled by `to_json`, read back by the loader's
tables, refused by its rules. Lean's side is external: the C type of a Lean type, how
a value is boxed. A value stands for its bits, so a decoder that takes it for
something else yields `garbage`; a call through a type that is not the compiled
one is `Undefined`.

**ChildSide, PooledSessions, Capabilities.** The parts of each belong together in the
code and share no state in the model: one of them moves while the others rest in an
initial state, so that one run goes through all. What they pass to each other is in
the parts: an outcome of `WorkerPool` stands for any session, a call of `ChildServe`
for any method.

## 3. Runs, bounds, fairness

| Run | Question | Properties |
| --- | --- | --- |
| `supervisor_stream` | Do answers and rows reach the request that caused them, whatever fails? | `TypeOK`, `NothingLeftOver`, `LifecycleAccounting`, `SpawnAfterReap`, `ImplementsService` |
| `supervisor_liveness` | Does a call hang but where the code waits without a bound; is what the supervisor says so? | `RestartIntensity`, `StatusIsTrue`, `CallsReturn` |
| `pooled_sessions` | Pool: do slots, admissions and timeouts balance; does a command run once; what ends a lease whose worker was replaced? | `TypeOK`, `AdmissionsBounded`, `LeasesEndClean`, `CommandsAreFenced` |
| | Reuse: how wrong can the prediction be, and what does it cost? | `ReuseTypeOK`, `BudgetsHold`, `PoolsAgree`, `NoStaleSession` |
| `child_side` | Serve loop: is there one readable answer per request, with exact counts? | `TypeOK`, `ParentIsAnswered`, `StreamIsExact` |
| | Calls: are bulk calls folds; do they stop and report? | `CancelStops`, `BulkIsFold`, `SinksAreServed` |
| | Values: does every field arrive as itself; do checked calls do what was declared? | `AnswersArrive`, `RequestsArrive`, `CheckedCallsHold` |
| `capabilities` | Handles: does a check foretell an open, a key its session, an answer its call? | `HandlesAnswer`, `VerdictsAreEarned`, `CheckForetellsOpen`, `OpensAsAsked`, `KeysMeetSessions` |
| | Artifacts: does the build cache lie; does what was checked fit, and what is published open? | `CacheIsHonest`, `ManifestsServe` |
| `host_sessions` | Do imports of several threads disturb each other or leak? | `TypeOK`, `SessionsAreCurrent`, `NothingIsLost` |
| `snapshot_cache` | Is a reused elaboration the one that would be made? | `TypeOK`, `AnswersAreFresh`, `CacheHoldsItsOwn` |
| `source_package` | Is a package that is returned one request's, whole; is a call rejected for what others do? | `TypeOK`, `CallsEndRightly` |

Four runs check a sentence of the repository that the code does not keep; TLC finds
it violated. Section 5 says how, and the property of the passing run names the same
case as its exception.

| Run | The sentence | Property |
| --- | --- | --- |
| `supervisor_deadline` | a wedged child is killed when the deadline fires (doc 30, line 341) | `DeadlinesBite` |
| `pool_fences` | a lease is tied to the generation admitted for it (doc 20, 38–40, 58–59) | `CommandsStayPut` |
| `package_swept` | per-entry locking, atomic installation (`source_package.rs:4–5`) | `InstallsAreAtomic` |
| `manifest_null` | a dependency's initializer is optional (`loader.rs:615`, `build_helpers.rs:1976`) | `WrittenIsReadable` |

Each property of a passing run has at least one mutant in `PROJECT.json`: a variant of a mapped
definition, with a bug that could be in that code, under which TLC finds the
property violated.

**What a property leaves out on purpose.** `BudgetsHold` bounds the imports the
parent charges. An import whose answer exceeds the frame cap is replaced by an
error frame (`child.rs:150`) after it was made, and is not charged: a child whose
answers are always over the cap imports without a bound. `NoStaleSession` and
`PoolsAgree` expect no exact hint where epoch reads fail: a failed read evicts the
current session too (`child.rs:1189`). `VerdictsAreEarned` allows the verdict
`BudgetExceeded` of the parent for a child that was lost.

`CallsReturn` lets a call stay for good in one of two waits that the code does not bound
(`WaitsForEver`), and says what each waits for: the receive of a request whose deadline
passed unnoticed, from a child that runs and writes nothing, and the exit of a child that
closed its stdout. Whatever else happens, calls return. `CommandsAreFenced` lets one
command of a lease run on a replacement: one that was begun on the lease's own generation
and whose request made the replacement. It is the lease's last.

`CallsEndRightly` is about what a call returns while locks and renames protect it:
not of an entry that holds what another label's sweep or an unfinished removal left,
nor of a rejection for a directory that was swept. A request's generated files are not
part of a sidecar, so requests of one owner and label that generate different ones share
an entry: a call may return the directory of the other one if its own files are in it,
and fails for ever on one that lacks a file of its own. Both are in the property.
`ManifestsServe` says of a loader only what it can know: its second read gave the manifest
it checked and the library is still the one it looked at; then what it opens fits,
unless that manifest was written with another toolchain than the library's. And a loader
that is refused had read another manifest than the one that is published, or that one
describes the project no longer, names another toolchain or has a null initializer.
Loaders overlap builds, changes and crashes at every step; TLC finds a counterexample
without any one of these exceptions.

### Bounds, and why they are enough

All counters are bounded by a number of calls, steps or changes that the
*environment* makes, never by a guard the code does not have.

- Supervisor: two calls are the least in which something of the first can reach
  the second; `BufCap = PipeCap = 1` make a full channel and a full pipe
  reachable with two rows. One restart per window, with a clock of one tick, lets
  an entry expire; `supervisor_stream` has three restarts and no clock.
  `supervisor_liveness` has one row per request, which with its terminal frame
  blocks the reader on a full channel; deadlines may pass unnoticed (`SlowParent`).
- `pooled_sessions`, reuse: three keys over a pool of two force an eviction; six calls
  fill the pool, evict, reopen and cross a bound. Each pairing of `MCSetups` is a different way to be
  wrong.
- `pooled_sessions`, pool: two workers and three keys make a full pool; readings lie below
  and at the limits or are missing; five calls suffice for a lease with a timeout
  whose command fails, a second lease of the worker and a command on it.
- `child_side`, serve loop: row sizes below and above three caps, two streams, two threads,
  three items: a row that fits, one that does not, and one after it.
- `capabilities`, handles: `MaxSettings = 1` configuring call on starts that are partly
  configured already, so that every field of the key differs between two
  builders; deployments with at most one flaw and one change during an operation;
  three calls on the handle, enough for open, loss, and use. Libraries `A` and
  `A.B` are the least that nest.
- `child_side`, calls: batches with equal, different and missing names; two threads.
  `host_sessions`: two keys, one registering, pools of one entry, three opens.
  `IdSpace = 3` has two ids and wraps at once.
- `snapshot_cache`: two environments of different classes, five requests that differ
  in one component each, a source that is a module and one larger than the byte
  limit, a cache of two entries and two units, three queries, one clear, time to
  expire.
- `source_package`: two processes and three calls in all, the least in which one
  replaces what another one left while a third looks; two labels that share an entry and
  one that does not; requests that differ in generated files and policy; one crash and
  one failing operation.
- `capabilities`, artifacts: two builders and builds, one change by people, one crash,
  one open. The names of files are alike, so one of them is there first
  (`CapabilitiesInit`).
- The runs that find a violation have the bounds of the passing run or smaller ones.
- `child_side`, values: the shims need no bound, the run goes through all declared types. Of
  exports it has one per representation and per way to decode an answer, two in one
  library, `MaxDeclared = 2` declarations, which is the least that can be
  duplicates, and one false declaration per rule of the reader.

Symmetry is used for model values that no definition tells apart, never in the
run with a liveness property. `CHECK_DEADLOCK FALSE` is used because the systems
stop: a dropped supervisor has nothing more to do, and a caller that used up its
calls makes none. That nothing stops in the *middle* of a call, but in the two waits
it names, is `CallsReturn`.

### Fairness

The supervisor's two temporal runs (`supervisor_liveness`, `supervisor_deadline`) use
fairness (`FairSpec`): the parent's two threads are scheduled (`WF` of `CallStep` and
`ReaderStep`), a deadline comes, and the OS completes a SIGKILL. It assumes nothing of the child, which may wedge or close its
stdout, nor of sinks beyond returning, and no user ever has to cancel. The parent may be
late for its own deadline. `supervisor_liveness` leaves out sink panics (a known
divergence), unreadable frames, and kills that stall beyond the bounded wait, after which
the code gives up by design. No other component waits for another: the pool, planner and
builders run on the caller's thread, and the file locks of `SourcePackage` are
released by the OS with their process.

### The refinement

`ImplementsService` is `WorkerService!Spec` under the mapping of
`WorkerSupervisor`: a caller's view is the requests submitted, the rows its sinks
saw and the answer, which acknowledges the number of rows sent. Every step of
child, reader, channel, pipes, stop and restart maps to a step of the service or
to a stutter: rows are delivered in order, an `Ok` comes after all of them, and
generations change between requests only. TLC checks it with all faults enabled, and
`Implements` proves it.

## 4. Proofs

Checked by TLAPS for every value of the constants that satisfies the named
assumptions: sizes and counters are natural numbers, limits at least one as the
builders clamp them, a caller has a stream to write to, and special values
(`"none"`, `NoKey`, `NoConfig`) are not members of the sets they stand beside. TLC evaluates
each assumption in the runs of its module.

| Theorem | Property | Rests on |
| --- | --- | --- |
| `TypeCorrect` | `TypeOK` of the supervisor | a lemma per action and group of variables |
| `AccountingHolds`, `NoOverlap` | `LifecycleAccounting`, `SpawnAfterReap` | `LifecycleInv` |
| `IntensityHolds` | `RestartIntensity` | `WindowInv` |
| `NothingLeft` | `NothingLeftOver` | `PlumbingInv`, `StreamInv` (`StreamSafe`) |
| `Implements` | `ImplementsService`, the refinement | the same |
| `StatusHolds` | `StatusIsTrue` | `UsableInv`, under three hypotheses |
| `ReuseTypeCorrect`, `BudgetsKept` | `ReuseTypeOK`, `BudgetsHold` | `BudgetInv` |
| `PoolsAgreeHold`, `NoStaleSessionHeld` | `PoolsAgree`, `NoStaleSession` | `PoolInv` of reuse (`PoolSafe`) |
| `PoolTypeCorrect`, `AdmissionsHold`, `LeasesLeaveNothing`, `CommandsKept`, `BudgetRespected` | the pool's properties; the last: no worker is opened over the RSS budget | `PoolInv` of the pool |
| `ServeTypeCorrect`, `ParentIsAlwaysAnswered`, `StreamStaysExact` | `TypeOK`, `ParentIsAnswered`, `StreamIsExact` of the serve loop | `ServeInv` (`ServeSafe`) |
| `AnswersHold` | `AnswersAreFresh` | every copy of the cache, and every build in progress |
| `TypesHold`, `CacheHolds`, `OneEntryForAKey`, `ClearsHold` | `TypeOK`, `CacheHoldsItsOwn`; the last two: conjuncts of it | `LimitInv`, `ClearInv` |
| `CallsAreChecked` | `CheckedCallsHold` | `ExportInv` |
| `CallsTypeCorrect`, `CancelIsPrompt`, `SinksAreAlwaysServed` | `CallsTypeOK`, `CancelStops`, `SinksAreServed` | `CallsInv` |
| `BulkCallsAreFolds` | `BulkIsFold` | `BulkInv` |
| `PackageTypeCorrect`, `CallsEndWell` | `TypeOK`, `CallsEndRightly` of the package cache | `PackageInv` (`PackageSafe`) |
| `CacheStaysHonest`, `ManifestsAreServed` | `CacheIsHonest`, `ManifestsServe` | `ArtifactsInv` (`ArtifactsSafe`) |
| `SessionsTypeCorrect`, `SessionsStayCurrent`, `NothingGetsLost` | `TypeOK`, `SessionsAreCurrent`, `NothingIsLost` | `SessionsInv` |
| `ChecksForetell`, `OpensHold`, `KeysTell` | `CheckForetellsOpen`, `OpensAsAsked`, two conjuncts of `KeysMeetSessions` | `BootInv` (`BuildersSafe`) |
| `PlansHold` | `KeysMeetSessions` | `BootInv`, `PlanMade` |
| `HandlesAnswerRight`, `VerdictsHold` | `HandlesAnswer` (types, `AnswersFitCalls`), `VerdictsAreEarned` | `BootInv`, `WholeInv` (`HandlesSafe`) |

*LifecycleInv.* The accounts alone are not inductive: counting an exit is right
only if the handle is still there and its child is the one counted. `HandleInv`
says where in a call the handle exists and what the process then may be;
`ReceiverInv` that from the end of a stop to the spawn no receiver of the old
child's output is left; `CountersInv` ties attempts to the restart under way.

*WindowInv.* The property is about the restarts that were admitted, the code keeps
those that have not expired: the invariant makes the kept ones a suffix of the
history, in order of time, everything before it older than the window.

*StreamInv.* Rows on their way lie in five places: what the sinks saw, the event
in the caller's hand, the channel, the reader's hand, the pipe. Put together in
this order they are one run of rows of the current request, numbered from where
the sinks are. That needs `PlumbingInv`, which says who owns stdout at each place of
the call, for which request the reader reads and that only the last event of a
channel ends it, and `QuietBetweenCalls`: a stdout that the supervisor has in hand
between two calls has nothing left in it. *The refinement* follows: a row reaches a sink in the order it was
sent, and an `Ok` finds nothing left before it.

*UsableInv.* `StatusHolds` assumes that sinks do not panic, kills do not stall, and
frames parse. Each is necessary: without it TLC finds the exception the code
has (section 5), in which `status()` reports a supervisor with a child that is not
there or cannot take a request.

*BudgetInv.* The overrun is at most one because an import that was not foreseen
sets `pending`, and the next open restarts before it sends; `OpenSecured` records
what the open in progress has ensured so far.

*PoolInv of reuse.* The child's pool is sound by itself (one environment per key,
within capacity, every stamp the epoch, no snapshot of what was dropped), since it
is swept where it could go stale. The parent's list is a suffix of the pool's order
where nothing registers, epoch reads succeed and the capacities are equal, and ends in
the child's current session. Sequence lemmas on `Without`, `LastN` and `Retained` carry
most of the proof.

*PoolInv of the pool.* `Places` ties the place of the call to the lease and the
indices in use; `Counters` counts the open in progress in; `Timeouts` says that a
worker has a timeout not its own only inside a command of an overriding lease;
`Runs` that nothing ran before the answer that ends the command. The lemmas on
outcomes carry the fact the retry rests on: `session_missing` comes with no run,
whatever restarts preceded it. A command that strayed leaves the worker on a generation
later than the lease's (`Fenced`), so `ensure_valid` refuses the next.

*ServeInv.* Every frame on the wire fits the cap in force when it was written. A
row's number is given out under the forwarder's lock, and between that step and
the write a thread may latch an error: as long as nothing is latched, every number
given out is on the wire, each stream's in order. The wire is *open* (rows only)
until the terminal frame and *ended* after it, and only one place of the loop
writes that frame.

*AnswersHold.* `AnswersAreFresh` speaks of answers only; the invariant adds what
they come from: the shared cache, and the copy each thread read before it
elaborated and will write back. That a class decides a key (`CacheAssumption`) is
what makes two sessions' entries interchangeable. *ClearInv* carries the same
route for the time of an entry: a copy that was read before a clear is marked as
straddling it. *LimitInv* bounds what each copy holds. The bytes of a cache are a
fold over its entries, so its value is proved first: as many units as the entries
have, one more or one fewer when an entry is added or dropped, whatever the order
the fold takes them in. With that, a least number of oldest entries exists without
which the rest fits, and what a write drops is those.

*ExportInv.* What an open capability keeps is the table that was declared, found
consistent with the library, or none; a handle that was given out passed the checks of
its lookup; and the outcome is that of the call the handle makes. That checked calls
mean what Lean means is then a fact about the slots' types, case by case: the
representation and ownership that the signature gives is the one the mirror decodes.
`ExportTypes` says that signatures, shapes and results are
those the model's constants enumerate.

*CallsInv.* The programs of methods are data, so what holds of a call half-way is
said of the steps it has left: `Formed` (it enters Lean under a bridge at most once,
ticks only inside, reports on this side only outside) and `Spaced` (every entry but
the first comes right after a look at the token; in the part a bulk method repeats,
`Tight`: the first too). They are proved of every method's program once and inherited
by its suffixes. Then at most one entry follows a cancellation, and an id is live
from its registration to its drop because the allocator skips ids in use.

*BulkInv.* A bulk method has four programs, chosen by token, sink and names: item by
item, one entry, an entry in which Lean ticks, one look-up for equal names. What has
been collected and ticked is told by what the program has *left*: the steps of a kind
are at k+1, ..., n in turn (`InTurn`), so the answers are those of the first k names,
or none yet before one entry that gives all; ticks are a count on this side, then one
of Lean's, in that order because reports come before ticks (`Before`); absent names are
looked for at each call or by a zip that comes after all answers. This is proved once
of the program each method starts with (`BulkStarts`, where the conditions overlap of
whichever is taken) and of the rest of it after every step. No induction over data is
needed: a fold is compared with a function of the index, never with a recursive
definition. `BulksFit`, its part about programs, also holds on the instance of
`child_side`; batches are assumed to be sequences.

*SessionsInv.* A thread between taking the import lock and giving it back is its
holder; only a holder registers extensions and stamps, so a stamp is the width
of its environment. The flag a holder set is up when it imports unless a header's
import cleared it since: `headerCleared` remembers for *which* threads, because one
that a header disturbed says nothing of the next.
A pool's accounts balance only when the import that is admitted and not yet
counted is included, which happens on four ways out. The registry holds exactly
the bridges of what is inside Lean: nothing is registered twice, nothing outlives
its call.

*PackageInv.* The lock of an entry has one holder (`LockInv`), so the entry stays empty
from the end of a removal to the rename. What a process has built is the directory its
first `written` writes leave, unless the sweep of another label's process took of it
(`BuildInv`); an entry is the whole directory of one request of its own, unless a
removal is under way or stopped, or a sweep came behind the rename (`EntryInv`). A warm
entry is that of another request with the same provenance, perhaps; that it has the files
*this* request generates is what `entry_matches` looks at, and that a manifest which the
policy refuses in it would be refused in the request's own directory too is a lemma about
data (`ManifestStays`), the last write of a file winning. Nothing is assumed of the payload nor of how requests of one owner
differ: where one lacks a sentinel, a manifest or a file that another generates, calls
are rejected, and the property says so.

*ArtifactsInv.* A key names a count and the newest stamp of the sources, not the sources;
that it names the library is an argument about time. Unless something happened that no
key can see (`unseen`), a source file is the one that was compiled or is younger than the
library (`ForwardInv`), and the key in the cache was scanned before the library was made.
A scan that equals that key finds nothing younger, so the sources are those compiled.
Dependencies go one way, `missing`, `bare`, `shims`, with the key's behind the library's and
those behind the project's: if the ends are equal, all are. For manifests, a library that
was replaced is younger than every manifest that describes it (`Faithful`). Stamps are
unique, and a manifest that has been replaced is never published again (`StampsInv`): a
loader whose second read equals its first held the same file all along, and what it
looked at in between was judged by that one (`LoaderInv`).

*BootInv.* `Foretold` reads off a builder and a place the code both operations will
come to, `Past` what each step has found good; as long as the place stays, what an
operation has passed and what check and open reported is that (`ForetellInv`). Cargo
changes the place under their hands: a lemma says that what it builds is found again
and changes neither. Whatever else changes, the worker has at each step what its
builder asked for up to there (`WorkerInv`). The parameters are limited by what they
are (`BootAssumption`): builders have a builder's fields and at most one metadata
expectation, settings a method's name, places the fields of a place.

*PlanMade.* A plan is what a project or a list of work items gives, so what is left
are facts about data. Names of batches join imports with commas: such a text is taken
apart at its last comma (`LastSeparator`), so that lists of names without commas are
told apart (`JoinedTells`, by the least prefix that is a counterexample). Roots can be
put in the order of their lengths (`SortedExists`, by the least cardinality that is one), so
the last root that holds a module is the longest. Assumed is that names are
sequences, directories finite and a comma no part of a valid name.

*WholeInv.* A session belongs to the child that is there, and an open handle is of it or
the session is gone (`SessionInv`), so an answer's key and generation are the handle's. A
verification's handler has not passed `verify` until Lean has decided (`DecidedInv`).
`FairOutcome` is what is asked of an outcome, proved of each way a call ends. That no
answer is unexpected is a fact about the two tables, `TableFits`: what the handlers
of a request may answer is what the method that sends it accepts.

### Only model-checked

- `CallsReturn`, and the violation of `DeadlinesBite`: liveness.
- `AnswersArrive` and `RequestsArrive`: computations over tables, finite once the tables are
  given, where a proof would repeat the run.

## 5. Known divergences

Where the code does not do what a sentence of the repository says. Those with a run
named in brackets are violated there; the others were reproduced in the model by removing
the exception a property makes.

*Supervisor and reuse*
- Once the deadline has passed the read loop computes no timeout and receives
  without one (`supervisor.rs:3226`, 3312; doc 30 line 341) [`supervisor_deadline`].
- The end of a child's stdout is taken for the child's end: its exit is awaited
  without a bound and without a kill (`supervisor.rs:3541`, 3586; doc 30 lines 300–301):
  `WaitsForEver`.
- After a sink panic the detached reader owns stdout, the stop path needs it and
  gives up before it kills: the drop leaves the child (`supervisor.rs:3648`; doc 30
  lines 221–223). `SinkPanics = FALSE` excludes it where a property speaks of the child.
- After a failed spawn the restart count runs ahead of the generation (3036), and
  `cycle()` revives an exhausted supervisor (1628, 2995).
- A verification that finds the child lost before anything was sent is answered
  `BudgetExceeded` like one that was sent.
- A handle stays open after a degraded verdict, an RSS kill or a failed restart,
  though the child has no session; it closes on a cancellation before dispatch,
  though the child's is intact. A row that does not decode cancels the caller's
  own token for good (`session.rs:1166`).

*Pool* (`pool.rs`)
- A leased command can be served by a generation its lease was not admitted for:
  the check precedes the policy restart inside the request (1203; doc 20 lines
  38–40, 58–59) [`pool_fences`]. `CommandsAreFenced` says how far that goes.
- The queue wait sleeps with the pool borrowed, so nothing can be released
  meanwhile (906); `cycle()` keeps the old RSS reading (1084); a replaced
  capability has a fresh restart window (750); with a request bound of one every
  leased command restarts the child (`supervisor.rs:2906`); `is_valid()` reads a flag
  that not every replacement clears (1048), but `ensure_valid` refuses the command.

*Builders and planning*
- The session key leaves out trusted exports, the worker child and its toolchain
  (it has the *parent's* fingerprint), timeouts, limits, and which custom policy it
  is, though `capability.rs:418–421` says builders that differ in lifecycle
  configuration do not share a worker. `KeysMeetSessions` is about sessions and metadata.
- A capability's `check()` opens no session when it has no imports and no
  metadata, though it says it validates session opening (`capability.rs:452–453`,
  `docs/diagnostics.md:129`); a host handle's does.
- A child that exits, or greets with another protocol version, is reported as
  `WorkerStartupFailed`; `WorkerHandshakeFailed` is the startup timeout only
  (`supervisor.rs:1467–1482`; `docs/diagnostics.md:138`).
- A descriptor with a dylib but no manifest is taken, and then built by Lake
  (`capability.rs:524–541`).
- Within the lean-rs tree its own debug build goes before a sibling, and `check`
  may run Cargo (1881–1891).
- Discovery may find the project in `<root>/lean`, and the planner keeps the
  configured root: the batches cannot be built (`modules.rs:244–256`,
  `planning.rs:317`). Batch names join imports by commas, unvalidated, and leave
  out the metadata. A `lakefile.lean` counts as a module where no library is declared.

*Host*
- A header's import takes no lock and clears the initializer flag of one that does
  (`InfoTree.lean:1878` against `session.rs:648–650`); `SessionsAreCurrent` names
  it as the only culprit.
- An import looks at its token only before the lock; a progress sink that imports
  waits for the lock its own thread holds.
- `SessionStats` does not count as documented with a token, for
  `name_to_string_bulk`, and for a failing all-equal call (`session.rs:187–190`).
- The sweep's remark that a recent entry is live (`host/pool.rs:517–521`) does not hold
  when another thread imports in between; an entry whose shims fail to resolve is
  dropped uncounted.
- The cached path of a query does not look at `initialMessages.hasErrors`, the
  uncached one does (`InfoTree.lean:2650`, 1884); a clear that a query straddles is
  undone by it (with several threads only).
- The reader of `DeclarationInspectionResult.unsupported` wants an object where
  Lean has a boxed scalar (`declaration_search.rs:676`). The shim never builds it:
  `ShimNeverBuilds` says so, and without it `AnswersArrive` fails.

*Exports*
- The manifest accepts a global of a scalar representation, and `call` reads its slot
  as an object pointer and copies that into the scalar, though a comment says Rust
  guarantees that both are pointer-sized (`exported.rs:558–572`; the recipe
  `ship-crate-with-lean.md:188` advises against such exports). `ScalarGlobal` in
  `CallsKeepMeaning`.
- `LeanIo` of a 64-bit number or a float asks only that the payload is a
  constructor (`scalar.rs:76`): a structure, or the other kind of box, is read as
  bits. `MisreadsPayload`.
- Globals are found in `.symtab` only (`library.rs:318–340`): in a stripped library
  a checked look-up of one is refused as another kind, an unchecked one takes it for
  a function; the preflight, which reads the dynamic symbols too, passes.
- The builder takes signatures that the loader refuses: duplicates, owned scalars,
  an IO result that is no object. The build succeeds and no open does.

*Tools*
- `clean_stale_temps` (`source_package.rs:506`) runs under the lock of one label and
  sweeps the temporary directories of all: another label's call, half-way, goes
  on in a directory it makes anew (555) and installs it incomplete, against
  “per-entry locking, atomic installation” (4–5) [`package_swept`].
- A process killed while it removes a stale entry (253, 532) leaves a part that a
  request accepts, as `entry_matches` looks at few files only (`cut`).
- A warm entry of an owner that lacks a file the request generates is an error, not
  a miss, for every later call (407–409), whether it was cut or another request's.
- The build cache's key cannot see renames, removals, dependencies that went back
  or changed during a build, nor a second toolchain: a hit may stamp a fingerprint
  on a library another toolchain compiled (`build_helpers.rs`; `unseen`).
- `from_build_manifest` reads the manifest again after the preflight and opens it
  unchecked (`lean-rs/src/module/capability.rs:133`), though `docs/diagnostics.md:60` says
  that opening runs the preflight: the exception of `LoadedFits`.
- A dependency without initializer is written with a null one
  (`build_helpers.rs:1279`), which the validator rejects as malformed
  (`manifest_validation.rs:255`) [`manifest_null`].

## 6. Not modelled

- Runtime initialisation, thread attachment, reference counts, raw bindings:
  memory-level code behind Lean's C API; a model would state what it assumes.
- The codec's bytes, JSON, numbers, strings and lists inside frames; clamps of
  limits and budgets in requests; error types and their texts.
- The size of the stdin and stderr pipes: a child that stops for them is a wedged
  child, which the model has; a parent that blocks while it writes is listed as a
  hazard without a property.
- What Lean computes: elaboration is a function of what it is given.
- Two `lake build` runs that overlap on one project (`build_helpers.rs:713`): Lake
  reads the sources and writes the library in one step. Scans, cache, stamps and
  manifests of two builders do interleave.
- Lean exports that break the callback contract (`ExportReturns`, section 2).
- Real time: a deadline is ahead, reached or passed; clocks are counters; an idle
  bound may have been reached at any check. RSS readings are choices.
- Toolchain discovery, linking, source fingerprints, the contents of lakefiles.
- Statistics, snapshots of counters and timings that nothing depends on.

## 7. Plan

Proof: every safety property of the runs is a theorem but `AnswersArrive` and
`RequestsArrive` (section 4).
Models next: typed commands' row decoding in `session.rs`, and bundles of several
capabilities.
