--------------------------- MODULE CapabilityOpen ---------------------------
(***************************************************************************)
(* From a builder to a handle: LeanWorkerCapabilityBuilder and             *)
(* LeanWorkerHostHandleBuilder of lean-rs-worker-parent/src/capability.rs, *)
(* the bootstrap report that is to tell beforehand whether an open will    *)
(* succeed, the locator of the worker child, and what an open does to the  *)
(* child.  A place is what a deployment offers: files, Lake, the child's   *)
(* behaviour.  It may change while an operation runs.                      *)
(***************************************************************************)
EXTENDS ImportPlanning

CONSTANTS
  Starts,    \* builders that a caller begins with
  Settings,  \* what it may configure: a set of Setting(name, value)
  Plans,     \* plans it may ask for: sets of [config, site]
  WorkPlans, \* plans of work items of its own: sets of [config, works]
  Places,    \* deployments
  MaxSettings \* bound: calls of configuring methods per builder

VARIABLES
  step,      \* what happens next
  op,        \* "none", "check", "open"
  plan,      \* the plan just made: its configuration, works and result
  builder, settings,
  place, changed,  \* the deployment; has it changed since the last check began
  checks,    \* codes of the static findings
  worker,    \* the child of the operation: its limits and path, and session
  checked,   \* what the last check reported
  opened,    \* outcome of the last open
  pooled     \* the builder of a worker that is kept, and what it validated

bootVars == <<step, op, plan, builder, settings, place, changed, checks,
              worker, checked, opened, pooled>>

NoBuilder == Builder("none", "none", "none", <<>>)
NoSite == [supported |-> FALSE]
NoPlan == [config |-> NoBuilder, site |-> NoSite, works |-> {},
           result |-> [error |-> "none", batches |-> {}]]
NoPlace == [nowhere |-> TRUE]
NoWorker == [up |-> FALSE]
NoPool == [builder |-> NoBuilder, worker |-> NoWorker]

\* A builder: a kind, limits by name, and the fields of SessionKeys' Builder.
IsBuilder(b) ==
  /\ DOMAIN b = DOMAIN NoBuilder
  /\ b.kind \in {"capability", "host"}
  /\ b.limits = [l \in Limits |-> b.limits[l]]
  /\ \A m, n \in b.metadata : m = n

-----------------------------------------------------------------------------
(* The worker child                                                        *)

Spots == {"variable", "explicit", "sibling", "profile", "debug", "release"}
FileStates == {"absent", "plain", "executable"}

\* A deployment: the files at the spots, an environment variable that names
\* one, the lean-rs tree and Cargo, a toolchain, Lake, a manifest, the child.
PlaceType ==
  [files : [Spots -> FileStates], variable : BOOLEAN, tree : BOOLEAN, cargo : BOOLEAN,
   toolchain : BOOLEAN, lake : BOOLEAN, manifest : {"good", "bad"},
   child : {"shakes", "mute", "exits", "aborts", "foreign"}, healthy : BOOLEAN,
   opens : BOOLEAN, metadata : {p.metadata : p \in Places}]

\* A directory has finitely many libraries and sources.
IsDirectory(d) ==
  IsFiniteSet(d.libs) /\ IsFiniteSet(d.sources) /\ \A n \in d.libs \cup d.sources : IsList(n)

ASSUME BootAssumption ==
  /\ MaxSettings \in Nat
  /\ \A b \in Starts : IsBuilder(b)
  /\ \A s \in Settings :
       s.name \in SharedSettings \cup {"import_workspace_root", "expect_metadata",
                                      "json_command_export"}
  /\ Places \subseteq PlaceType
  /\ \A q \in Plans \cup WorkPlans : \A m, n \in q.config.metadata : m = n
  /\ \A q \in Plans : AreNames(q.config.imports) /\ IsDirectory(q.site.here) /\ IsDirectory(q.site.lean)
  /\ \A q \in WorkPlans : \A w \in q.works : AreNames(w.imports)

IsFile(p, path) == p.files[path] # "absent"

\* candidate_sibling_worker_paths and dedup_paths: beside this executable,
\* then beside its profile's directory.
Candidates == <<"sibling", "profile">>

\* Mutant: a variable that names no file is passed over.
ResolvedPastEnv(locator, p) ==
  LET found == {i \in 1..2 : IsFile(p, Candidates[i])}
  IN IF locator.env /\ p.variable /\ IsFile(p, "variable") THEN "variable"
     ELSE IF locator.by = "path" THEN "explicit"
     ELSE IF found # {} THEN Candidates[CHOOSE i \in found : \A j \in found : i <= j]
     ELSE "none"

\* try_build_workspace_worker_child: within the lean-rs tree, the debug
\* binary, else the release one, else Cargo is asked for the debug one.
InTree(p) ==
  IF ~p.tree THEN "none"
  ELSE IF IsFile(p, "debug") THEN "debug"
  ELSE IF IsFile(p, "release") THEN "release"
  ELSE IF p.cargo THEN "debug" ELSE "none"

\* LeanWorkerChild::resolve: a set variable decides alone, and a path is
\* taken as it is; the tree's own binary goes before a sibling.
Resolved(locator, p) ==
  LET found == {i \in 1..2 : IsFile(p, Candidates[i])}
  IN IF locator.env /\ p.variable THEN IF IsFile(p, "variable") THEN "variable" ELSE "none"
     ELSE IF locator.by = "path" THEN "explicit"
     ELSE IF locator.by = "default" /\ InTree(p) # "none" THEN InTree(p)
     ELSE IF found # {} THEN Candidates[CHOOSE i \in found : \A j \in found : i <= j]
     ELSE "none"

\* Cargo leaves the binary behind.
AfterResolve(locator, p) ==
  IF Resolved(locator, p) = "debug" THEN [p EXCEPT !.files["debug"] =
       IF @ = "absent" THEN "executable" ELSE @]
  ELSE p

\* validate_worker_child_path, of what resolve gave.
ChildErrors(locator, p) ==
  LET path == Resolved(locator, p)
  IN IF path = "none" THEN {"WorkerChildUnresolved"}
     ELSE IF AfterResolve(locator, p).files[path] # "executable" THEN {"WorkerChildNotExecutable"}
     ELSE {}

LocatorOf(b) == OrElse(b.locator, DefaultLocator)

\* resolve_lean_sysroot
SysrootErrors(b, p) == IF LocatorOf(b).sysroot \/ p.toolchain THEN {} ELSE {"Setup"}

\* LeanWorker::spawn: a child that ends before its handshake, or whose first
\* frame is none, is killed; whether it was gone already decides the error.
SpawnErrors(p) ==
  CASE p.child = "shakes" -> {}
    [] p.child = "mute"   -> {"StartupTimeout"}
    [] p.child = "exits"  -> {"ChildExited", "ChildPanicOrAbort"}
    [] p.child \in {"aborts", "foreign"} -> {"ChildPanicOrAbort"}

\* Mutant: two of the timeouts change places in the call.
ArgumentsSwapped(b) ==
  LET l == b.limits
  IN <<l["startup_timeout"], l["shutdown_timeout"], l["request_timeout"], l["rss_hard_limit"],
       l["module_cache_limits"], l["max_frame_bytes"], l["num_threads"], l["lean_max_memory_kib"]>>

\* The limits are handed to spawn_checked_worker by position, three of them
\* of one type; those not set keep their default.
Arguments(b) ==
  LET l == b.limits
  IN <<l["startup_timeout"], l["request_timeout"], l["shutdown_timeout"], l["rss_hard_limit"],
       l["module_cache_limits"], l["max_frame_bytes"], l["num_threads"], l["lean_max_memory_kib"]>>
WorkerLimits(a) ==
  [startup_timeout |-> a[1], request_timeout |-> a[2], shutdown_timeout |-> a[3],
   rss_hard_limit |-> a[4], module_cache_limits |-> a[5], max_frame_bytes |-> a[6],
   num_threads |-> a[7], lean_max_memory_kib |-> a[8]]

-----------------------------------------------------------------------------
(* The report                                                              *)

\* check_from_open_error
Code(error) ==
  CASE error \in {"WorkerChildUnresolved", "WorkerChildNotExecutable", "Preflight",
                  "CapabilityMetadataMismatch"} -> error
    [] error \in {"Handshake", "StartupTimeout"} -> "WorkerHandshakeFailed"
    [] OTHER -> "WorkerStartupFailed"

\* bootstrap_static_checks: the child, and the preflight of a manifest.
StaticChecks(b, p) ==
  ChildErrors(LocatorOf(b), p)
  \cup (IF b.kind = "capability" /\ b.manifest # None /\ p.manifest # "good"
        THEN {"Preflight"} ELSE {})

\* Of the findings, those on the child come first.
FirstCode(errors) ==
  IF errors = {"Preflight"} THEN "Preflight" ELSE CHOOSE e \in errors : e # "Preflight"

-----------------------------------------------------------------------------
(* Choosing a builder                                                      *)

BootInit ==
  /\ step = "choose" /\ op = "none" /\ plan = NoPlan
  /\ builder = NoBuilder /\ settings = 0
  /\ place = NoPlace /\ changed = FALSE /\ checks = {}
  /\ worker = NoWorker /\ checked = "none" /\ opened = "none" /\ pooled = NoPool

ChooseBuilder ==
  /\ step = "choose" /\ builder' \in Starts
  /\ step' = "ready"
  /\ UNCHANGED <<op, plan, settings, place, changed, checks, worker, checked, opened, pooled>>

\* plan_lake_project and plan_work_items.
MakePlan ==
  /\ step = "choose" /\ pooled = NoPool
  /\ \/ \E q \in Plans :
          plan' = [config |-> q.config, site |-> q.site,
                   works |-> DescribedWork(q.config, Discovered(q.site, q.config.roots).modules),
                   result |-> PlanProject(q.config, q.site)]
     \/ \E q \in WorkPlans :
          plan' = [config |-> q.config, site |-> NoSite, works |-> q.works,
                   result |-> PlanWork(q.config, q.works)]
  /\ step' = "planned"
  /\ UNCHANGED <<op, builder, settings, place, changed, checks, worker, checked, opened, pooled>>

\* The builder of one of the batches, or no plan after all.
TakeBatch ==
  /\ step = "planned" /\ plan' = NoPlan
  /\ \/ \E batch \in plan.result.batches :
          builder' = BatchBuilder(plan.config, batch) /\ step' = "ready"
     \/ plan.result.batches = {} /\ step' = "choose" /\ UNCHANGED builder
  /\ UNCHANGED <<op, settings, place, changed, checks, worker, checked, opened, pooled>>

\* A method of the builder, before it is checked or opened.
Configure ==
  /\ step = "ready" /\ settings < MaxSettings /\ place = NoPlace
  /\ \E s \in Settings :
       /\ builder.kind = "host" => s.name \in SharedSettings
       /\ builder' = Configured(builder, s)
  /\ settings' = settings + 1
  /\ UNCHANGED <<step, op, plan, place, changed, checks, worker, checked, opened, pooled>>

-----------------------------------------------------------------------------
(* check and open                                                          *)

\* check borrows the builder and may be made again; open consumes it.
Begin(o) ==
  /\ step = "ready" /\ op = "none" /\ opened = "none"
  /\ pooled = NoPool /\ (o = "check" => checked = "none")
  /\ IF place = NoPlace THEN place' \in Places ELSE UNCHANGED place
  /\ op' = o /\ step' = "static" /\ checks' = {}
  /\ UNCHANGED <<plan, builder, settings, changed, worker, checked, opened, pooled>>

\* The operation ends.  What it still holds of a worker is dropped, and the
\* drop stops the child; the handle of an open that succeeds has it.
Ends(outcome) ==
  /\ step' = "ready" /\ op' = "none"
  /\ IF op = "check"
     THEN checked' = (IF outcome = "ok" THEN "ok" ELSE Code(outcome)) /\ UNCHANGED opened
     ELSE opened' = outcome /\ UNCHANGED checked

Fails(error) == Ends(error) /\ worker' = NoWorker

\* Mutant: a check without static findings goes no further.
StaticSuffices ==
  /\ step = "static"
  /\ checks' = StaticChecks(builder, place)
  /\ place' = AfterResolve(LocatorOf(builder), place)
  /\ IF checks' # {} THEN Fails(FirstCode(checks'))
     ELSE IF op = "check" THEN Fails("ok")
     ELSE step' = (IF builder.kind = "capability" THEN "artifact" ELSE "spawn")
          /\ UNCHANGED <<op, checked, opened, worker>>
  /\ UNCHANGED <<plan, builder, settings, changed, pooled>>

\* open reports its first static finding as an error of that code, so that
\* neither goes further.
Static ==
  /\ step = "static"
  /\ checks' = StaticChecks(builder, place)
  /\ place' = AfterResolve(LocatorOf(builder), place)
  /\ IF checks' # {} THEN Fails(FirstCode(checks'))
     ELSE step' = (IF builder.kind = "capability" THEN "artifact" ELSE "spawn")
          /\ UNCHANGED <<op, checked, opened, worker>>
  /\ UNCHANGED <<plan, builder, settings, changed, pooled>>

\* open_unchecked: without a manifest the target is built, whether or not
\* there is a dylib.
Artifact ==
  /\ step = "artifact"
  /\ IF builder.manifest = None /\ ~place.lake THEN Fails("CapabilityBuild")
     ELSE step' = "spawn" /\ UNCHANGED <<op, checked, opened, worker>>
  /\ UNCHANGED <<plan, builder, settings, place, changed, checks, pooled>>

\* spawn_checked_worker: resolved and validated once more, then spawned.
Spawn ==
  /\ step = "spawn"
  /\ LET locator == LocatorOf(builder)
         errors == IF ChildErrors(locator, place) # {} THEN ChildErrors(locator, place)
                   ELSE IF SysrootErrors(builder, place) # {} THEN SysrootErrors(builder, place)
                   ELSE SpawnErrors(place)
     IN /\ place' = AfterResolve(locator, place)
        /\ IF errors # {} THEN \E e \in errors : Fails(e)
           ELSE /\ worker' = [up |-> TRUE, path |-> Resolved(locator, place),
                              limits |-> WorkerLimits(Arguments(builder)), session |-> None,
                              imports |-> 0, metadata |-> None]
                /\ step' = "health" /\ UNCHANGED <<op, checked, opened>>
  /\ UNCHANGED <<plan, builder, settings, changed, checks, pooled>>

\* Mutant: a session is opened whether or not there is a use for it.
WantsAny(b) == TRUE

\* Does an open open a session: for the imports it was given, or to read
\* metadata from it.
Wants(b) == b.imports # <<>> \/ b.metadata # None

Health ==
  /\ step = "health"
  /\ IF ~place.healthy THEN Fails("Worker")
     ELSE /\ step' = IF Wants(builder) THEN "session" ELSE "done"
          /\ UNCHANGED <<op, checked, opened, worker>>
  /\ UNCHANGED <<plan, builder, settings, place, changed, checks, pooled>>

\* The session's import, which the child charges to its budget when it works.
OpenSession ==
  /\ step = "session"
  /\ IF ~place.opens THEN Fails("Worker")
     ELSE /\ worker' = [worker EXCEPT !.session = Some(SessionConfig(builder)), !.imports = @ + 1]
          /\ step' = IF builder.metadata # None THEN "metadata" ELSE "done"
          /\ UNCHANGED <<op, checked, opened>>
  /\ UNCHANGED <<plan, builder, settings, place, changed, checks, pooled>>

\* capability_metadata, and its comparison with what is expected.
Metadata ==
  /\ step = "metadata"
  /\ LET expected == OrElse(builder.metadata, "none").expected
     IN IF place.metadata = "none" THEN Fails("Worker")
        ELSE IF expected \notin {None, Some(place.metadata)}
        THEN Fails("CapabilityMetadataMismatch")
        ELSE /\ worker' = [worker EXCEPT !.metadata = Some(place.metadata)]
             /\ step' = "done" /\ UNCHANGED <<op, checked, opened>>
  /\ UNCHANGED <<plan, builder, settings, place, changed, checks, pooled>>

\* Mutant: the check of a host handle opens no session either.
CheckNeedsNone(b) == FALSE

\* A host handle's check opens a session, also one that its open would not.
CheckOpens(b) == b.kind = "host"

\* The handle is there.  A check shuts it down.
Done ==
  /\ step = "done"
  /\ IF op = "check"
     THEN IF CheckOpens(builder) /\ ~place.opens THEN Fails("Worker")
          ELSE Ends("ok") /\ worker' = NoWorker
     ELSE Ends("ok") /\ UNCHANGED worker
  /\ UNCHANGED <<plan, builder, settings, place, changed, checks, pooled>>

\* Files come and go, and what they do changes.
Turns(p) ==
  {[p EXCEPT !.files[s] = f] : s \in Spots, f \in FileStates}
  \cup {[p EXCEPT !.manifest = m] : m \in {"good", "bad"}}
  \cup {[p EXCEPT !.child = c] : c \in {"shakes", "aborts"}}
  \cup {[p EXCEPT !.opens = ~@], [p EXCEPT !.lake = ~@]}

\* Once, while check or open run.
Change ==
  /\ op # "none" /\ ~changed
  /\ place' \in Turns(place) \ {place} /\ changed' = TRUE
  /\ UNCHANGED <<step, op, plan, builder, settings, checks, worker, checked, opened, pooled>>

\* The pool keeps the worker of a capability under its key, and the next
\* caller comes with a builder of its own.
Pool ==
  /\ step = "ready" /\ opened = "ok" /\ builder.kind = "capability" /\ pooled = NoPool
  /\ pooled' = [builder |-> builder, worker |-> worker]
  /\ step' = "choose" /\ builder' = NoBuilder /\ settings' = 0
  /\ place' = NoPlace /\ changed' = FALSE /\ checks' = {}
  /\ worker' = NoWorker /\ checked' = "none" /\ opened' = "none"
  /\ UNCHANGED <<op, plan>>

BootNext ==
  \/ ChooseBuilder \/ MakePlan \/ TakeBatch \/ Configure
  \/ \E o \in {"check", "open"} : Begin(o)
  \/ Static \/ Artifact \/ Spawn \/ Health \/ OpenSession \/ Metadata \/ Done
  \/ Change \/ Pool

-----------------------------------------------------------------------------
(* Properties                                                              *)

\* Every variable keeps its type, and an operation has a place to run in.
BootTypeOK ==
  /\ step \in {"choose", "planned", "ready", "static", "artifact", "spawn", "health",
               "session", "metadata", "done"}
  /\ op \in {"none", "check", "open"} /\ settings \in 0..MaxSettings
  /\ op # "none" => place # NoPlace /\ builder # NoBuilder
  /\ worker.up => worker.imports \in 0..1 /\ worker.path \in Spots
  /\ changed \in BOOLEAN /\ checks \subseteq {"WorkerChildUnresolved", "WorkerChildNotExecutable",
                                             "Preflight"}

\* A bootstrap check tells how the open will go as long as the deployment
\* stays as it was: of a capability exactly, code included; a host handle's
\* is never more hopeful than its open, and stricter only on a session that
\* the open does not need but the next call will.
CheckForetellsOpen ==
  op = "none" /\ checked # "none" /\ opened # "none" /\ ~changed =>
    /\ opened # "ok" => checked = Code(opened)
    /\ opened = "ok" => checked = "ok" \/ (builder.kind = "host" /\ ~Wants(builder))
    /\ opened = "ok" /\ builder.kind = "host" => (checked = "ok" <=> place.opens)

\* A check, and an open that fails, leave no child, whatever changed
\* meanwhile; a child that stays has the limits that were asked for, a
\* session if it was given imports or metadata to read, by one import, else
\* none, and metadata that is what was expected.  A variable that names a
\* child is never passed over.
OpensAsAsked ==
  op = "none" =>
    /\ worker.up <=> opened = "ok"
    /\ worker.up =>
         /\ worker.limits = builder.limits
         /\ worker.session = IF builder.imports # <<>> \/ builder.metadata # None
                             THEN Some(SessionConfig(builder)) ELSE None
         /\ worker.imports = Cardinality(worker.session)
         /\ \A m \in builder.metadata : worker.metadata # None /\ m.expected \in {None, worker.metadata}
         /\ LocatorOf(builder).env /\ place.variable => worker.path = "variable"

\* A worker opened under an equal key serves the session that a builder
\* would ask for, and has validated the metadata that it expects.
EqualKeysServe ==
  step = "ready" /\ pooled # NoPool /\ builder.kind = "capability"
    /\ SessionKey(builder) = SessionKey(pooled.builder) =>
      /\ SessionConfig(builder) = SessionConfig(pooled.builder)
      /\ pooled.worker.session \in {None, Some(SessionConfig(builder))}
      /\ pooled.worker.session = None => ~Wants(builder)
      /\ \A m \in builder.metadata : m.expected \in {None, pooled.worker.metadata}

\* The key that a planned batch carries is the one its own builder has, so
\* that the pool finds for the batch what was opened for it.
PlannedKeysHold ==
  \A batch \in plan.result.batches : batch.key = SessionKey(BatchBuilder(plan.config, batch))

\* A plan is a partition: every work item is in one batch, with its own
\* root and imports, and batches have names of their own if the imports
\* are module names.
PlansPartition ==
  /\ plan.result.error = "none" =>
       \A w \in plan.works : Cardinality({b \in plan.result.batches : w \in b.works}) = 1
  /\ \A b \in plan.result.batches :
       /\ b.works # {} /\ b.works \subseteq plan.works
       /\ \A w \in b.works : w.source = b.group.source /\ w.imports = b.group.imports
       /\ \A c \in plan.result.batches :
            (\A n \in {b.group.imports[i] : i \in DOMAIN b.group.imports}
                   \cup {c.group.imports[i] : i \in DOMAIN c.group.imports} : ValidName(n))
              => (b.name = c.name => b = c)

\* Where libraries nest and no roots are selected, a module is planned under
\* the innermost of those that hold it.
InnermostRoot ==
  plan.result.batches # {} /\ plan.site # NoSite /\ plan.config.roots = None =>
    \A w \in plan.works : \A lib \in ModuleRoots(plan.site[LakeRoot(plan.site)]) :
      Below(lib, w.module) => Len(lib) <= Len(w.source)

KeysMeetSessions == EqualKeysServe /\ PlannedKeysHold /\ PlansPartition /\ InnermostRoot
=============================================================================
