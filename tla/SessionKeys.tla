----------------------------- MODULE SessionKeys -----------------------------
(***************************************************************************)
(* The builders of lean-rs-worker-parent/src/capability.rs and the session *)
(* keys of pool.rs: what a builder holds, what each of its methods         *)
(* changes, which session it will ask the child for, and the key under     *)
(* which the pool looks for a worker that already has that session.        *)
(***************************************************************************)
EXTENDS Naturals, Sequences, FiniteSets

CONSTANTS
  Canonical,     \* canonicalize: directory name -> what it resolves to
  DefaultPolicy  \* LeanWorkerRestartPolicy::default()

\* An absent value is the empty set, and a present one a singleton.
None == {}
Some(x) == {x}
OrElse(option, x) == IF option = None THEN x ELSE CHOOSE y \in option : TRUE

-----------------------------------------------------------------------------
(* Locators of the worker child                                            *)

\* by: its name beside this executable, "default" or another, or a "path".
Locator(by) == [by |-> by, env |-> FALSE, sysroot |-> FALSE]
DefaultLocator == [Locator("default") EXCEPT !.env = TRUE]
ForToolchain == [Locator("path") EXCEPT !.sysroot = TRUE]

-----------------------------------------------------------------------------
(* Builders                                                                *)

\* What limits a worker, by the name of the method that sets it.
Limits == {"startup_timeout", "request_timeout", "shutdown_timeout", "rss_hard_limit",
           "module_cache_limits", "num_threads", "lean_max_memory_kib", "max_frame_bytes"}
AtLeastOne(x) == IF x = 0 THEN 1 ELSE x

Builder(kind, root, target, imports) ==
  [kind |-> kind, root |-> root, workspace |-> None, manifest |-> None,
   target |-> target, imports |-> imports, profile |-> "full",
   locator |-> None, policy |-> None, capacity |-> None,
   limits |-> [l \in Limits |-> None],
   metadata |-> None, exports |-> None]

\* LeanWorkerCapabilityBuilder::new and LeanWorkerHostHandleBuilder::shims_only.
CapabilityBuilder(root, target, imports) == Builder("capability", root, target, imports)
HostBuilder(root, imports) == Builder("host", root, "none", imports)

\* from_built_capability.  A manifest names package, module and dylib; a
\* descriptor without one must say them itself, and its dylib is not loaded:
\* the builder goes to Lake.  The project is where .lake/build/lib lies.  A
\* descriptor that cannot be read makes no builder.
FromBuilt(spec, imports) ==
  [Builder("capability", spec.root, spec.target, imports) EXCEPT !.manifest = spec.manifest]

\* normalize_import_workspace_root: a path that does not resolve stays as it is.
Normalized(root) == IF root \in DOMAIN Canonical THEN Canonical[root] ELSE root
\* A manifest is a file, named by its project and target.
Manifest(m) == <<Normalized(m[1]), m[2]>>

-----------------------------------------------------------------------------
(* Methods that configure a builder                                        *)

Setting(name, value) == [name |-> name, value |-> value]

\* The signatures a builder trusts: the first of a symbol wins.
AddExport(b, symbol, shape) ==
  IF \E e \in b.exports : e.symbol = symbol THEN b
  ELSE [b EXCEPT !.exports = @ \cup {[symbol |-> symbol, shape |-> shape]}]

\* Only these are methods of the host handle's builder too.
SharedSettings == {"worker_child", "import_profile", "restart_policy",
                   "session_pool_capacity"} \cup Limits

\* rss_hard_limit and session_pool_capacity are at least one.
Clamped(s) ==
  IF s.name \in {"rss_hard_limit", "session_pool_capacity"} THEN AtLeastOne(s.value) ELSE s.value

Configured(b, s) ==
  CASE s.name \in Limits -> [b EXCEPT !.limits[s.name] = Some(Clamped(s))]
    [] s.name = "worker_child" -> [b EXCEPT !.locator = Some(s.value)]
    [] s.name = "import_profile" -> [b EXCEPT !.profile = s.value]
    [] s.name = "restart_policy" -> [b EXCEPT !.policy = Some(s.value)]
    [] s.name = "session_pool_capacity" -> [b EXCEPT !.capacity = Some(Clamped(s))]
    [] s.name = "import_workspace_root" -> [b EXCEPT !.workspace = Some(Normalized(s.value))]
    [] s.name = "expect_metadata" ->
         [AddExport(b, s.value.export, "metadata") EXCEPT !.metadata = Some(s.value)]
    [] s.name = "json_command_export" -> AddExport(b, s.value, "json_command")

-----------------------------------------------------------------------------
(* The session key                                                         *)

\* LeanWorkerSessionKey::new
NewKey(root, target, imports) ==
  [root |-> Normalized(root), workspace |-> Normalized(root), manifest |-> None,
   target |-> target, imports |-> imports, profile |-> "full",
   metadata |-> None, class |-> "Default"]

\* The class of a builder's restart policy; a pool capacity makes it custom.
PolicyClass(policy, capacity) ==
  IF capacity # None THEN "Custom"
  ELSE IF policy \in {None, Some(DefaultPolicy)} THEN "Default" ELSE "Custom"

\* effective_import_workspace_root
Workspace(b) == OrElse(b.workspace, Normalized(b.root))

\* Mutant: the target workspace is left out of the key.
KeyOfCapability(b) ==
  [NewKey(b.root, b.target, b.imports) EXCEPT
     !.profile = b.profile,
     !.class = PolicyClass(b.policy, b.capacity),
     !.manifest = {Manifest(m) : m \in b.manifest}, !.metadata = b.metadata]

\* session_key
SessionKey(b) ==
  [NewKey(b.root, b.target, b.imports) EXCEPT
     !.profile = b.profile, !.workspace = Workspace(b),
     !.class = PolicyClass(b.policy, b.capacity),
     !.manifest = {Manifest(m) : m \in b.manifest}, !.metadata = b.metadata]

-----------------------------------------------------------------------------
(* The session                                                             *)

\* LeanWorkerSessionConfig::manifest_backed and ::shims_only, as the child
\* will read them: a path means what it resolves to, and Lake writes the
\* manifest of a target below the project's own directory.
SessionConfig(b) ==
  [workspace |-> IF b.kind = "host" THEN Normalized(b.root) ELSE Workspace(b),
   capability |-> CASE b.kind = "host" -> None
                    [] b.manifest # None -> {Manifest(m) : m \in b.manifest}
                    [] OTHER -> Some(Manifest(<<b.root, b.target>>)),
   target |-> b.target, imports |-> b.imports, profile |-> b.profile]
=============================================================================
