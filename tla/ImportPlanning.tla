--------------------------- MODULE ImportPlanning ---------------------------
(***************************************************************************)
(* Which modules a Lake project has (lean-toolchain/src/modules.rs) and    *)
(* how they are put into batches of one session each                       *)
(* (lean-rs-worker-parent/src/planning.rs).                                *)
(*                                                                         *)
(* A module name is the sequence of its components, and a source file is   *)
(* named by the module it holds.  A site is what lies at the requested     *)
(* directory and in its subdirectory lean: for each, the lakefile, the     *)
(* libraries it declares and the sources.                                  *)
(***************************************************************************)
EXTENDS SessionKeys, SequencesExt

CONSTANT BadParts  \* components that validate_module_name refuses

\* A comma is neither letter nor digit, underscore nor prime.
Comma == ","
ASSUME PlanningAssumption == Comma \in BadParts

\* Names, and lists of names, are sequences.
IsList(s) == s \in Seq({s[i] : i \in DOMAIN s})
AreNames(names) == IsList(names) /\ \A i \in DOMAIN names : IsList(names[i])

\* validate_module_name, of either crate.
ValidName(n) == n # <<>> /\ \A i \in DOMAIN n : n[i] \notin BadParts

-----------------------------------------------------------------------------
(* Discovery                                                               *)

NoModules == [n \in {} |-> n]
NotFound(error) == [error |-> error, root |-> "none", declared |-> {}, modules |-> NoModules]

\* lake_root_for: the directory itself, or its subdirectory lean.
LakeRoot(site) ==
  IF site.here.lakefile # "none" THEN "here"
  ELSE IF site.lean.lakefile # "none" THEN "lean" ELSE "none"

\* discover_top_level_roots: every source there, a lakefile.lean included.
TopLevel(dir) ==
  {n \in dir.sources : Len(n) = 1}
  \cup (IF dir.lakefile = "lean" THEN {<<"lakefile">>} ELSE {})

\* discover_module_roots
ModuleRoots(dir) == IF dir.libs # {} THEN dir.libs ELSE TopLevel(dir)

\* module_root_exists: a file of that name, or a directory with something in it.
Below(root, n) == IsPrefix(root, n)
RootExists(dir, root) == \E n \in dir.sources \cup TopLevel(dir) : Below(root, n)

\* Sorted by name, so that a root comes before the roots below it; how
\* unrelated roots are ordered makes no difference.
Sorted(roots) == CHOOSE s \in [1..Cardinality(roots) -> roots] :
  \A i, j \in DOMAIN s : i < j => s[i] # s[j] /\ Len(s[i]) <= Len(s[j])

\* Mutant: a module stays with the first root that has it.
FirstRoot(n, roots) == roots[CHOOSE i \in DOMAIN roots :
  Below(roots[i], n) /\ \A j \in 1..(i - 1) : ~Below(roots[j], n)]

\* The root that a module is listed under: each root enters what it has into
\* one map, and the last one stays.
SourceRoot(n, roots) == roots[CHOOSE i \in DOMAIN roots :
  Below(roots[i], n) /\ \A j \in DOMAIN roots : j > i => ~Below(roots[j], n)]

\* enumerate_sources and collect_sources
SourcesOf(dir, roots) ==
  {n \in dir.sources \cup TopLevel(dir) : \E i \in DOMAIN roots : Below(roots[i], n)}

\* The first selected root that is refused, and why.
RefusedRoot(dir, roots) ==
  LET bad(i) == ~ValidName(roots[i]) \/ ~RootExists(dir, roots[i])
      first == CHOOSE i \in DOMAIN roots : bad(i) /\ \A j \in 1..(i - 1) : ~bad(j)
  IN IF \A i \in DOMAIN roots : ~bad(i) THEN "none"
     ELSE IF ValidName(roots[first]) THEN "MissingModuleRoot" ELSE "InvalidModuleName"

\* discover_lake_modules; selected is None or the roots in the caller's order.
Discovered(site, selected) ==
  LET where == LakeRoot(site)
      dir   == site[where]
      roots == OrElse(selected, Sorted(ModuleRoots(dir)))
      found == SourcesOf(dir, roots)
  IN IF ~site.supported THEN NotFound("UnsupportedToolchain")
     ELSE IF where = "none" THEN NotFound("MissingLakeRoot")
     ELSE IF dir.lakefile = "unreadable" THEN NotFound("Io")
     ELSE IF \E n \in ModuleRoots(dir) : ~ValidName(n) THEN NotFound("InvalidModuleName")
     ELSE IF RefusedRoot(dir, roots) # "none" THEN NotFound(RefusedRoot(dir, roots))
     ELSE IF \E n \in found : ~ValidName(n) THEN NotFound("InvalidModuleName")
     ELSE [error |-> "none", root |-> where, declared |-> dir.libs,
           modules |-> [n \in found |-> SourceRoot(n, roots)]]

-----------------------------------------------------------------------------
(* Planning                                                                *)

Work(module, source, imports) == [module |-> module, source |-> source, imports |-> imports]

\* Mutant: a policy that spells out the defaults counts as a custom one.
ClassBySetting(policy) == IF policy = None THEN "Default" ELSE "Custom"

\* restart_policy_class, the planner's own.
PlannerClass(policy) == IF policy \in {None, Some(DefaultPolicy)} THEN "Default" ELSE "Custom"

\* Mutant: work is grouped by root, under the imports that are configured.
GroupByRoot(c, w) ==
  [source |-> w.source, imports |-> c.imports, root |-> c.root, target |-> c.target,
   profile |-> c.profile, class |-> PlannerClass(c.policy)]

\* What the batches of a plan share is in its configuration: root, target,
\* base imports, profile, metadata expectation and policy.
GroupKey(c, w) ==
  [source |-> w.source, imports |-> w.imports, root |-> c.root, target |-> c.target,
   profile |-> c.profile, class |-> PlannerClass(c.policy)]

\* Mutant: the planner's copy of the key does without the metadata.
PlainKey(c, g) ==
  [NewKey(g.root, g.target, g.imports) EXCEPT !.profile = g.profile, !.class = g.class]

\* The key a batch is given, written out once more in plan_work_items.
PlannedKey(c, g) ==
  [NewKey(g.root, g.target, g.imports) EXCEPT
     !.profile = g.profile, !.class = g.class, !.metadata = c.metadata]

\* batch_key_string: import names are joined by commas.
Joined(names) ==
  LET text[i \in 0..Len(names)] == IF i = 0 THEN <<>> ELSE text[i - 1] \o <<Comma>> \o names[i]
  IN text[Len(names)]
BatchKey(g, works) == <<g.root, g.target, g.source, Joined(g.imports), g.profile, g.class,
                        {w.module : w \in works}>>

Batch(c, g, works) ==
  [group |-> g, key |-> PlannedKey(c, g), works |-> works, name |-> BatchKey(g, works)]

\* plan_work_items: a set of batches; their order and that of the modules in
\* them are left out.
PlanWork(c, works) ==
  IF \E w \in works : ~ValidName(w.module) \/ ~ValidName(w.source)
  THEN [error |-> "InvalidModuleName", batches |-> {}]
  ELSE [error |-> "none",
        batches |-> {Batch(c, g, {w \in works : GroupKey(c, w) = g})
                     : g \in {GroupKey(c, w) : w \in works}}]

\* plan_discovered
DescribedWork(c, modules) == {Work(n, modules[n], c.imports) : n \in DOMAIN modules}

\* plan_lake_project: the target must be one that the lakefile declares.
PlanProject(c, site) ==
  LET found == Discovered(site, c.roots)
  IN IF found.error # "none" THEN [error |-> found.error, batches |-> {}]
     ELSE IF <<c.target>> \notin found.declared
     THEN [error |-> "UnresolvedCapabilityTarget", batches |-> {}]
     ELSE PlanWork(c, DescribedWork(c, found.modules))

\* capability_builder of a batch.
BatchBuilder(c, batch) ==
  LET g == batch.group
      b == [CapabilityBuilder(g.root, g.target, g.imports) EXCEPT
              !.profile = g.profile, !.policy = c.policy]
  IN IF c.metadata = None THEN b
     ELSE Configured(b, Setting("expect_metadata", OrElse(c.metadata, "none")))
=============================================================================
