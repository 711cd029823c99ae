------------------------------ MODULE Artifacts ------------------------------
(***************************************************************************)
(* How a Lean capability is built and loaded: the build cache in front of   *)
(* Lake and the artifact manifest of lean-toolchain (build_helpers.rs), the *)
(* checks of a manifest (manifest_validation.rs, lean-rs preflight.rs) and   *)
(* the opening of what it names (capability.rs, bundle.rs).                  *)
(*                                                                         *)
(* Builders are build scripts, or openers of a worker capability, that share *)
(* one Lake project and one target; a loader is a process that opens the     *)
(* capability from a manifest.  They share files only.  People edit sources,  *)
(* change the dependencies and the default toolchain, and remove a dependency *)
(* library at any moment.  Every write of a file takes a new time stamp.      *)
(***************************************************************************)
EXTENDS Integers, FiniteSets

CONSTANTS
    Builders, Loaders,
    Files,          \* names a source file can have
    Options,        \* [exports, sysroot, quiet, explicit] a builder is given
    Tools,          \* Lean toolchains, by the digest of their header
    RuntimeTool,    \* the toolchain the Rust binaries were built with
    MaxBuilds,      \* builds of all builders together
    MaxOpens,       \* opens of one loader
    MaxChanges,     \* what people do to the project
    MaxBuildCrashes

ASSUME ArtifactsAssumption ==
    /\ RuntimeTool \in Tools /\ "ambient" \notin Tools /\ "none" \notin Tools
    /\ \A o \in Options : /\ o.sysroot \in Tools \cup {"ambient"}
                          /\ o.quiet \in BOOLEAN
                          /\ o.explicit \subseteq {"initialized", "plain"}
    /\ {MaxBuilds, MaxOpens, MaxChanges, MaxBuildCrashes} \subseteq Nat

VARIABLES
    clock,      \* the last time stamp
    src,        \* file -> stamp of its last edit, 0 if there is none
    deps,       \* lake-manifest.json: "missing", "bare", "shims"
    gone,       \* dependency libraries that were removed
    ambient,    \* the toolchain found without a sysroot
    dylib,      \* [from, deps, tool, mtime] of the shared library
    cache,      \* the key in the build cache's file, or a torn one
    manifest,   \* export set -> the published manifest
    build,      \* builder -> [pc, opt, tool, scan, deps, draft, result]
    load,       \* loader -> [pc, exports, checked, held, seen, result, got]:
                \* the manifest that was checked and the one that is opened, the
                \* library that was checked and the one that was opened
    builds, opens, changes, buildCrashes,
    unseen,     \* history: something has happened that a cache key cannot see
    sound,      \* history: export set -> nothing its manifest describes has
                \* changed since the build that published it looked at it
    settled     \* history: builder -> nothing has changed since its scan

project == <<src, deps, gone, ambient>>
history == <<unseen, sound, settled>>
counters == <<builds, opens, changes, buildCrashes>>
artifactVars == <<clock, project, dylib, cache, manifest, build, load, counters,
                  history>>

ExportSets == {o.exports : o \in Options}
Present    == {f \in Files : src[f] # 0}
Newest(S)  == CHOOSE t \in S \cup {0} : \A u \in S \cup {0} : u <= t

NoDylib    == [from |-> [f \in Files |-> 0], deps |-> "missing",
               tool |-> "none", mtime |-> 0]
NoManifest == [tool |-> "none", libs |-> {}, whole |-> FALSE, mtime |-> 0,
               exact |-> FALSE]
Written(m) == m # NoManifest

-----------------------------------------------------------------------------
(* The build cache.                                                        *)

\* scan_source_set: how many files there are and the newest time stamp
Scanned == <<Cardinality(Present), Newest({src[f] : f \in Present})>>

\* cache_key: the dependencies stand for the digest of lake-manifest.json
CacheKey(o, manifestDeps, scan) == <<manifestDeps, scan, o.sysroot>>

\* Mutant: the default toolchain is recorded by its name
SelectedByName(o) == o.sysroot

\* the toolchain of discover_options, and of the lake command
Selected(o) == IF o.sysroot = "ambient" THEN ambient ELSE o.sysroot

\* manifest_toolchain_fingerprint: without discovery it is this crate's own
Fingerprint(o, tool) ==
    IF o.quiet /\ o.sysroot = "ambient" THEN RuntimeTool ELSE tool

\* capability_dependencies and the caller's own
Libraries(o) == (IF deps = "shims" THEN {"shims"} ELSE {}) \cup o.explicit

\* dependencies_from_manifest: a dependency without initializer is written
\* with a null one, which is not read back
Readable(m) == m.whole /\ "plain" \notin m.libs

Idle == [pc |-> "idle", opt |-> CHOOSE o \in Options : TRUE, tool |-> "none",
         scan |-> <<0, 0>>, deps |-> "missing", draft |-> NoManifest,
         result |-> "none"]
Free == [pc |-> "idle", exports |-> CHOOSE e \in ExportSets : TRUE,
         checked |-> NoManifest, held |-> NoManifest, seen |-> NoDylib,
         result |-> "none", got |-> NoDylib]

ArtifactsInit ==
    /\ clock = 1
    /\ \E f \in Files : src = [g \in Files |-> IF g = f THEN 1 ELSE 0]
    /\ deps \in {"missing", "bare"}
    /\ gone = {}
    /\ ambient = RuntimeTool
    /\ dylib = NoDylib
    /\ cache = <<"none">>
    /\ manifest = [e \in ExportSets |-> NoManifest]
    /\ build = [b \in Builders |-> Idle]
    /\ load = [l \in Loaders |-> Free]
    /\ builds = 0 /\ opens = 0 /\ changes = 0 /\ buildCrashes = 0
    /\ unseen = FALSE
    /\ sound = [e \in ExportSets |-> FALSE]
    /\ settled = [b \in Builders |-> FALSE]

-----------------------------------------------------------------------------
(* Builders.                                                               *)

Step(b, pc) == build' = [build EXCEPT ![b].pc = pc]
End(b, how) == build' = [build EXCEPT ![b].pc = "idle", ![b].result = how]

\* what other builders had found no longer stands
Unsettle(b)  == settled' = [c \in Builders |-> c = b /\ settled[c]]
NothingSound == sound' = [e \in ExportSets |-> FALSE]

\* build_with_runner up to the cache: discovery, lake-manifest.json, sources
Scan(b, o) ==
    /\ build[b].pc = "idle" /\ builds < MaxBuilds
    /\ builds' = builds + 1
    /\ build' = [build EXCEPT ![b] = [Idle EXCEPT !.pc = "probe", !.opt = o,
                    !.tool = Selected(o), !.scan = Scanned, !.deps = deps]]
    /\ settled' = [settled EXCEPT ![b] = TRUE]
    /\ UNCHANGED <<clock, project, dylib, cache, manifest, load, opens, changes,
                   buildCrashes, unseen, sound>>

Matches(b) ==
    dylib # NoDylib /\ cache = CacheKey(build[b].opt, build[b].deps, build[b].scan)

\* a hit skips Lake, and is finished like a miss
Probe(b) ==
    /\ build[b].pc = "probe"
    /\ Step(b, IF Matches(b) THEN "stamp" ELSE "lake")
    /\ UNCHANGED <<clock, project, dylib, cache, manifest, load, counters, history>>

\* lake build (external): the library is rewritten if it is not up to date, and a
\* lake-manifest.json is made where there is none.  Lake runs as one step, so two
\* overlapping runs of it, and its own locking, are not in this model
LakeOutput(b) ==
    [from |-> src, deps |-> IF deps = "missing" THEN "bare" ELSE deps,
     tool |-> Selected(build[b].opt), mtime |-> clock + 1]

Lake(b) ==
    /\ build[b].pc = "lake"
    /\ LET new == LakeOutput(b)
       IN  IF [new EXCEPT !.mtime = dylib.mtime] = dylib
           THEN UNCHANGED <<clock, dylib, unseen, sound, settled>>
           ELSE /\ dylib' = new
                /\ clock' = clock + 1
                /\ unseen' = (unseen \/ dylib.tool \notin {"none", new.tool})
                /\ NothingSound /\ Unsettle(b)
    /\ deps' = IF deps = "missing" THEN "bare" ELSE deps
    /\ Step(b, "cache")
    /\ UNCHANGED <<src, gone, ambient, cache, manifest, load, counters>>

\* Mutant: the sources are scanned again
WriteCacheRescanned(b) ==
    /\ build[b].pc = "cache"
    /\ cache' = CacheKey(build[b].opt, deps, Scanned)
    /\ unseen' = (unseen \/ deps # dylib.deps)
    /\ Unsettle(b)
    /\ Step(b, "stamp")
    /\ UNCHANGED <<clock, project, dylib, manifest, load, counters, sound>>

\* Mutant: the key that was looked up is the key that is written
WriteCacheAsProbed(b) ==
    /\ build[b].pc = "cache"
    /\ cache' = CacheKey(build[b].opt, build[b].deps, build[b].scan)
    /\ unseen' = (unseen \/ deps # dylib.deps)
    /\ Unsettle(b)
    /\ Step(b, "stamp")
    /\ UNCHANGED <<clock, project, dylib, manifest, load, counters, sound>>

\* the key of lake-manifest.json as Lake left it and of the sources before it
WriteCache(b) ==
    /\ build[b].pc = "cache"
    /\ cache' = CacheKey(build[b].opt, deps, build[b].scan)
    /\ unseen' = (unseen \/ deps # dylib.deps)
    /\ Unsettle(b)
    /\ Step(b, "stamp")
    /\ UNCHANGED <<clock, project, dylib, manifest, load, counters, sound>>

\* Mutant: the manifest is written in place
StampInPlace(b) ==
    /\ build[b].pc = "stamp"
    /\ clock' = clock + 1
    /\ LET o == build[b].opt
           tool == Fingerprint(o, build[b].tool)
           m == [tool |-> tool, libs |-> Libraries(o), whole |-> TRUE,
                 mtime |-> clock + 1, exact |-> tool = dylib.tool]
       IN  /\ build' = [build EXCEPT ![b].pc = "rename", ![b].draft = m]
           /\ manifest' = [manifest EXCEPT ![o.exports] = [m EXCEPT !.whole = FALSE]]
    /\ UNCHANGED <<project, dylib, cache, load, counters, history>>

\* finish: the manifest goes to a temporary file
Stamp(b) ==
    /\ build[b].pc = "stamp"
    /\ clock' = clock + 1
    /\ LET o == build[b].opt
           tool == Fingerprint(o, build[b].tool)
       IN  build' = [build EXCEPT ![b].pc = "rename", ![b].draft =
                        [tool |-> tool, libs |-> Libraries(o), whole |-> TRUE,
                         mtime |-> clock + 1, exact |-> tool = dylib.tool]]
    /\ UNCHANGED <<project, dylib, cache, manifest, load, counters, history>>

\* ... and is renamed
Publish(b) ==
    /\ build[b].pc = "rename"
    /\ LET e == build[b].opt.exports
       IN  /\ manifest' = [manifest EXCEPT ![e] = build[b].draft]
           /\ sound' = [sound EXCEPT ![e] = settled[b] /\ gone = {} /\ ~unseen]
    /\ End(b, "built")
    /\ UNCHANGED <<clock, project, dylib, cache, load, counters, unseen, settled>>

\* a cache file that was being written may be cut short
CacheCutShort(b) ==
    \/ UNCHANGED <<cache, settled>>
    \/ build[b].pc = "cache" /\ cache' = <<"torn">> /\ Unsettle(b)

\* Lake or a write fails
BuildFails(b) ==
    /\ build[b].pc \notin {"idle", "probe"}
    /\ CacheCutShort(b)
    /\ End(b, "failed")
    /\ UNCHANGED <<clock, project, dylib, manifest, load, counters, unseen, sound>>

\* the process dies
BuilderCrash(b) ==
    /\ build[b].pc # "idle" /\ buildCrashes < MaxBuildCrashes
    /\ buildCrashes' = buildCrashes + 1
    /\ CacheCutShort(b)
    /\ End(b, "crashed")
    /\ UNCHANGED <<clock, project, dylib, manifest, load, builds, opens, changes,
                   unseen, sound>>

-----------------------------------------------------------------------------
(* People.                                                                 *)

ProjectChange ==
    /\ changes < MaxChanges /\ changes' = changes + 1
    /\ settled' = [b \in Builders |-> FALSE]
    /\ UNCHANGED <<dylib, cache, manifest, build, load, builds, opens, buildCrashes>>

\* a file is edited or created
Edit(f) ==
    /\ ProjectChange
    /\ clock' = clock + 1
    /\ src' = [src EXCEPT ![f] = clock + 1]
    /\ UNCHANGED <<deps, gone, ambient, unseen, sound>>

\* a file is renamed, or removed (g = f): time stamps do not change
Move(f, g) ==
    /\ src[f] # 0 /\ (g = f \/ src[g] = 0)
    /\ ProjectChange
    /\ src' = [src EXCEPT ![g] = src[f], ![f] = 0]
    /\ unseen' = TRUE
    /\ UNCHANGED <<clock, deps, gone, ambient, sound>>

\* lake update, or its reversal
UpdateDeps ==
    /\ deps # "missing"
    /\ ProjectChange
    /\ deps' = IF deps = "bare" THEN "shims" ELSE "bare"
    /\ unseen' = (unseen \/ deps = "shims")
    /\ NothingSound
    /\ UNCHANGED <<clock, src, gone, ambient>>

\* the default toolchain changes
SwitchTool(t) ==
    /\ t # ambient
    /\ ProjectChange
    /\ ambient' = t
    /\ unseen' = TRUE
    /\ UNCHANGED <<clock, src, deps, gone, sound>>

\* a dependency's library is removed
RemoveLibrary(d) ==
    /\ d \notin gone
    /\ ProjectChange
    /\ gone' = gone \cup {d}
    /\ NothingSound
    /\ UNCHANGED <<clock, src, deps, ambient, unseen>>

-----------------------------------------------------------------------------
(* Loaders.                                                                *)

Refuse(l, how) == load' = [load EXCEPT ![l].pc = "idle", ![l].result = how]

WhileLoading ==
    UNCHANGED <<clock, project, dylib, cache, manifest, build, builds, changes,
                buildCrashes, unseen, sound, settled>>

\* Mutant: an old manifest is as good as a new one
StaleNever(e) == FALSE

\* check_fingerprint, check_staleness: of the manifest that was read, and of
\* the files as they are when they are looked at
Fits(m)     == m.tool = RuntimeTool
Stale(e)    == Written(manifest[e]) /\ dylib.mtime > manifest[e].mtime
Missing(m)  == m.libs \cap gone

\* the artifacts: libraries there, primary there, its imports provided
Sound(m) ==
    /\ Missing(m) = {}
    /\ dylib # NoDylib
    /\ dylib.deps = "shims" => "shims" \in m.libs

\* LeanRuntimePreflight::check reads the manifest
Open(l, e) ==
    /\ load[l].pc = "idle" /\ opens < MaxOpens
    /\ opens' = opens + 1
    /\ LET m == manifest[e]
           start == [Free EXCEPT !.exports = e, !.checked = m, !.held = m]
       IN  load' = [load EXCEPT ![l] =
                IF Written(m) /\ Readable(m) THEN [start EXCEPT !.pc = "check"]
                ELSE [start EXCEPT !.result =
                        IF Written(m) THEN "malformed" ELSE "missing"]]
    /\ WhileLoading

\* its checks; all must pass
Check(l) ==
    /\ load[l].pc = "check"
    /\ LET m == load[l].held
           e == load[l].exports
       IN  IF Fits(m) /\ ~Stale(e) /\ Sound(m)
           THEN load' = [load EXCEPT ![l].pc = "reread", ![l].seen = dylib]
           ELSE Refuse(l, "refused")
    /\ UNCHANGED opens
    /\ WhileLoading

\* from_build_manifest reads the manifest again
Reread(l) ==
    /\ load[l].pc = "reread"
    /\ LET m == manifest[load[l].exports]
       IN  load' = IF Readable(m)
                   THEN [load EXCEPT ![l].held = m, ![l].pc = "load"]
                   ELSE [load EXCEPT ![l].held = m, ![l].pc = "idle",
                                     ![l].result = "malformed"]
    /\ UNCHANGED opens
    /\ WhileLoading

\* LeanLibraryBundle::open: the dependencies in order, then the primary, then
\* its initializer, which needs the symbols it imports
LoadBundle(l) ==
    /\ load[l].pc = "load"
    /\ IF Sound(load[l].held)
       THEN load' = [load EXCEPT ![l].pc = "idle", ![l].result = "loaded",
                                 ![l].got = dylib]
       ELSE Refuse(l, "refused")
    /\ UNCHANGED opens
    /\ WhileLoading

ArtifactsNext ==
    \/ \E b \in Builders :
        \/ \E o \in Options : Scan(b, o)
        \/ Probe(b) \/ Lake(b) \/ BuildFails(b) \/ WriteCache(b)
        \/ Stamp(b) \/ Publish(b) \/ BuilderCrash(b)
    \/ \E l \in Loaders :
        \/ \E e \in ExportSets : Open(l, e)
        \/ Check(l) \/ Reread(l) \/ LoadBundle(l)
    \/ \E f \in Files : Edit(f) \/ \E g \in Files : Move(f, g)
    \/ UpdateDeps
    \/ \E t \in Tools : SwitchTool(t)
    \/ \E d \in {"shims", "initialized", "plain"} : RemoveLibrary(d)

ArtifactsSpec == ArtifactsInit /\ [][ArtifactsNext]_artifactVars

-----------------------------------------------------------------------------
(* Properties.                                                             *)

(* Every variable keeps its type, and time stamps are not in the future.    *)
ArtifactsTypeOK ==
    /\ src \in [Files -> 0 .. clock] /\ dylib.mtime \in 0 .. clock
    /\ deps \in {"missing", "bare", "shims"} /\ ambient \in Tools
    /\ dylib.tool \in Tools \cup {"none"}
    /\ \A b \in Builders :
        /\ build[b].pc \in {"idle", "probe", "lake", "cache", "stamp", "rename"}
        /\ build[b].result \in {"none", "built", "failed", "crashed"}
        /\ build[b].pc # "idle" => build[b].tool \in Tools
    /\ \A l \in Loaders :
        /\ load[l].pc \in {"idle", "check", "reread", "load"}
        /\ load[l].result \in {"none", "missing", "malformed", "refused", "loaded"}
    /\ \A e \in ExportSets : manifest[e].mtime \in 0 .. clock

(* A cache hit returns a library that was compiled from the sources and the *)
(* dependencies the call looked at, with the toolchain it was given, however *)
(* edits, failed builds, crashes and other builders interleave.  What a key  *)
(* cannot see is excepted: a file renamed or removed, dependencies that went *)
(* back or changed behind Lake's back, a second toolchain (cache_key).       *)
HitIsCurrent ==
    \A b \in Builders :
        build[b].pc = "probe" /\ settled[b] /\ Matches(b)
        => \/ unseen
           \/ /\ dylib.from = src /\ dylib.deps = deps
              /\ dylib.tool = build[b].tool

(* A build that was not disturbed leaves a cache that the next build of the *)
(* same options hits: nothing is rebuilt that has not changed.              *)
RebuildsOnChange ==
    \A b \in Builders :
        build[b].result = "built" /\ settled[b]
        => cache = CacheKey(build[b].opt, deps, Scanned) /\ dylib # NoDylib

(* The cache saves the builds it can, and no other; no variable leaves its  *)
(* type.                                                                    *)
CacheIsHonest == ArtifactsTypeOK /\ HitIsCurrent /\ RebuildsOnChange

(* A loader that opens the manifest and the library it has checked opens a   *)
(* library compiled with the toolchain of its runtime, however old manifests, *)
(* new libraries, other builders and crashes meet: a library that was        *)
(* replaced since is younger than its manifest (check_staleness).  Excepted  *)
(* are a manifest published between the check and the second read, which     *)
(* nobody checks; a library replaced between the check and the opening; and  *)
(* a manifest that names another toolchain than the library had when it was   *)
(* written, which happens where a cache hit or a second builder hands a       *)
(* build a library of another toolchain, or where no toolchain was discovered. *)
LoadedFits ==
    \A l \in Loaders :
        /\ load[l].result = "loaded"
        /\ load[l].held = load[l].checked /\ load[l].got = load[l].seen
        => ~load[l].held.exact \/ load[l].got.tool = RuntimeTool

(* A loader that is refused was not refused for the manifest that is          *)
(* published, if that still describes the project (sound: its build saw no     *)
(* change from its scan on, nothing that a cache key cannot see had happened,   *)
(* and since then no library was rebuilt or removed and no dependency changed): *)
(* it had read an earlier one, or the published one names another toolchain    *)
(* than the runtime's or a dependency without initializer.  So what is         *)
(* published is whole at any moment, and builds and crashes that leave the     *)
(* library alone stand in nobody's way.                                        *)
PublishedOpens ==
    [][\A l \in Loaders :
        LET e == load'[l].exports
        IN  /\ load'[l] # load[l]
            /\ load'[l].result \in {"missing", "malformed", "refused"}
            => \/ ~sound[e] \/ load'[l].held # manifest[e]
               \/ manifest[e].tool # RuntimeTool
               \/ "plain" \in manifest[e].libs]_artifactVars

(* What loads fits, and what is published loads.                            *)
ManifestsServe == []LoadedFits /\ PublishedOpens

(* A manifest that a build has written whole can be read by its loader: the    *)
(* initializer of a dependency is optional (loader.rs, build_helpers.rs).      *)
(* False: a dependency without one is written with a null initializer, which   *)
(* dependencies_from_manifest takes for a malformed one.                       *)
WrittenIsReadable ==
    \A e \in ExportSets : manifest[e].whole => Readable(manifest[e])
=============================================================================
