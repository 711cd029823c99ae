------------------------- MODULE WorkerHandles_proofs -------------------------
(***************************************************************************)
(* TLAPS proofs about WorkerHandles, for any builders, settings, plans,    *)
(* deployments and ways these change, methods, targets and session keys.   *)
(*                                                                         *)
(* A check and an open take the same steps at the same place, so that both *)
(* come to the code that can be read off the builder and the place alone;  *)
(* the worker an open leaves behind is what was built step by step for its *)
(* builder; and what a call through the handle answers was computed in the *)
(* session the handle was opened for.                                      *)
(***************************************************************************)
EXTENDS WorkerHandles, FiniteSetTheorems, SequenceTheorems, TLAPS

-----------------------------------------------------------------------------
(* Builders                                                                *)

BuilderFields ==
  {"kind", "root", "workspace", "manifest", "target", "imports", "profile", "locator",
   "policy", "capacity", "limits", "metadata", "exports"}

LEMMA NoBuilderFields == DOMAIN NoBuilder = BuilderFields
BY DEF NoBuilder, Builder, BuilderFields

LEMMA NoBuilderIsNone == ~IsBuilder(NoBuilder)
BY DEF IsBuilder, NoBuilder, Builder

\* Only one of the fields changes.
LEMMA ExportAdded ==
  ASSUME NEW b, IsBuilder(b), NEW symbol, NEW shape
  PROVE  IsBuilder(AddExport(b, symbol, shape))
<1>1. DOMAIN b = BuilderFields
  BY NoBuilderFields DEF IsBuilder
<1>2. CASE AddExport(b, symbol, shape) = b
  BY <1>2
<1>3. CASE AddExport(b, symbol, shape) # b
  <2> DEFINE e == b.exports \cup {[symbol |-> symbol, shape |-> shape]}
             c == [b EXCEPT !.exports = e]
  <2>1. AddExport(b, symbol, shape) = c
    BY <1>3 DEF AddExport
  <2> HIDE DEF e
  <2>2. DOMAIN c = BuilderFields /\ c.kind = b.kind /\ c.limits = b.limits
        /\ c.metadata = b.metadata
    BY <1>1 DEF BuilderFields
  <2> HIDE DEF c
  <2>3. QED
    BY <2>1, <2>2, NoBuilderFields DEF IsBuilder
<1>4. QED
  BY <1>2, <1>3

LEMMA LimitSet ==
  ASSUME NEW b, IsBuilder(b), NEW l \in Limits, NEW v
  PROVE  IsBuilder([b EXCEPT !.limits[l] = v])
<1> DEFINE g == [b.limits EXCEPT ![l] = v]
           c == [b EXCEPT !.limits = g]
<1>1. DOMAIN b = BuilderFields /\ b.limits = [k \in Limits |-> b.limits[k]]
  BY NoBuilderFields DEF IsBuilder
<1>2. g = [k \in Limits |-> g[k]]
  <2>1. PICK f : f = b.limits
    OBVIOUS
  <2>2. f = [k \in Limits |-> f[k]] /\ g = [f EXCEPT ![l] = v]
    BY <1>1, <2>1
  <2>3. [f EXCEPT ![l] = v] = [k \in Limits |-> [f EXCEPT ![l] = v][k]]
    BY <2>2
  <2>4. QED
    BY <2>2, <2>3
<1>3. [b EXCEPT !.limits[l] = v] = c
  BY <1>1 DEF BuilderFields
<1> HIDE DEF g
<1>4. DOMAIN c = BuilderFields /\ c.kind = b.kind /\ c.limits = g /\ c.metadata = b.metadata
  BY <1>1 DEF BuilderFields
<1> HIDE DEF c
<1>5. QED
  BY <1>2, <1>3, <1>4, NoBuilderFields DEF IsBuilder

SettingNames ==
  SharedSettings \cup {"import_workspace_root", "expect_metadata", "json_command_export"}

LEMMA PlainFieldSet ==
  ASSUME NEW b, IsBuilder(b), NEW v,
         NEW f \in {"locator", "profile", "policy", "capacity", "workspace"}
  PROVE  IsBuilder([b EXCEPT ![f] = v])
<1> DEFINE c == [b EXCEPT ![f] = v]
<1>1. DOMAIN b = BuilderFields
  BY NoBuilderFields DEF IsBuilder
<1>2. DOMAIN c = BuilderFields /\ c.kind = b.kind /\ c.limits = b.limits
      /\ c.metadata = b.metadata
  BY <1>1 DEF BuilderFields
<1> HIDE DEF c
<1>3. IsBuilder(c)
  BY <1>2, NoBuilderFields DEF IsBuilder
<1>4. QED
  BY <1>3 DEF c

\* The methods of a builder return a builder.
LEMMA ConfiguredType ==
  ASSUME NEW b, IsBuilder(b), NEW s, s.name \in SettingNames
  PROVE  IsBuilder(Configured(b, s))
<1>1. CASE s.name \in Limits
  <2>1. PICK l, v : l = s.name /\ v = Some(Clamped(s))
    OBVIOUS
  <2>2. IsBuilder([b EXCEPT !.limits[l] = v])
    BY <1>1, <2>1, LimitSet
  <2>3. Configured(b, s) = [b EXCEPT !.limits[l] = v]
    <3>1. Configured(b, s) = [b EXCEPT !.limits[s.name] = Some(Clamped(s))]
      BY <1>1 DEF Configured, Limits
    <3>2. QED
      BY <2>1, <3>1
  <2>4. QED
    BY <2>2, <2>3
<1>2. CASE s.name \in {"worker_child", "import_profile", "restart_policy",
                       "session_pool_capacity", "import_workspace_root"}
  BY <1>2, PlainFieldSet DEF Configured, Limits
<1>3. CASE s.name = "expect_metadata"
  <2> DEFINE a == AddExport(b, s.value.export, "metadata")
             c == [a EXCEPT !.metadata = Some(s.value)]
  <2>1. IsBuilder(a)
    BY ExportAdded
  <2> HIDE DEF a
  <2>2. DOMAIN a = BuilderFields
    BY <2>1, NoBuilderFields DEF IsBuilder
  <2>3. DOMAIN c = BuilderFields /\ c.kind = a.kind /\ c.limits = a.limits
        /\ c.metadata = Some(s.value)
    BY <2>2 DEF BuilderFields
  <2>4. Configured(b, s) = c
    BY <1>3 DEF Configured, Limits, a
  <2> HIDE DEF c
  <2>5. QED
    BY <2>1, <2>3, <2>4, NoBuilderFields DEF IsBuilder, Some
<1>4. CASE s.name = "json_command_export"
  BY <1>4, ExportAdded DEF Configured, Limits
<1>5. QED
  BY <1>1, <1>2, <1>3, <1>4 DEF SettingNames, SharedSettings

\* So does a batch.
LEMMA BatchBuilderType ==
  ASSUME NEW c, NEW batch
  PROVE  IsBuilder(BatchBuilder(c, batch))
<1> DEFINE g == batch.group
           a == CapabilityBuilder(g.root, g.target, g.imports)
           b == [a EXCEPT !.profile = g.profile, !.policy = c.policy]
<1>1. DOMAIN a = BuilderFields /\ a.kind = "capability" /\ a.metadata = {}
      /\ a.limits = [l \in Limits |-> {}]
  BY DEF CapabilityBuilder, Builder, BuilderFields, None
<1> HIDE DEF a
<1>2. IsBuilder(a)
  BY <1>1, NoBuilderFields DEF IsBuilder
<1>3. IsBuilder(b)
  <2>1. DOMAIN b = BuilderFields /\ b.kind = a.kind /\ b.limits = a.limits
        /\ b.metadata = a.metadata
    BY <1>1 DEF BuilderFields
  <2> HIDE DEF b
  <2>2. QED
    BY <1>2, <2>1, NoBuilderFields DEF IsBuilder
<1> HIDE DEF b
<1>4. IsBuilder(Configured(b, Setting("expect_metadata", OrElse(c.metadata, "none"))))
  BY <1>3, ConfiguredType DEF Setting, SettingNames
<1>5. QED
  BY <1>3, <1>4 DEF BatchBuilder, a, b

-----------------------------------------------------------------------------
(* The worker child's locator                                              *)

LEMMA InTreeType ==
  ASSUME NEW p PROVE InTree(p) \in {"none", "debug", "release"}
BY DEF InTree

\* The candidate that is there, and comes first.
LEMMA FirstCandidate ==
  ASSUME NEW found \in SUBSET (1..2), found # {}
  PROVE  Candidates[CHOOSE i \in found : \A j \in found : i <= j] \in {"sibling", "profile"}
<1>1. \E i \in found : \A j \in found : i <= j
  <2>1. CASE 1 \in found
    <3>1. \A j \in found : 1 <= j
      OBVIOUS
    <3>2. QED
      BY <2>1, <3>1
  <2>2. CASE 1 \notin found
    <3>1. \A j \in found : j = 2
      BY <2>2
    <3>2. PICK i \in found : i = 2
      BY <3>1
    <3>3. \A j \in found : i <= j
      BY <3>1, <3>2
    <3>4. QED
      BY <3>3
  <2>3. QED
    BY <2>1, <2>2
<1>2. PICK k : k = CHOOSE i \in found : \A j \in found : i <= j
  OBVIOUS
<1>3. k \in found
  BY <1>1, <1>2
<1>4. k = 1 \/ k = 2
  BY <1>3
<1>5. Candidates[k] \in {"sibling", "profile"}
  BY <1>4 DEF Candidates
<1>6. QED
  BY <1>2, <1>5, Zenon

LEMMA ResolvedType ==
  ASSUME NEW l, NEW p
  PROVE  Resolved(l, p) \in Spots \cup {"none"}
<1> DEFINE found == {i \in 1..2 : IsFile(p, Candidates[i])}
           first == CHOOSE i \in found : \A j \in found : i <= j
<1>1. found # {} => Candidates[first] \in {"sibling", "profile"}
  <2>1. found \in SUBSET (1..2)
    OBVIOUS
  <2> HIDE DEF found
  <2>2. QED
    BY <2>1, FirstCandidate
<1>2. Resolved(l, p) =
        IF l.env /\ p.variable THEN IF IsFile(p, "variable") THEN "variable" ELSE "none"
        ELSE IF l.by = "path" THEN "explicit"
        ELSE IF l.by = "default" /\ InTree(p) # "none" THEN InTree(p)
        ELSE IF found # {} THEN Candidates[first]
        ELSE "none"
  BY DEF Resolved
<1> HIDE DEF found, first
<1>3. QED
  BY <1>1, <1>2, InTreeType DEF Spots

\* What Cargo leaves behind changes one file only, from absent, ...
LEMMA AfterResolveIs ==
  ASSUME NEW l, NEW p \in PlaceType
  PROVE  LET q == AfterResolve(l, p)
         IN  /\ q \in PlaceType
             /\ \A f \in {"variable", "tree", "cargo", "toolchain", "lake", "manifest",
                          "child", "healthy", "opens", "metadata"} : q[f] = p[f]
             /\ \A s \in Spots \ {"debug"} : q.files[s] = p.files[s]
             /\ Resolved(l, p) # "debug" => q = p
             /\ p.files["debug"] # "absent" => q = p
             /\ Resolved(l, p) = "debug" => q.files["debug"] # "absent"
<1> DEFINE q == AfterResolve(l, p)
<1>1. CASE Resolved(l, p) # "debug"
  BY <1>1 DEF AfterResolve
<1>2. CASE Resolved(l, p) = "debug"
  <2> DEFINE v == IF p.files["debug"] = "absent" THEN "executable" ELSE p.files["debug"]
             g == [p.files EXCEPT !["debug"] = v]
  <2>1. q = [p EXCEPT !.files = g]
    BY <1>2 DEF AfterResolve, PlaceType
  <2>2. p.files \in [Spots -> FileStates]
    BY DEF PlaceType
  <2>3. v \in FileStates /\ v # "absent"
    BY <2>2 DEF FileStates, Spots
  <2> HIDE DEF v
  <2>4. /\ g \in [Spots -> FileStates] /\ g["debug"] = v
        /\ \A s \in Spots \ {"debug"} : g[s] = p.files[s]
    BY <2>2, <2>3 DEF Spots
  <2>5. p.files["debug"] # "absent" => g = p.files
    BY <2>2 DEF v, Spots
  <2> HIDE DEF g, q
  <2>6. /\ q \in PlaceType /\ q.files = g
        /\ \A f \in {"variable", "tree", "cargo", "toolchain", "lake", "manifest",
                     "child", "healthy", "opens", "metadata"} : q[f] = p[f]
    BY <2>1, <2>4 DEF PlaceType
  <2>7. g = p.files => q = p
    BY <2>1 DEF PlaceType
  <2>8. QED
    BY <1>2, <2>3, <2>4, <2>5, <2>6, <2>7 DEF q
<1>3. QED
  BY <1>1, <1>2

\* ... and the same child is found again.
LEMMA ResolveStable ==
  ASSUME NEW l, NEW p \in PlaceType
  PROVE  LET q == AfterResolve(l, p)
         IN  Resolved(l, q) = Resolved(l, p) /\ AfterResolve(l, q) = q
<1> DEFINE q == AfterResolve(l, p)
<1>1. /\ q \in PlaceType
      /\ \A f \in {"variable", "tree", "cargo", "toolchain", "lake", "manifest",
                   "child", "healthy", "opens", "metadata"} : q[f] = p[f]
      /\ \A s \in Spots \ {"debug"} : q.files[s] = p.files[s]
      /\ Resolved(l, p) # "debug" => q = p
      /\ Resolved(l, p) = "debug" => q.files["debug"] # "absent"
  BY AfterResolveIs
<1>2. CASE Resolved(l, p) # "debug"
  BY <1>1, <1>2
<1>3. CASE Resolved(l, p) = "debug"
  <2>1. ~(l.env /\ p.variable) /\ l.by # "path" /\ l.by = "default" /\ p.tree
    <3> DEFINE found == {i \in 1..2 : IsFile(p, Candidates[i])}
               first == CHOOSE i \in found : \A j \in found : i <= j
    <3>1. found # {} => Candidates[first] \in {"sibling", "profile"}
      <4>1. found \in SUBSET (1..2)
        OBVIOUS
      <4> HIDE DEF found
      <4>2. QED
        BY <4>1, FirstCandidate
    <3>2. Resolved(l, p) =
            IF l.env /\ p.variable THEN IF IsFile(p, "variable") THEN "variable" ELSE "none"
            ELSE IF l.by = "path" THEN "explicit"
            ELSE IF l.by = "default" /\ InTree(p) # "none" THEN InTree(p)
            ELSE IF found # {} THEN Candidates[first]
            ELSE "none"
      BY DEF Resolved
    <3> HIDE DEF found, first
    <3>3. QED
      BY <1>3, <3>1, <3>2 DEF InTree
  <2>2. q.variable = p.variable /\ q.tree
    BY <1>1, <2>1
  <2>3. InTree(q) = "debug"
    BY <1>1, <1>3, <2>2 DEF InTree, IsFile
  <2>4. Resolved(l, q) = "debug"
    BY <2>1, <2>2, <2>3 DEF Resolved
  <2>5. AfterResolve(l, q) = q
    BY <1>1, <1>3, AfterResolveIs
  <2>6. QED
    BY <1>3, <2>4, <2>5
<1>4. QED
  BY <1>2, <1>3

LEMMA StaticStable ==
  ASSUME NEW b, NEW l, NEW p \in PlaceType, l = LocatorOf(b)
  PROVE  /\ ChildErrors(l, AfterResolve(l, p)) = ChildErrors(l, p)
         /\ StaticChecks(b, AfterResolve(l, p)) = StaticChecks(b, p)
<1>1. ChildErrors(l, AfterResolve(l, p)) = ChildErrors(l, p)
  BY ResolveStable DEF ChildErrors
<1>2. AfterResolve(l, p).manifest = p.manifest
  BY AfterResolveIs
<1>3. QED
  BY <1>1, <1>2 DEF StaticChecks

Finding == {"WorkerChildUnresolved", "WorkerChildNotExecutable", "Preflight"}

LEMMA StaticType ==
  ASSUME NEW b, NEW p
  PROVE  /\ StaticChecks(b, p) \subseteq Finding
         /\ StaticChecks(b, p) # {} =>
              /\ FirstCode(StaticChecks(b, p)) \in Finding
              /\ Code(FirstCode(StaticChecks(b, p))) = FirstCode(StaticChecks(b, p))
         /\ StaticChecks(b, p) = {} => ChildErrors(LocatorOf(b), p) = {}
         /\ ChildErrors(LocatorOf(b), p) \subseteq Finding
<1> DEFINE e == StaticChecks(b, p)
<1>1. ChildErrors(LocatorOf(b), p) \subseteq Finding
  BY DEF ChildErrors, Finding
<1>2. e \subseteq Finding /\ (e = {} => ChildErrors(LocatorOf(b), p) = {})
  BY <1>1 DEF StaticChecks, Finding
<1> HIDE DEF e
<1>3. ASSUME e # {} PROVE FirstCode(e) \in Finding
  <2>1. CASE e = {"Preflight"}
    BY <2>1 DEF FirstCode, Finding
  <2>2. CASE e # {"Preflight"}
    <3>1. \E x \in e : x # "Preflight"
      BY <1>3, <2>2
    <3>2. FirstCode(e) \in e
      BY <2>2, <3>1 DEF FirstCode
    <3>3. QED
      BY <1>2, <3>2
  <2>3. QED
    BY <2>1, <2>2
<1>4. \A x \in Finding : Code(x) = x
  BY DEF Code, Finding
<1>5. QED
  BY <1>1, <1>2, <1>3, <1>4 DEF e

-----------------------------------------------------------------------------
(* What a check, and an open, come to                                      *)

\* Without a manifest a capability's target is built by Lake.
Builds(b, p) == b.kind = "capability" /\ b.manifest = None => p.lake

MetadataHolds(b, p) ==
  \A m \in b.metadata : p.metadata # "none" /\ m.expected \in {None, Some(p.metadata)}

\* What has been found good before a step.
Past(b, p, s) ==
  /\ s # "static" => StaticChecks(b, p) = {}
  /\ s \notin {"static", "artifact"} => Builds(b, p)
  /\ s \in {"health", "session", "metadata", "done"} =>
       SysrootErrors(b, p) = {} /\ p.child = "shakes"
  /\ s \in {"session", "metadata", "done"} => p.healthy
  /\ s \in {"metadata", "done"} => (Wants(b) => p.opens)
  /\ s = "done" => MetadataHolds(b, p)

\* The code both operations end with, but for the session that only the
\* check of a host handle opens without need.
Foretold(b, p, o) ==
  IF StaticChecks(b, p) # {} THEN FirstCode(StaticChecks(b, p))
  ELSE IF ~Builds(b, p) \/ SysrootErrors(b, p) # {} THEN "WorkerStartupFailed"
  ELSE IF p.child = "mute" THEN "WorkerHandshakeFailed"
  ELSE IF p.child # "shakes" \/ ~p.healthy \/ (Wants(b) /\ ~p.opens) THEN "WorkerStartupFailed"
  ELSE IF b.metadata # None /\ p.metadata = "none" THEN "WorkerStartupFailed"
  ELSE IF ~MetadataHolds(b, p) THEN "CapabilityMetadataMismatch"
  ELSE IF o = "check" /\ b.kind = "host" /\ ~p.opens THEN "WorkerStartupFailed"
  ELSE "ok"

LEMMA CodeIsNotOk == ASSUME NEW e PROVE Code(e) # "ok"
BY DEF Code

\* Cargo's work changes neither.
LEMMA PastStable ==
  ASSUME NEW b, NEW p \in PlaceType, NEW s, NEW o
  PROVE  LET q == AfterResolve(LocatorOf(b), p)
         IN  (Past(b, p, s) => Past(b, q, s)) /\ Foretold(b, q, o) = Foretold(b, p, o)
<1> DEFINE q == AfterResolve(LocatorOf(b), p)
<1>1. /\ q.lake = p.lake /\ q.toolchain = p.toolchain /\ q.child = p.child
      /\ q.healthy = p.healthy /\ q.opens = p.opens /\ q.metadata = p.metadata
  BY AfterResolveIs
<1>2. StaticChecks(b, q) = StaticChecks(b, p)
  BY StaticStable
<1> HIDE DEF q
<1>3. /\ Builds(b, q) <=> Builds(b, p)
      /\ SysrootErrors(b, q) = SysrootErrors(b, p)
      /\ MetadataHolds(b, q) <=> MetadataHolds(b, p)
  BY <1>1 DEF Builds, SysrootErrors, MetadataHolds
<1>4. Past(b, p, s) => Past(b, q, s)
  BY <1>1, <1>2, <1>3 DEF Past
<1>5. Foretold(b, q, o) = Foretold(b, p, o)
  BY <1>1, <1>2, <1>3 DEF Foretold
<1>6. QED
  BY <1>4, <1>5 DEF q

-----------------------------------------------------------------------------
(* The inductive invariant                                                 *)

Running == {"static", "artifact", "spawn", "health", "session", "metadata", "done"}
Choosing == {"choose", "planned"}
Spawned == {"health", "session", "metadata", "done"}

Untouched ==
  place = NoPlace /\ worker = NoWorker /\ checked = "none" /\ opened = "none" /\ ~changed

ShapeInv ==
  /\ step \in Choosing \cup {"ready"} \cup Running
  /\ op \in {"none", "check", "open"} /\ settings \in 0..MaxSettings
  /\ changed \in BOOLEAN /\ checks \subseteq Finding
  /\ op # "none" <=> step \in Running
  /\ step \in Choosing => Untouched
  /\ step \notin Choosing => IsBuilder(builder)
  /\ place # NoPlace => place \in PlaceType
  /\ place = NoPlace => Untouched /\ step \notin Running
  /\ op # "none" => opened = "none"
  /\ op = "check" => checked = "none"
  /\ step = "artifact" => builder.kind = "capability"

\* A worker is there from the spawn to the end of a check, of an open that
\* fails, or of the handle, and has what was asked for so far.
WorkerInv ==
  /\ worker.up <=> step \in Spawned \/ (step = "ready" /\ opened = "ok")
  /\ worker.up =>
       /\ DOMAIN worker = {"up", "path", "limits", "session", "imports", "metadata"}
       /\ worker.path \in Spots /\ worker.limits = builder.limits
       /\ LocatorOf(builder).env /\ place.variable => worker.path = "variable"
       /\ step \in {"health", "session"} => worker.session = None /\ worker.imports = 0
       /\ step = "session" => Wants(builder)
       /\ step = "metadata" => builder.metadata # None
       /\ step \in {"metadata", "done", "ready"} =>
            /\ worker.session = IF Wants(builder) THEN Some(SessionConfig(builder)) ELSE None
            /\ worker.imports = IF Wants(builder) THEN 1 ELSE 0
       /\ step \in {"done", "ready"} =>
            \A m \in builder.metadata :
              worker.metadata # None /\ m.expected \in {None, worker.metadata}

\* As long as the place does not change, all is as foretold.
ForetellInv ==
  ~changed =>
    /\ op # "none" => Past(builder, place, step)
    /\ checked # "none" => checked = Foretold(builder, place, "check")
    /\ opened # "none" =>
         Foretold(builder, place, "open") = IF opened = "ok" THEN "ok" ELSE Code(opened)

\* A worker that is kept has the session and the metadata of its builder.
KeptInv ==
  pooled # NoPool =>
    LET b == pooled.builder  w == pooled.worker
    IN  /\ b.kind = "capability"
        /\ w.session = IF Wants(b) THEN Some(SessionConfig(b)) ELSE None
        /\ \A m \in b.metadata : w.metadata # None /\ m.expected \in {None, w.metadata}

BootInv == ShapeInv /\ WorkerInv /\ ForetellInv /\ KeptInv

LEMMA PlaceIsOne == ASSUME NEW p \in PlaceType PROVE p # NoPlace
<1>1. "files" \in DOMAIN p
  BY DEF PlaceType
<1>2. "files" \notin DOMAIN NoPlace
  BY DEF NoPlace
<1>3. QED
  BY <1>1, <1>2

LEMMA BootStart == BootInit => BootInv
<1> SUFFICES ASSUME BootInit PROVE BootInv
  OBVIOUS
<1>1. ShapeInv
  <2>1. settings \in 0..MaxSettings /\ checks \subseteq Finding /\ Untouched
    BY BootAssumption DEF BootInit, Untouched
  <2>2. QED
    BY <2>1 DEF BootInit, ShapeInv, Choosing, Running
<1>2. WorkerInv
  BY DEF BootInit, WorkerInv, NoWorker, Spawned
<1>3. ForetellInv /\ KeptInv
  BY DEF BootInit, ForetellInv, KeptInv
<1>4. QED
  BY <1>1, <1>2, <1>3 DEF BootInv

\* Steps of the caller before it begins, and those that give a worker away.
LEMMA ChoosingKeeps ==
  ASSUME BootInv, ChooseBuilder \/ MakePlan \/ TakeBatch
  PROVE  BootInv'
<1>1. /\ ShapeInv /\ WorkerInv /\ KeptInv /\ step \in Choosing /\ Untouched
      /\ UNCHANGED <<op, settings, place, changed, checks, worker, checked, opened, pooled>>
  BY DEF BootInv, ShapeInv, ChooseBuilder, MakePlan, TakeBatch, Choosing
<1>2. step' \in Choosing \cup {"ready"} /\ (step' = "ready" => IsBuilder(builder'))
  BY BootAssumption, BatchBuilderType DEF ChooseBuilder, MakePlan, TakeBatch, Choosing
<1>3. Untouched' /\ op = "none"
  BY <1>1 DEF Untouched, ShapeInv, Running, Choosing
<1>4. ShapeInv'
  BY <1>1, <1>2, <1>3 DEF ShapeInv, Running, Choosing
<1>5. WorkerInv'
  BY <1>2, <1>3 DEF WorkerInv, Untouched, NoWorker, Spawned, Choosing
<1>6. ForetellInv' /\ KeptInv'
  BY <1>1, <1>3 DEF ForetellInv, KeptInv, Untouched
<1>7. QED
  BY <1>4, <1>5, <1>6 DEF BootInv

LEMMA ConfigureKeeps ==
  ASSUME BootInv, Configure
  PROVE  BootInv'
<1>1. /\ ShapeInv /\ WorkerInv /\ KeptInv /\ step = "ready" /\ place = NoPlace /\ Untouched
      /\ settings < MaxSettings /\ settings' = settings + 1
      /\ UNCHANGED <<step, op, place, changed, checks, worker, checked, opened, pooled>>
  BY DEF BootInv, ShapeInv, Configure
<1>2. IsBuilder(builder')
  <2>1. PICK s \in Settings : builder' = Configured(builder, s)
    BY DEF Configure
  <2>2. IsBuilder(builder) /\ s.name \in SettingNames
    BY <1>1, BootAssumption DEF ShapeInv, Choosing, SettingNames
  <2>3. QED
    BY <2>1, <2>2, ConfiguredType
<1>3. Untouched' /\ op = "none" /\ settings + 1 \in 0..MaxSettings
  BY <1>1, BootAssumption DEF Untouched, ShapeInv, Running
<1>4. ShapeInv'
  BY <1>1, <1>2, <1>3 DEF ShapeInv, Running, Choosing
<1>5. WorkerInv'
  BY <1>1, <1>3 DEF WorkerInv, Untouched, NoWorker, Spawned
<1>6. ForetellInv' /\ KeptInv'
  BY <1>1, <1>3 DEF ForetellInv, KeptInv, Untouched
<1>7. QED
  BY <1>4, <1>5, <1>6 DEF BootInv

LEMMA BeginKeeps ==
  ASSUME BootInv, NEW o \in {"check", "open"}, Begin(o)
  PROVE  BootInv'
<1>1. /\ ShapeInv /\ WorkerInv /\ ForetellInv /\ KeptInv
      /\ step = "ready" /\ op = "none" /\ opened = "none" /\ (o = "check" => checked = "none")
      /\ op' = o /\ step' = "static" /\ checks' = {}
      /\ UNCHANGED <<builder, settings, changed, worker, checked, opened, pooled>>
  BY DEF BootInv, Begin
<1>2. place' \in PlaceType /\ (place' = place \/ place = NoPlace)
  BY <1>1, BootAssumption DEF Begin, ShapeInv
<1>3. place' # NoPlace
  BY <1>2, PlaceIsOne
<1>4. ShapeInv'
  BY <1>1, <1>2, <1>3 DEF ShapeInv, Running, Choosing
<1>5. ~worker.up
  BY <1>1 DEF WorkerInv, Spawned
<1>6. WorkerInv'
  BY <1>1, <1>5 DEF WorkerInv, Spawned
<1>7. ForetellInv'
  <2>1. ~changed => Past(builder, place', "static")
    BY DEF Past
  <2>2. checked # "none" => place' = place
    BY <1>1, <1>2 DEF ShapeInv, Untouched
  <2>3. QED
    BY <1>1, <2>1, <2>2 DEF ForetellInv
<1>8. KeptInv'
  BY <1>1 DEF KeptInv
<1>9. QED
  BY <1>4, <1>6, <1>7, <1>8 DEF BootInv

-----------------------------------------------------------------------------
(* Steps of check and open                                                 *)

\* While an operation runs it has a builder and a place.
LEMMA InOperation ==
  ASSUME BootInv, step \in Running
  PROVE  /\ ShapeInv /\ WorkerInv /\ ForetellInv /\ KeptInv
         /\ op \in {"check", "open"} /\ op # "none" /\ opened = "none"
         /\ (op = "check" => checked = "none")
         /\ IsBuilder(builder) /\ place \in PlaceType /\ place # NoPlace
         /\ ~changed => Past(builder, place, step)
<1>1. ShapeInv /\ WorkerInv /\ ForetellInv /\ KeptInv
  BY DEF BootInv
<1>2. op \in {"check", "open"} /\ step \notin Choosing /\ place # NoPlace
  BY <1>1 DEF ShapeInv, Running, Choosing
<1>3. QED
  BY <1>1, <1>2 DEF ShapeInv, ForetellInv

\* An operation that fails, or a check that ends well, keeps no worker; its
\* error must be the one foretold.
LEMMA FailsKeeps ==
  ASSUME BootInv, step \in Running, NEW error, Fails(error),
         UNCHANGED <<builder, settings, changed, pooled>>,
         place' \in PlaceType, checks' \subseteq Finding,
         op = "open" => error # "ok",
         ~changed => Foretold(builder, place', op) = IF error = "ok" THEN "ok" ELSE Code(error),
         ~changed => Foretold(builder, place', "check") = Foretold(builder, place, "check")
  PROVE  BootInv'
<1>1. /\ ShapeInv /\ WorkerInv /\ ForetellInv /\ KeptInv
      /\ op \in {"check", "open"} /\ opened = "none" /\ (op = "check" => checked = "none")
      /\ IsBuilder(builder)
  BY InOperation
<1>2. step' = "ready" /\ op' = "none" /\ worker' = NoWorker
  BY DEF Fails, Ends
<1>3. op = "check" => checked' = (IF error = "ok" THEN "ok" ELSE Code(error)) /\ opened' = opened
  BY DEF Fails, Ends
<1>4. op = "open" => opened' = error /\ checked' = checked
  BY <1>1 DEF Fails, Ends
<1>5. place' # NoPlace
  BY PlaceIsOne
<1>6. ShapeInv'
  BY <1>1, <1>2, <1>5 DEF ShapeInv, Running, Choosing
<1>7. opened' # "ok"
  BY <1>1, <1>3, <1>4
<1>8. WorkerInv'
  BY <1>2, <1>7 DEF WorkerInv, NoWorker, Spawned
<1>9. ForetellInv'
  <2> SUFFICES ASSUME ~changed' PROVE ForetellInv!2'
    BY DEF ForetellInv
  <2>1. CASE op = "check"
    BY <1>1, <1>2, <1>3, <2>1
  <2>2. CASE op = "open"
    <3>1. checked' # "none" => checked' = Foretold(builder, place', "check")
      BY <1>1, <1>4, <2>2 DEF ForetellInv
    <3>2. QED
      BY <1>2, <1>4, <2>2, <3>1
  <2>3. QED
    BY <1>1, <2>1, <2>2
<1>10. KeptInv'
  BY <1>1 DEF KeptInv
<1>11. QED
  BY <1>6, <1>8, <1>9, <1>10 DEF BootInv

\* An operation goes on at the same place, but for Cargo's work.
LEMMA GoesOn ==
  ASSUME BootInv, step \in Running, step' \in Running,
         UNCHANGED <<op, builder, settings, changed, checked, opened, pooled>>,
         place' \in PlaceType, checks' \subseteq Finding, WorkerInv',
         step' = "artifact" => builder.kind = "capability",
         ~changed => Past(builder, place', step'),
         ~changed => Foretold(builder, place', "check") = Foretold(builder, place, "check")
  PROVE  BootInv'
<1>1. /\ ShapeInv /\ WorkerInv /\ ForetellInv /\ KeptInv
      /\ op \in {"check", "open"} /\ opened = "none" /\ (op = "check" => checked = "none")
      /\ IsBuilder(builder)
  BY InOperation
<1>2. place' # NoPlace
  BY PlaceIsOne
<1>3. ShapeInv'
  BY <1>1, <1>2 DEF ShapeInv, Running, Choosing
<1>4. ForetellInv'
  BY <1>1 DEF ForetellInv
<1>5. KeptInv'
  BY <1>1 DEF KeptInv
<1>6. QED
  BY <1>3, <1>4, <1>5 DEF BootInv

LEMMA StaticKeeps ==
  ASSUME BootInv, Static
  PROVE  BootInv'
<1>1. /\ step = "static" /\ step \in Running
      /\ checks' = StaticChecks(builder, place)
      /\ place' = AfterResolve(LocatorOf(builder), place)
      /\ UNCHANGED <<plan, builder, settings, changed, pooled>>
  BY DEF Static, Running
<1>2. /\ ShapeInv /\ WorkerInv /\ place \in PlaceType /\ IsBuilder(builder)
      /\ op \in {"check", "open"}
  BY <1>1, InOperation
<1>3. place' \in PlaceType
  BY <1>1, <1>2, AfterResolveIs
<1>4. /\ StaticChecks(builder, place') = StaticChecks(builder, place)
      /\ \A o \in {"check", "open"} : Foretold(builder, place', o) = Foretold(builder, place, o)
  BY <1>1, <1>2, StaticStable, PastStable
<1>5. checks' \subseteq Finding
  BY <1>1, StaticType
<1>6. CASE checks' # {}
  <2> DEFINE error == FirstCode(StaticChecks(builder, place))
  <2>1. error \in Finding /\ Code(error) = error
    BY <1>1, <1>6, StaticType
  <2>2. Fails(error)
    BY <1>1, <1>6 DEF Static
  <2>3. Foretold(builder, place', op) = error
    BY <1>1, <1>2, <1>4, <1>6 DEF Foretold
  <2> HIDE DEF error
  <2>4. error # "ok"
    BY <2>1 DEF Finding
  <2>5. QED
    BY <1>1, <1>3, <1>4, <1>5, <2>1, <2>2, <2>3, <2>4, FailsKeeps
<1>7. CASE checks' = {}
  <2>1. /\ step' = (IF builder.kind = "capability" THEN "artifact" ELSE "spawn")
        /\ UNCHANGED <<op, checked, opened, worker>>
    BY <1>7 DEF Static
  <2>2. step' \in Running /\ step' \in {"artifact", "spawn"}
    BY <2>1 DEF Running
  <2>3. WorkerInv'
    BY <1>1, <1>2, <2>1, <2>2 DEF WorkerInv, Spawned
  <2>4. Past(builder, place', step')
    <3>1. step' = "spawn" => Builds(builder, place')
      BY <2>1 DEF Builds
    <3>2. QED
      BY <1>1, <1>4, <1>7, <2>2, <3>1 DEF Past
  <2>5. QED
    BY <1>1, <1>3, <1>4, <1>5, <2>1, <2>2, <2>3, <2>4, GoesOn
<1>8. QED
  BY <1>6, <1>7

LEMMA ArtifactKeeps ==
  ASSUME BootInv, Artifact
  PROVE  BootInv'
<1>1. /\ step = "artifact" /\ step \in Running
      /\ UNCHANGED <<plan, builder, settings, place, changed, checks, pooled>>
  BY DEF Artifact, Running
<1>2. /\ ShapeInv /\ WorkerInv /\ place \in PlaceType /\ IsBuilder(builder)
      /\ op \in {"check", "open"} /\ builder.kind = "capability" /\ checks \subseteq Finding
      /\ ~changed => Past(builder, place, "artifact")
  BY <1>1, InOperation DEF ShapeInv
<1>3. CASE builder.manifest = None /\ ~place.lake
  <2>1. Fails("CapabilityBuild")
    BY <1>3 DEF Artifact
  <2>2. ~changed => Foretold(builder, place', op) = Code("CapabilityBuild")
    BY <1>1, <1>2, <1>3 DEF Foretold, Past, Builds, Code
  <2>3. QED
    BY <1>1, <1>2, <2>1, <2>2, FailsKeeps
<1>4. CASE ~(builder.manifest = None /\ ~place.lake)
  <2>1. step' = "spawn" /\ UNCHANGED <<op, checked, opened, worker>>
    BY <1>4 DEF Artifact
  <2>2. step' \in Running
    BY <2>1 DEF Running
  <2>3. WorkerInv'
    BY <1>1, <1>2, <2>1 DEF WorkerInv, Spawned
  <2>4. ~changed => Past(builder, place', step')
    BY <1>1, <1>2, <1>4, <2>1 DEF Past, Builds
  <2>5. QED
    BY <1>1, <1>2, <2>1, <2>2, <2>3, <2>4, GoesOn
<1>5. QED
  BY <1>3, <1>4

\* Eight limits handed over by position arrive under their own names.
LEMMA LimitsArrive ==
  ASSUME NEW b, IsBuilder(b)
  PROVE  WorkerLimits(Arguments(b)) = b.limits
<1>1. PICK f : f = b.limits
  OBVIOUS
<1>2. f = [l \in Limits |-> f[l]]
  BY <1>1 DEF IsBuilder
<1>3. WorkerLimits(Arguments(b)) =
        [startup_timeout |-> f["startup_timeout"], request_timeout |-> f["request_timeout"],
         shutdown_timeout |-> f["shutdown_timeout"], rss_hard_limit |-> f["rss_hard_limit"],
         module_cache_limits |-> f["module_cache_limits"],
         max_frame_bytes |-> f["max_frame_bytes"], num_threads |-> f["num_threads"],
         lean_max_memory_kib |-> f["lean_max_memory_kib"]]
  BY <1>1 DEF WorkerLimits, Arguments
<1>4. QED
  BY <1>1, <1>2, <1>3 DEF Limits

\* A locator that finds a child in a set variable takes it.
LEMMA VariableDecides ==
  ASSUME NEW l, NEW p, Resolved(l, p) # "none", l.env /\ p.variable
  PROVE  Resolved(l, p) = "variable"
BY DEF Resolved

LEMMA SpawnErrorsType ==
  ASSUME NEW p \in PlaceType
  PROVE  /\ SpawnErrors(p) \subseteq {"StartupTimeout", "ChildExited", "ChildPanicOrAbort"}
         /\ SpawnErrors(p) = {} <=> p.child = "shakes"
         /\ \A e \in SpawnErrors(p) : e = "StartupTimeout" <=> p.child = "mute"
<1>1. p.child \in {"shakes", "mute", "exits", "aborts", "foreign"}
  BY DEF PlaceType
<1>2. PICK c : c = p.child
  OBVIOUS
<1>3. SpawnErrors(p) = CASE c = "shakes" -> {}
        [] c = "mute"   -> {"StartupTimeout"}
        [] c = "exits"  -> {"ChildExited", "ChildPanicOrAbort"}
        [] c \in {"aborts", "foreign"} -> {"ChildPanicOrAbort"}
  BY <1>2 DEF SpawnErrors
<1>4. CASE c = "shakes"
  BY <1>2, <1>3, <1>4
<1>5. CASE c = "mute"
  BY <1>2, <1>3, <1>5
<1>6. CASE c = "exits"
  BY <1>2, <1>3, <1>6
<1>7. CASE c \in {"aborts", "foreign"}
  BY <1>2, <1>3, <1>7
<1>8. QED
  BY <1>1, <1>2, <1>4, <1>5, <1>6, <1>7

LEMMA SpawnKeeps ==
  ASSUME BootInv, Spawn
  PROVE  BootInv'
<1> DEFINE locator == LocatorOf(builder)
           errors == IF ChildErrors(locator, place) # {} THEN ChildErrors(locator, place)
                     ELSE IF SysrootErrors(builder, place) # {} THEN SysrootErrors(builder, place)
                     ELSE SpawnErrors(place)
<1>1. /\ step = "spawn" /\ step \in Running
      /\ place' = AfterResolve(locator, place)
      /\ UNCHANGED <<plan, builder, settings, changed, checks, pooled>>
  BY DEF Spawn, Running
<1>2. /\ ShapeInv /\ WorkerInv /\ place \in PlaceType /\ IsBuilder(builder)
      /\ op \in {"check", "open"} /\ checks \subseteq Finding
      /\ ~changed => Past(builder, place, "spawn")
  BY <1>1, InOperation DEF ShapeInv
<1>3. place' \in PlaceType /\ place'.variable = place.variable
  BY <1>1, <1>2, AfterResolveIs
<1>4. \A o \in {"check", "open"} : Foretold(builder, place', o) = Foretold(builder, place, o)
  BY <1>1, <1>2, PastStable
<1>5. /\ ChildErrors(locator, place) \subseteq Finding
      /\ SysrootErrors(builder, place) \subseteq {"Setup"}
      /\ SpawnErrors(place) \subseteq {"StartupTimeout", "ChildExited", "ChildPanicOrAbort"}
  <2>1. ChildErrors(locator, place) \subseteq Finding
    BY StaticType
  <2>2. SysrootErrors(builder, place) \subseteq {"Setup"}
    BY DEF SysrootErrors
  <2>3. QED
    BY <1>2, <2>1, <2>2, SpawnErrorsType
<1>6. ~changed => ChildErrors(locator, place) = {}
  BY <1>2, StaticType DEF Past
<1>7. /\ errors # {} => \E e \in errors : Fails(e)
      /\ errors = {} =>
           /\ worker' = [up |-> TRUE, path |-> Resolved(locator, place),
                         limits |-> WorkerLimits(Arguments(builder)), session |-> None,
                         imports |-> 0, metadata |-> None]
           /\ step' = "health" /\ UNCHANGED <<op, checked, opened>>
  BY DEF Spawn
<1>8. CASE errors # {}
  <2>1. PICK e \in errors : Fails(e)
    BY <1>7, <1>8
  <2>2. e # "ok"
    BY <1>5 DEF Finding
  <2>3. ~changed => Foretold(builder, place, op) = Code(e)
    <3> SUFFICES ASSUME ~changed PROVE Foretold(builder, place, op) = Code(e)
      OBVIOUS
    <3>1. StaticChecks(builder, place) = {} /\ Builds(builder, place)
      BY <1>2 DEF Past
    <3>2. CASE SysrootErrors(builder, place) # {}
      <4>1. e = "Setup"
        BY <1>5, <1>6, <3>2
      <4>2. QED
        BY <3>1, <3>2, <4>1 DEF Foretold, Code
    <3>3. CASE SysrootErrors(builder, place) = {}
      <4>1. e \in SpawnErrors(place)
        BY <1>6, <3>3
      <4> HIDE DEF errors
      <4>2. /\ place.child # "shakes" /\ (e = "StartupTimeout" <=> place.child = "mute")
            /\ e \in {"StartupTimeout", "ChildExited", "ChildPanicOrAbort"}
        BY <1>2, <4>1, SpawnErrorsType
      <4>3. QED
        BY <3>1, <3>3, <4>2 DEF Foretold, Code
    <3>4. QED
      BY <3>2, <3>3
  <2> HIDE DEF errors
  <2>4. QED
    BY <1>1, <1>2, <1>3, <1>4, <2>1, <2>2, <2>3, FailsKeeps
<1>9. CASE errors = {}
  <2>1. /\ worker' = [up |-> TRUE, path |-> Resolved(locator, place),
                      limits |-> WorkerLimits(Arguments(builder)), session |-> None,
                      imports |-> 0, metadata |-> None]
        /\ step' = "health" /\ UNCHANGED <<op, checked, opened>>
    BY <1>7, <1>9
  <2>2. /\ ChildErrors(locator, place) = {} /\ SysrootErrors(builder, place) = {}
        /\ SpawnErrors(place) = {}
    BY <1>9
  <2> HIDE DEF errors
  <2>3. Resolved(locator, place) \in Spots
    BY <2>2, ResolvedType DEF ChildErrors
  <2>4. locator.env /\ place'.variable => Resolved(locator, place) = "variable"
    <3>1. Resolved(locator, place) # "none"
      BY <2>3 DEF Spots
    <3>2. QED
      BY <1>3, <3>1, VariableDecides
  <2>5. WorkerLimits(Arguments(builder)) = builder.limits
    BY <1>2, LimitsArrive
  <2>6. step' \in Running
    BY <2>1 DEF Running
  <2>7. WorkerInv'
    <3>1. worker'.up /\ step' = "health" /\ step' \in Spawned
      BY <2>1 DEF Spawned
    <3>2. /\ DOMAIN worker' = {"up", "path", "limits", "session", "imports", "metadata"}
          /\ worker'.path = Resolved(locator, place) /\ worker'.limits = builder.limits
          /\ worker'.session = None /\ worker'.imports = 0
      BY <2>1, <2>5
    <3>3. QED
      BY <1>1, <2>3, <2>4, <3>1, <3>2 DEF WorkerInv
  <2>8. ~changed => Past(builder, place', step')
    <3>1. ~changed => Past(builder, place, "health")
      BY <1>2, <2>2, SpawnErrorsType DEF Past
    <3>2. QED
      BY <1>1, <1>2, <2>1, <3>1, PastStable
  <2>9. QED
    BY <1>1, <1>2, <1>3, <1>4, <2>1, <2>6, <2>7, <2>8, GoesOn
<1>10. QED
  BY <1>8, <1>9

\* What an operation that has a worker can rely on.
LEMMA WithWorker ==
  ASSUME BootInv, step \in Spawned, UNCHANGED <<builder, place, changed, checks, pooled, settings>>
  PROVE  /\ step \in Running /\ worker.up /\ place \in PlaceType /\ IsBuilder(builder)
         /\ op \in {"check", "open"} /\ checks \subseteq Finding
         /\ ~changed => Past(builder, place, step)
         /\ WorkerInv!2
         /\ place' \in PlaceType /\ checks' \subseteq Finding
         /\ \A o \in {"check", "open"} : Foretold(builder, place', o) = Foretold(builder, place, o)
<1>1. step \in Running
  BY DEF Spawned, Running
<1>2. /\ ShapeInv /\ WorkerInv /\ place \in PlaceType /\ IsBuilder(builder)
      /\ op \in {"check", "open"} /\ (~changed => Past(builder, place, step))
  BY <1>1, InOperation
<1>3. checks \subseteq Finding
  BY <1>2 DEF ShapeInv
<1>4. worker.up /\ WorkerInv!2
  BY <1>2 DEF WorkerInv
<1>5. QED
  BY <1>1, <1>2, <1>3, <1>4

LEMMA HealthKeeps ==
  ASSUME BootInv, Health
  PROVE  BootInv'
<1>1. /\ step = "health" /\ step \in Spawned
      /\ UNCHANGED <<builder, settings, place, changed, checks, pooled>>
  BY DEF Health, Spawned
<1>2. /\ step \in Running /\ worker.up /\ place \in PlaceType /\ op \in {"check", "open"}
      /\ ~changed => Past(builder, place, "health")
      /\ place' \in PlaceType /\ checks' \subseteq Finding
      /\ \A o \in {"check", "open"} : Foretold(builder, place', o) = Foretold(builder, place, o)
  BY <1>1, WithWorker
<1>3. CASE ~place.healthy
  <2>1. Fails("Worker")
    BY <1>3 DEF Health
  <2>2. ~changed => Foretold(builder, place, op) = Code("Worker")
    BY <1>2, <1>3 DEF Foretold, Past, Code
  <2>3. QED
    BY <1>1, <1>2, <2>1, <2>2, FailsKeeps
<1>4. CASE place.healthy
  <2>1. /\ step' = IF Wants(builder) THEN "session" ELSE "done"
        /\ UNCHANGED <<op, checked, opened, worker>>
    BY <1>4 DEF Health
  <2>2. step' \in Running /\ step' \in Spawned /\ step' \in {"session", "done"}
    BY <2>1 DEF Running, Spawned
  <2>3. WorkerInv'
    <3>1. WorkerInv /\ worker.up
      BY <1>2 DEF BootInv
    <3>2. worker.session = None /\ worker.imports = 0
      BY <1>1, <3>1 DEF WorkerInv
    <3>3. step' = "done" => ~Wants(builder) /\ builder.metadata = {}
      BY <2>1 DEF Wants, None
    <3>4. step' = "session" => Wants(builder)
      BY <2>1
    <3>5. QED
      BY <1>1, <2>1, <2>2, <3>1, <3>2, <3>3, <3>4 DEF WorkerInv
  <2>4. ~changed => Past(builder, place', step')
    <3>1. step' = "done" => ~Wants(builder) /\ MetadataHolds(builder, place)
      BY <2>1 DEF Wants, None, MetadataHolds
    <3>2. QED
      BY <1>1, <1>2, <1>4, <2>2, <3>1 DEF Past
  <2>5. QED
    BY <1>1, <1>2, <2>1, <2>2, <2>3, <2>4, GoesOn
<1>5. QED
  BY <1>3, <1>4

LEMMA OpenSessionKeeps ==
  ASSUME BootInv, OpenSession
  PROVE  BootInv'
<1>1. /\ step = "session" /\ step \in Spawned
      /\ UNCHANGED <<builder, settings, place, changed, checks, pooled>>
  BY DEF OpenSession, Spawned
<1>2. /\ step \in Running /\ worker.up /\ place \in PlaceType /\ op \in {"check", "open"}
      /\ ~changed => Past(builder, place, "session")
      /\ place' \in PlaceType /\ checks' \subseteq Finding
      /\ \A o \in {"check", "open"} : Foretold(builder, place', o) = Foretold(builder, place, o)
  BY <1>1, WithWorker
<1>3. WorkerInv /\ Wants(builder)
  BY <1>1, <1>2 DEF BootInv, WorkerInv
<1>4. CASE ~place.opens
  <2>1. Fails("Worker")
    BY <1>4 DEF OpenSession
  <2>2. ~changed => Foretold(builder, place, op) = Code("Worker")
    BY <1>2, <1>3, <1>4 DEF Foretold, Past, Code
  <2>3. QED
    BY <1>1, <1>2, <2>1, <2>2, FailsKeeps
<1>5. CASE place.opens
  <2>1. /\ worker' = [worker EXCEPT !.session = Some(SessionConfig(builder)), !.imports = @ + 1]
        /\ step' = IF builder.metadata # None THEN "metadata" ELSE "done"
        /\ UNCHANGED <<op, checked, opened>>
    BY <1>5 DEF OpenSession
  <2>2. step' \in Running /\ step' \in Spawned /\ step' \in {"metadata", "done"}
    BY <2>1 DEF Running, Spawned
  <2>3. WorkerInv'
    <3>1. /\ DOMAIN worker = {"up", "path", "limits", "session", "imports", "metadata"}
          /\ worker.path \in Spots /\ worker.limits = builder.limits /\ worker.imports = 0
          /\ LocatorOf(builder).env /\ place.variable => worker.path = "variable"
      BY <1>1, <1>2, <1>3 DEF WorkerInv
    <3>2. /\ DOMAIN worker' = {"up", "path", "limits", "session", "imports", "metadata"}
          /\ worker'.up /\ worker'.path = worker.path /\ worker'.limits = worker.limits
          /\ worker'.session = Some(SessionConfig(builder)) /\ worker'.imports = 1
      BY <1>2, <2>1, <3>1
    <3>3. step' = "done" => builder.metadata = {}
      BY <2>1 DEF None
    <3>4. step' = "metadata" => builder.metadata # None
      BY <2>1
    <3>5. QED
      BY <1>1, <1>3, <2>2, <3>1, <3>2, <3>3, <3>4 DEF WorkerInv
  <2>4. ~changed => Past(builder, place', step')
    <3>1. step' = "done" => MetadataHolds(builder, place)
      BY <2>1 DEF None, MetadataHolds
    <3>2. QED
      BY <1>1, <1>2, <1>5, <2>2, <3>1 DEF Past
  <2>5. QED
    BY <1>1, <1>2, <2>1, <2>2, <2>3, <2>4, GoesOn
<1>6. QED
  BY <1>4, <1>5

LEMMA MetadataKeeps ==
  ASSUME BootInv, Metadata
  PROVE  BootInv'
<1> DEFINE expected == OrElse(builder.metadata, "none").expected
<1>1. /\ step = "metadata" /\ step \in Spawned
      /\ UNCHANGED <<builder, settings, place, changed, checks, pooled>>
  BY DEF Metadata, Spawned
<1>2. /\ step \in Running /\ worker.up /\ place \in PlaceType /\ op \in {"check", "open"}
      /\ IsBuilder(builder) /\ (~changed => Past(builder, place, "metadata"))
      /\ place' \in PlaceType /\ checks' \subseteq Finding
      /\ \A o \in {"check", "open"} : Foretold(builder, place', o) = Foretold(builder, place, o)
  BY <1>1, WithWorker
<1>3. WorkerInv /\ builder.metadata # None
  BY <1>1, <1>2 DEF BootInv, WorkerInv
<1>4. PICK m \in builder.metadata : builder.metadata = {m} /\ expected = m.expected
  <2>1. PICK m : m \in builder.metadata
    BY <1>3 DEF None
  <2>2. builder.metadata = {m}
    BY <1>2, <2>1 DEF IsBuilder
  <2>3. OrElse(builder.metadata, "none") = m
    BY <1>3, <2>2 DEF OrElse
  <2>4. QED
    BY <2>1, <2>2, <2>3
<1>5. /\ place.metadata = "none" => Fails("Worker")
      /\ place.metadata # "none" /\ expected \notin {None, Some(place.metadata)} =>
           Fails("CapabilityMetadataMismatch")
      /\ place.metadata # "none" /\ expected \in {None, Some(place.metadata)} =>
           /\ worker' = [worker EXCEPT !.metadata = Some(place.metadata)]
           /\ step' = "done" /\ UNCHANGED <<op, checked, opened>>
  BY DEF Metadata
<1> HIDE DEF expected
<1>6. ~changed => /\ StaticChecks(builder, place) = {} /\ Builds(builder, place)
                  /\ SysrootErrors(builder, place) = {} /\ place.child = "shakes"
                  /\ place.healthy /\ place.opens
  BY <1>2, <1>3 DEF Past, Wants
<1>7. CASE place.metadata = "none"
  <2>1. ~changed => Foretold(builder, place, op) = Code("Worker")
    BY <1>3, <1>6, <1>7 DEF Foretold, Code
  <2>2. QED
    BY <1>1, <1>2, <1>5, <1>7, <2>1, FailsKeeps
<1>8. CASE place.metadata # "none" /\ expected \notin {None, Some(place.metadata)}
  <2>1. ~MetadataHolds(builder, place)
    BY <1>4, <1>8 DEF MetadataHolds
  <2>2. ~changed => Foretold(builder, place, op) = Code("CapabilityMetadataMismatch")
    BY <1>3, <1>6, <1>8, <2>1 DEF Foretold, Code
  <2>3. QED
    BY <1>1, <1>2, <1>5, <1>8, <2>2, FailsKeeps
<1>9. CASE place.metadata # "none" /\ expected \in {None, Some(place.metadata)}
  <2>1. /\ worker' = [worker EXCEPT !.metadata = Some(place.metadata)]
        /\ step' = "done" /\ UNCHANGED <<op, checked, opened>>
    BY <1>5, <1>9
  <2>2. step' \in Running /\ step' \in Spawned
    BY <2>1 DEF Running, Spawned
  <2>3. WorkerInv'
    <3>1. /\ DOMAIN worker = {"up", "path", "limits", "session", "imports", "metadata"}
          /\ worker.path \in Spots /\ worker.limits = builder.limits
          /\ LocatorOf(builder).env /\ place.variable => worker.path = "variable"
          /\ worker.session = IF Wants(builder) THEN Some(SessionConfig(builder)) ELSE None
          /\ worker.imports = IF Wants(builder) THEN 1 ELSE 0
      BY <1>1, <1>2, <1>3 DEF WorkerInv
    <3>2. /\ DOMAIN worker' = {"up", "path", "limits", "session", "imports", "metadata"}
          /\ worker'.up /\ worker'.path = worker.path /\ worker'.limits = worker.limits
          /\ worker'.session = worker.session /\ worker'.imports = worker.imports
          /\ worker'.metadata = Some(place.metadata)
      BY <1>2, <2>1, <3>1
    <3>3. \A n \in builder.metadata :
            worker'.metadata # None /\ n.expected \in {None, worker'.metadata}
      BY <1>4, <1>9, <3>2 DEF None, Some
    <3>4. QED
      BY <1>1, <2>1, <2>2, <3>1, <3>2, <3>3 DEF WorkerInv
  <2>4. ~changed => Past(builder, place', step')
    <3>1. MetadataHolds(builder, place)
      BY <1>4, <1>9 DEF MetadataHolds
    <3>2. QED
      BY <1>1, <1>6, <2>1, <3>1 DEF Past
  <2>5. QED
    BY <1>1, <1>2, <2>1, <2>2, <2>3, <2>4, GoesOn
<1>10. QED
  BY <1>7, <1>8, <1>9

LEMMA DoneKeeps ==
  ASSUME BootInv, Done
  PROVE  BootInv'
<1>1. /\ step = "done" /\ step \in Spawned
      /\ UNCHANGED <<builder, settings, place, changed, checks, pooled>>
  BY DEF Done, Spawned
<1>2. /\ step \in Running /\ worker.up /\ place \in PlaceType /\ op \in {"check", "open"}
      /\ ~changed => Past(builder, place, "done")
      /\ place' \in PlaceType /\ checks' \subseteq Finding
      /\ \A o \in {"check", "open"} : Foretold(builder, place', o) = Foretold(builder, place, o)
  BY <1>1, WithWorker
<1>3. /\ ShapeInv /\ WorkerInv /\ ForetellInv /\ KeptInv /\ opened = "none" /\ place # NoPlace
      /\ IsBuilder(builder)
  BY <1>2, InOperation
<1>4. ~changed =>
        /\ StaticChecks(builder, place) = {} /\ Builds(builder, place)
        /\ SysrootErrors(builder, place) = {} /\ place.child = "shakes" /\ place.healthy
        /\ Wants(builder) => place.opens
        /\ MetadataHolds(builder, place)
        /\ builder.metadata # None => place.metadata # "none"
  BY <1>2 DEF Past, MetadataHolds, None
<1>5. CASE op = "check" /\ CheckOpens(builder) /\ ~place.opens
  <2>1. Fails("Worker")
    BY <1>5 DEF Done
  <2>2. ~changed => Foretold(builder, place, op) = Code("Worker")
    BY <1>4, <1>5 DEF Foretold, Code, CheckOpens
  <2>3. QED
    BY <1>1, <1>2, <1>5, <2>1, <2>2, FailsKeeps
<1>6. CASE op = "check" /\ ~(CheckOpens(builder) /\ ~place.opens)
  <2>1. Fails("ok")
    BY <1>6 DEF Done, Fails
  <2>2. ~changed => Foretold(builder, place, op) = "ok"
    BY <1>4, <1>6 DEF Foretold, CheckOpens
  <2>3. QED
    BY <1>1, <1>2, <1>6, <2>1, <2>2, FailsKeeps
<1>7. CASE op = "open"
  <2>1. /\ step' = "ready" /\ op' = "none" /\ opened' = "ok" /\ checked' = checked
        /\ worker' = worker
    BY <1>7 DEF Done, Ends
  <2>2. ShapeInv'
    BY <1>1, <1>3, <2>1 DEF ShapeInv, Running, Choosing
  <2>3. WorkerInv'
    BY <1>1, <1>2, <1>3, <2>1 DEF WorkerInv
  <2>4. ForetellInv'
    <3> SUFFICES ASSUME ~changed' PROVE ForetellInv!2'
      BY DEF ForetellInv
    <3>1. Foretold(builder, place, "open") = "ok"
      BY <1>1, <1>4 DEF Foretold
    <3>2. checked' # "none" => checked' = Foretold(builder, place, "check")
      BY <1>1, <1>3, <2>1 DEF ForetellInv
    <3>3. QED
      BY <1>1, <2>1, <3>1, <3>2
  <2>5. KeptInv'
    BY <1>1, <1>3 DEF KeptInv
  <2>6. QED
    BY <2>2, <2>3, <2>4, <2>5 DEF BootInv
<1>8. QED
  BY <1>2, <1>5, <1>6, <1>7

-----------------------------------------------------------------------------
(* Changes of the deployment, and workers given away                       *)

LEMMA TurnsType ==
  ASSUME NEW p \in PlaceType, NEW q \in Turns(p)
  PROVE  q \in PlaceType /\ q.variable = p.variable
<1>1. CASE \E s \in Spots, f \in FileStates : q = [p EXCEPT !.files[s] = f]
  <2>1. PICK s \in Spots, f \in FileStates : q = [p EXCEPT !.files[s] = f]
    BY <1>1
  <2> DEFINE g == [p.files EXCEPT ![s] = f]
  <2>2. g \in [Spots -> FileStates]
    BY DEF PlaceType
  <2>3. q = [p EXCEPT !.files = g]
    BY <2>1 DEF PlaceType
  <2> HIDE DEF g
  <2>4. QED
    BY <2>2, <2>3 DEF PlaceType
<1>2. CASE \E m \in {"good", "bad"} : q = [p EXCEPT !.manifest = m]
  BY <1>2 DEF PlaceType
<1>3. CASE \E c \in {"shakes", "aborts"} : q = [p EXCEPT !.child = c]
  BY <1>3 DEF PlaceType
<1>4. CASE q \in {[p EXCEPT !.opens = ~@], [p EXCEPT !.lake = ~@]}
  <2>1. (~p.opens) \in BOOLEAN /\ (~p.lake) \in BOOLEAN
    OBVIOUS
  <2>2. PICK x, y : x = ~p.opens /\ y = ~p.lake
    OBVIOUS
  <2>3. q = [p EXCEPT !.opens = x] \/ q = [p EXCEPT !.lake = y]
    BY <1>4, <2>2
  <2>4. x \in BOOLEAN /\ y \in BOOLEAN
    BY <2>1, <2>2
  <2>5. QED
    BY <2>3, <2>4 DEF PlaceType
<1>5. QED
  BY <1>1, <1>2, <1>3, <1>4 DEF Turns

LEMMA ChangeKeeps ==
  ASSUME BootInv, Change
  PROVE  BootInv'
<1>1. /\ op # "none" /\ place' \in Turns(place) /\ changed' = TRUE
      /\ UNCHANGED <<step, op, builder, settings, checks, worker, checked, opened, pooled>>
  BY DEF Change
<1>2. /\ ShapeInv /\ WorkerInv /\ KeptInv /\ step \in Running
  BY <1>1 DEF BootInv, ShapeInv
<1>3. place \in PlaceType
  BY <1>2, InOperation
<1>4. place' \in PlaceType /\ place'.variable = place.variable
  BY <1>1, <1>3, TurnsType
<1>5. place' # NoPlace
  BY <1>4, PlaceIsOne
<1>6. ShapeInv'
  BY <1>1, <1>2, <1>4, <1>5 DEF ShapeInv, Running, Choosing
<1>7. WorkerInv'
  BY <1>1, <1>2, <1>4 DEF WorkerInv
<1>8. ForetellInv' /\ KeptInv'
  BY <1>1, <1>2 DEF ForetellInv, KeptInv
<1>9. QED
  BY <1>6, <1>7, <1>8 DEF BootInv

\* The worker goes away to the pool, or to a handle.
GivenAway ==
  /\ step' = "choose" /\ builder' = NoBuilder /\ settings' = 0
  /\ place' = NoPlace /\ changed' = FALSE /\ checks' = {}
  /\ worker' = NoWorker /\ checked' = "none" /\ opened' = "none"
  /\ UNCHANGED <<op, plan>>

LEMMA GivenAwayKeeps ==
  ASSUME BootInv, op = "none", GivenAway, KeptInv'
  PROVE  BootInv'
<1>1. settings' \in 0..MaxSettings /\ checks' \subseteq Finding
  BY BootAssumption DEF GivenAway
<1>2. ShapeInv'
  BY <1>1 DEF GivenAway, ShapeInv, Running, Choosing, Untouched
<1>3. WorkerInv'
  BY DEF GivenAway, WorkerInv, NoWorker, Spawned
<1>4. ForetellInv'
  BY DEF GivenAway, ForetellInv
<1>5. QED
  BY <1>2, <1>3, <1>4 DEF BootInv

LEMMA PoolKeeps ==
  ASSUME BootInv, Pool
  PROVE  BootInv'
<1>1. /\ step = "ready" /\ opened = "ok" /\ builder.kind = "capability"
      /\ pooled' = [builder |-> builder, worker |-> worker] /\ GivenAway
  BY DEF Pool, GivenAway
<1>2. ShapeInv /\ WorkerInv /\ op = "none"
  BY <1>1 DEF BootInv, ShapeInv, Running
<1>3. KeptInv'
  <2>1. /\ worker.session = IF Wants(builder) THEN Some(SessionConfig(builder)) ELSE None
        /\ \A m \in builder.metadata : worker.metadata # None /\ m.expected \in {None, worker.metadata}
    BY <1>1, <1>2 DEF WorkerInv
  <2>2. pooled'.builder = builder /\ pooled'.worker = worker
    BY <1>1
  <2>3. QED
    BY <1>1, <2>1, <2>2 DEF KeptInv
<1>4. QED
  BY <1>1, <1>2, <1>3, GivenAwayKeeps

LEMMA HandOverKeeps ==
  ASSUME BootInv, HandOver
  PROVE  BootInv'
<1>1. op = "none" /\ GivenAway /\ pooled' = pooled
  BY DEF HandOver, GivenAway
<1>2. KeptInv'
  BY <1>1 DEF BootInv, KeptInv
<1>3. QED
  BY <1>1, <1>2, GivenAwayKeeps

-----------------------------------------------------------------------------
(* Plans                                                                   *)

\* What can be expected of a plan's batches: they carry the configuration's
\* root, target, profile and policy, and the key made of them.
PlanInv ==
  /\ \A m, n \in plan.config.metadata : m = n
  /\ \A batch \in plan.result.batches :
       /\ batch.group.class = PlannerClass(plan.config.policy)
       /\ batch.key = PlannedKey(plan.config, batch.group)

LEMMA PlanWorkKeys ==
  ASSUME NEW c, NEW works, NEW batch \in PlanWork(c, works).batches
  PROVE  /\ batch.group.class = PlannerClass(c.policy)
         /\ batch.key = PlannedKey(c, batch.group)
<1>1. PICK w \in works : batch = Batch(c, GroupKey(c, w), {v \in works : GroupKey(c, v) = GroupKey(c, w)})
  BY DEF PlanWork
<1>2. PICK g, ws : g = GroupKey(c, w) /\ batch = Batch(c, g, ws)
  BY <1>1
<1>3. batch.group = g /\ batch.key = PlannedKey(c, g)
  BY <1>2 DEF Batch
<1>4. g.class = PlannerClass(c.policy)
  BY <1>2 DEF GroupKey
<1>5. QED
  BY <1>3, <1>4

LEMMA PlanProjectKeys ==
  ASSUME NEW c, NEW site, NEW batch \in PlanProject(c, site).batches
  PROVE  /\ batch.group.class = PlannerClass(c.policy)
         /\ batch.key = PlannedKey(c, batch.group)
<1>1. PICK works : works = DescribedWork(c, Discovered(site, c.roots).modules)
  OBVIOUS
<1>2. batch \in PlanWork(c, works).batches
  BY <1>1 DEF PlanProject
<1>3. QED
  BY <1>2, PlanWorkKeys

LEMMA PlanStart == BootInit => PlanInv
BY DEF BootInit, NoPlan, NoBuilder, Builder, None, PlanInv

LEMMA PlanKeeps ==
  ASSUME PlanInv, MakePlan \/ TakeBatch \/ plan' = plan
  PROVE  PlanInv'
<1>1. CASE MakePlan
  <2>1. PICK q \in Plans \cup WorkPlans :
          /\ plan'.config = q.config
          /\ \/ plan'.result = PlanProject(q.config, q.site)
             \/ plan'.result = PlanWork(q.config, q.works)
    BY <1>1 DEF MakePlan
  <2>2. \A m, n \in q.config.metadata : m = n
    BY BootAssumption
  <2>3. \A batch \in plan'.result.batches :
          /\ batch.group.class = PlannerClass(q.config.policy)
          /\ batch.key = PlannedKey(q.config, batch.group)
    BY <2>1, PlanWorkKeys, PlanProjectKeys
  <2>4. QED
    BY <2>1, <2>2, <2>3 DEF PlanInv
<1>2. CASE TakeBatch
  <2>1. plan'.config.metadata = {} /\ plan'.result.batches = {}
    BY <1>2 DEF TakeBatch, NoPlan, NoBuilder, Builder, None
  <2>2. QED
    BY <2>1 DEF PlanInv
<1>3. CASE plan' = plan
  BY <1>3 DEF PlanInv
<1>4. QED
  BY <1>1, <1>2, <1>3

\* The expectation that a batch's builder passes on is the configured one.
LEMMA BatchBuilderIs ==
  ASSUME NEW c, NEW batch, \A m, n \in c.metadata : m = n
  PROVE  LET b == BatchBuilder(c, batch)  g == batch.group
         IN  /\ b.root = g.root /\ b.target = g.target /\ b.imports = g.imports
             /\ b.profile = g.profile /\ b.policy = c.policy
             /\ b.workspace = None /\ b.manifest = None /\ b.capacity = None
             /\ b.metadata = c.metadata
<1> DEFINE g == batch.group
           a == CapabilityBuilder(g.root, g.target, g.imports)
           b == [a EXCEPT !.profile = g.profile, !.policy = c.policy]
           Plain(d) ==
             /\ d.root = g.root /\ d.target = g.target /\ d.imports = g.imports
             /\ d.profile = g.profile /\ d.policy = c.policy
             /\ d.workspace = None /\ d.manifest = None /\ d.capacity = None
<1>1. DOMAIN b = BuilderFields /\ Plain(b) /\ b.metadata = None
  BY DEF CapabilityBuilder, Builder, BuilderFields
<1> HIDE DEF b
<1>2. CASE c.metadata = None
  BY <1>1, <1>2 DEF BatchBuilder, b
<1>3. CASE c.metadata # None
  <2> DEFINE e == OrElse(c.metadata, "none")
             x == AddExport(b, e.export, "metadata")
             d == [x EXCEPT !.metadata = Some(e)]
  <2>1. Some(e) = c.metadata
    BY <1>3 DEF OrElse, Some, None
  <2>2. BatchBuilder(c, batch) = d
    <3>1. BatchBuilder(c, batch) = Configured(b, Setting("expect_metadata", e))
      BY <1>3 DEF BatchBuilder, b
    <3>2. QED
      BY <3>1 DEF Configured, Setting, Limits
  <2> HIDE DEF e
  <2>3. DOMAIN x = BuilderFields /\ Plain(x)
    <3>1. CASE x = b
      BY <1>1, <3>1
    <3>2. CASE x # b
      <4> DEFINE s == b.exports \cup {[symbol |-> e.export, shape |-> "metadata"]}
      <4>1. x = [b EXCEPT !.exports = s]
        BY <3>2 DEF AddExport
      <4> HIDE DEF s, x
      <4>2. QED
        BY <1>1, <4>1 DEF BuilderFields
    <3>3. QED
      BY <3>1, <3>2
  <2> HIDE DEF x
  <2>4. Plain(d) /\ d.metadata = Some(e)
    BY <2>3 DEF BuilderFields
  <2> HIDE DEF d
  <2>5. QED
    BY <2>1, <2>2, <2>4
<1>4. QED
  BY <1>2, <1>3

KeyOf(root, workspace, manifest, target, imports, profile, metadata, class) ==
  [root |-> root, workspace |-> workspace, manifest |-> manifest, target |-> target,
   imports |-> imports, profile |-> profile, metadata |-> metadata, class |-> class]

LEMMA NewKeyIs ==
  ASSUME NEW r, NEW t, NEW i
  PROVE  NewKey(r, t, i) =
           KeyOf(Normalized(r), Normalized(r), None, t, i, "full", None, "Default")
<1>1. PICK n : n = Normalized(r)
  OBVIOUS
<1>2. QED
  BY <1>1 DEF NewKey, KeyOf

\* The key of a builder, written out.
LEMMA SessionKeyIs ==
  ASSUME NEW b
  PROVE  SessionKey(b) =
           KeyOf(Normalized(b.root), Workspace(b), {Manifest(m) : m \in b.manifest}, b.target,
                 b.imports, b.profile, b.metadata, PolicyClass(b.policy, b.capacity))
<1>1. PICK r, t, i, p, w, c, x, m, s :
        /\ r = Normalized(b.root) /\ t = b.target /\ i = b.imports /\ p = b.profile
        /\ w = Workspace(b) /\ c = PolicyClass(b.policy, b.capacity)
        /\ x = {Manifest(e) : e \in b.manifest} /\ m = b.metadata
        /\ s = NewKey(b.root, b.target, b.imports)
  OBVIOUS
<1>2. s = KeyOf(r, r, None, t, i, "full", None, "Default")
  BY <1>1, NewKeyIs
<1>3. PICK s1 : s1 = [s EXCEPT !.profile = p]
  OBVIOUS
<1>4. PICK s2 : s2 = [s1 EXCEPT !.workspace = w]
  OBVIOUS
<1>5. PICK s3 : s3 = [s2 EXCEPT !.class = c]
  OBVIOUS
<1>6. PICK s4 : s4 = [s3 EXCEPT !.manifest = x]
  OBVIOUS
<1>7. PICK s5 : s5 = [s4 EXCEPT !.metadata = m]
  OBVIOUS
<1>8. SessionKey(b) = s5
  BY <1>1, <1>3, <1>4, <1>5, <1>6, <1>7 DEF SessionKey
<1>9. s1 = KeyOf(r, r, None, t, i, p, None, "Default")
  BY <1>2, <1>3 DEF KeyOf
<1>10. s2 = KeyOf(r, w, None, t, i, p, None, "Default")
  BY <1>4, <1>9 DEF KeyOf
<1>11. s3 = KeyOf(r, w, None, t, i, p, None, c)
  BY <1>5, <1>10 DEF KeyOf
<1>12. s4 = KeyOf(r, w, x, t, i, p, None, c)
  BY <1>6, <1>11 DEF KeyOf
<1>13. s5 = KeyOf(r, w, x, t, i, p, m, c)
  BY <1>7, <1>12 DEF KeyOf
<1>14. QED
  BY <1>1, <1>8, <1>13

\* The planner's copy, written out.
LEMMA PlannedKeyIs ==
  ASSUME NEW c, NEW g
  PROVE  PlannedKey(c, g) =
           KeyOf(Normalized(g.root), Normalized(g.root), None, g.target, g.imports, g.profile,
                 c.metadata, g.class)
<1>1. PICK r, t, i, p, k, m, s :
        /\ r = Normalized(g.root) /\ t = g.target /\ i = g.imports /\ p = g.profile
        /\ k = g.class /\ m = c.metadata /\ s = NewKey(g.root, g.target, g.imports)
  OBVIOUS
<1>2. s = KeyOf(r, r, None, t, i, "full", None, "Default")
  BY <1>1, NewKeyIs
<1>3. PICK s1 : s1 = [s EXCEPT !.profile = p]
  OBVIOUS
<1>4. PICK s2 : s2 = [s1 EXCEPT !.class = k]
  OBVIOUS
<1>5. PICK s3 : s3 = [s2 EXCEPT !.metadata = m]
  OBVIOUS
<1>6. PlannedKey(c, g) = s3
  BY <1>1, <1>3, <1>4, <1>5 DEF PlannedKey
<1>7. s1 = KeyOf(r, r, None, t, i, p, None, "Default")
  BY <1>2, <1>3 DEF KeyOf
<1>8. s2 = KeyOf(r, r, None, t, i, p, None, k)
  BY <1>4, <1>7 DEF KeyOf
<1>9. s3 = KeyOf(r, r, None, t, i, p, m, k)
  BY <1>5, <1>8 DEF KeyOf
<1>10. QED
  BY <1>1, <1>6, <1>9

LEMMA PlannedKeys == PlanInv => PlannedKeysHold
<1> SUFFICES ASSUME PlanInv, NEW batch \in plan.result.batches
             PROVE  batch.key = SessionKey(BatchBuilder(plan.config, batch))
  BY DEF PlannedKeysHold
<1> DEFINE c == plan.config
           g == batch.group
           b == BatchBuilder(c, batch)
<1>1. /\ b.root = g.root /\ b.target = g.target /\ b.imports = g.imports
      /\ b.profile = g.profile /\ b.policy = c.policy
      /\ b.workspace = None /\ b.manifest = None /\ b.capacity = None
      /\ b.metadata = c.metadata
  BY BatchBuilderIs DEF PlanInv
<1>2. batch.key = PlannedKey(c, g) /\ g.class = PlannerClass(c.policy)
  BY DEF PlanInv
<1> HIDE DEF b, c, g
<1>3. PolicyClass(b.policy, b.capacity) = g.class
  BY <1>1, <1>2 DEF PolicyClass, PlannerClass
<1>4. Workspace(b) = Normalized(g.root)
  BY <1>1 DEF Workspace, OrElse
<1>5. {Manifest(m) : m \in b.manifest} = None
  BY <1>1 DEF None
<1>6. SessionKey(b) = PlannedKey(c, g)
  BY <1>1, <1>3, <1>4, <1>5, SessionKeyIs, PlannedKeyIs
<1>7. QED
  BY <1>2, <1>6 DEF b, c, g

-----------------------------------------------------------------------------
(* What an equal key says                                                  *)

\* Two builders of capabilities with one key ask for one session, expect one
\* metadata, and need a session alike.
LEMMA KeyTells ==
  ASSUME NEW a, NEW b, a.kind = "capability", b.kind = "capability",
         SessionKey(a) = SessionKey(b)
  PROVE  /\ SessionConfig(a) = SessionConfig(b)
         /\ a.metadata = b.metadata
         /\ Wants(a) <=> Wants(b)
<1>1. /\ Normalized(a.root) = Normalized(b.root) /\ Workspace(a) = Workspace(b)
      /\ {Manifest(m) : m \in a.manifest} = {Manifest(m) : m \in b.manifest}
      /\ a.target = b.target /\ a.imports = b.imports /\ a.profile = b.profile
      /\ a.metadata = b.metadata
  <2>1. PICK x1, x2, x3, x4, x5, x6, x7, x8 :
          /\ x1 = Normalized(a.root) /\ x2 = Workspace(a)
          /\ x3 = {Manifest(m) : m \in a.manifest} /\ x4 = a.target /\ x5 = a.imports
          /\ x6 = a.profile /\ x7 = a.metadata /\ x8 = PolicyClass(a.policy, a.capacity)
    OBVIOUS
  <2>2. PICK y1, y2, y3, y4, y5, y6, y7, y8 :
          /\ y1 = Normalized(b.root) /\ y2 = Workspace(b)
          /\ y3 = {Manifest(m) : m \in b.manifest} /\ y4 = b.target /\ y5 = b.imports
          /\ y6 = b.profile /\ y7 = b.metadata /\ y8 = PolicyClass(b.policy, b.capacity)
    OBVIOUS
  <2>3. KeyOf(x1, x2, x3, x4, x5, x6, x7, x8) = KeyOf(y1, y2, y3, y4, y5, y6, y7, y8)
    BY <2>1, <2>2, SessionKeyIs
  <2>4. x1 = y1 /\ x2 = y2 /\ x3 = y3 /\ x4 = y4 /\ x5 = y5 /\ x6 = y6 /\ x7 = y7
    BY <2>3 DEF KeyOf
  <2>5. QED
    BY <2>1, <2>2, <2>4
<1>2. (a.manifest = None) <=> (b.manifest = None)
  BY <1>1 DEF None
<1>3. Manifest(<<a.root, a.target>>) = Manifest(<<b.root, b.target>>)
  BY <1>1 DEF Manifest
<1>4. SessionConfig(a) = SessionConfig(b)
  BY <1>1, <1>2, <1>3 DEF SessionConfig
<1>5. QED
  BY <1>1, <1>4 DEF Wants

LEMMA KeptServes == KeptInv => EqualKeysServe
<1> SUFFICES ASSUME KeptInv, step = "ready", pooled # NoPool, builder.kind = "capability",
                    SessionKey(builder) = SessionKey(pooled.builder)
             PROVE  /\ SessionConfig(builder) = SessionConfig(pooled.builder)
                    /\ pooled.worker.session \in {None, Some(SessionConfig(builder))}
                    /\ pooled.worker.session = None => ~Wants(builder)
                    /\ \A m \in builder.metadata : m.expected \in {None, pooled.worker.metadata}
  BY DEF EqualKeysServe
<1>1. PICK b, w : b = pooled.builder /\ w = pooled.worker
  OBVIOUS
<1>2. /\ b.kind = "capability"
      /\ w.session = IF Wants(b) THEN Some(SessionConfig(b)) ELSE None
      /\ \A m \in b.metadata : w.metadata # None /\ m.expected \in {None, w.metadata}
  BY <1>1 DEF KeptInv
<1>3. SessionConfig(builder) = SessionConfig(b) /\ builder.metadata = b.metadata
      /\ (Wants(builder) <=> Wants(b))
  BY <1>1, <1>2, KeyTells
<1>4. Some(SessionConfig(b)) # None
  BY DEF Some, None
<1>5. QED
  BY <1>1, <1>2, <1>3, <1>4

-----------------------------------------------------------------------------
(* The theorems                                                            *)

HandlesInv == BootInv /\ PlanInv

LEMMA BootStepKeeps ==
  ASSUME BootInv, BootNext
  PROVE  BootInv'
<1>1. CASE ChooseBuilder \/ MakePlan \/ TakeBatch
  BY <1>1, ChoosingKeeps
<1>2. CASE Configure
  BY <1>2, ConfigureKeeps
<1>3. ASSUME NEW o \in {"check", "open"}, Begin(o) PROVE BootInv'
  BY <1>3, BeginKeeps
<1>4. CASE Static
  BY <1>4, StaticKeeps
<1>5. CASE Artifact
  BY <1>5, ArtifactKeeps
<1>6. CASE Spawn
  BY <1>6, SpawnKeeps
<1>7. CASE Health
  BY <1>7, HealthKeeps
<1>8. CASE OpenSession
  BY <1>8, OpenSessionKeeps
<1>9. CASE Metadata
  BY <1>9, MetadataKeeps
<1>10. CASE Done
  BY <1>10, DoneKeeps
<1>11. CASE Change
  BY <1>11, ChangeKeeps
<1>12. CASE Pool
  BY <1>12, PoolKeeps
<1>13. QED
  BY <1>1, <1>2, <1>3, <1>4, <1>5, <1>6, <1>7, <1>8, <1>9, <1>10, <1>11, <1>12 DEF BootNext

LEMMA PlanStepKeeps ==
  ASSUME PlanInv, BootNext
  PROVE  PlanInv'
<1>1. MakePlan \/ TakeBatch \/ plan' = plan
  BY DEF BootNext, ChooseBuilder, Configure, Begin, Static, Artifact, Spawn, Health,
         OpenSession, Metadata, Done, Change, Pool
<1>2. QED
  BY <1>1, PlanKeeps

LEMMA BootUnchanged ==
  ASSUME HandlesInv, UNCHANGED bootVars
  PROVE  HandlesInv'
<1>1. UNCHANGED <<step, op, plan, builder, settings, place, changed, checks, worker, checked,
                  opened, pooled>>
  BY DEF bootVars
<1>2. ShapeInv' /\ WorkerInv' /\ ForetellInv' /\ KeptInv'
  BY <1>1 DEF HandlesInv, BootInv, ShapeInv, WorkerInv, ForetellInv, KeptInv, Untouched
<1>3. PlanInv'
  BY <1>1 DEF HandlesInv, PlanInv
<1>4. QED
  BY <1>2, <1>3 DEF HandlesInv, BootInv

\* Builders, operations, plans and kept workers keep their invariant, in any
\* sequence of choices, checks, opens, changes and calls.
THEOREM BuildersSafe == HandlesSpec => []HandlesInv
<1>1. HandlesInit => HandlesInv
  BY BootStart, PlanStart DEF HandlesInit, HandlesInv
<1>2. HandlesInv /\ [HandlesNext]_handlesVars => HandlesInv'
  <2> SUFFICES ASSUME HandlesInv, [HandlesNext]_handlesVars PROVE HandlesInv'
    OBVIOUS
  <2>1. CASE BootNext
    BY <2>1, BootStepKeeps, PlanStepKeeps DEF HandlesInv
  <2>2. CASE HandOver
    <3>1. plan' = plan
      BY <2>2 DEF HandOver
    <3>2. QED
      BY <2>2, <3>1, HandOverKeeps, PlanKeeps DEF HandlesInv
  <2>3. CASE UNCHANGED bootVars
    BY <2>3, BootUnchanged
  <2>4. CASE UNCHANGED handlesVars
    BY <2>4, BootUnchanged DEF handlesVars
  <2>5. QED
    BY <2>1, <2>2, <2>3, <2>4 DEF HandlesNext
<1>3. QED
  BY <1>1, <1>2, PTL DEF HandlesSpec

\* A bootstrap check tells the outcome of the open, error code included, of
\* any builder at any deployment that stays as it is (bootstrap_check and
\* open of capability.rs).
THEOREM ChecksForetell == HandlesSpec => []CheckForetellsOpen
<1>1. HandlesInv => CheckForetellsOpen
  <2> SUFFICES ASSUME HandlesInv, op = "none", checked # "none", opened # "none", ~changed
               PROVE  /\ opened # "ok" => checked = Code(opened)
                      /\ opened = "ok" => checked = "ok" \/ (builder.kind = "host" /\ ~Wants(builder))
                      /\ opened = "ok" /\ builder.kind = "host" => (checked = "ok" <=> place.opens)
    BY DEF CheckForetellsOpen
  <2>1. /\ checked = Foretold(builder, place, "check")
        /\ Foretold(builder, place, "open") = IF opened = "ok" THEN "ok" ELSE Code(opened)
    BY DEF HandlesInv, BootInv, ForetellInv
  <2>2. Foretold(builder, place, "open") # "ok" => checked = Foretold(builder, place, "open")
    BY <2>1 DEF Foretold
  <2>3. opened # "ok" => checked = Code(opened)
    BY <2>1, <2>2, CodeIsNotOk
  <2>4. ASSUME opened = "ok"
        PROVE  /\ checked = "ok" \/ (builder.kind = "host" /\ ~place.opens)
               /\ builder.kind = "host" /\ ~place.opens => checked # "ok"
               /\ Wants(builder) => place.opens
    <3>1. Foretold(builder, place, "open") = "ok"
      BY <2>1, <2>4
    <3>2. \A e \in StaticChecks(builder, place) : e # "ok"
      BY StaticType DEF Finding
    <3>3. StaticChecks(builder, place) = {}
      <4>1. ASSUME StaticChecks(builder, place) # {} PROVE FALSE
        <5>1. FirstCode(StaticChecks(builder, place)) \in Finding
          BY <4>1, StaticType
        <5>2. Foretold(builder, place, "open") = FirstCode(StaticChecks(builder, place))
          BY <4>1 DEF Foretold
        <5>3. QED
          BY <3>1, <5>1, <5>2 DEF Finding
      <4>2. QED
        BY <4>1
    <3>4. /\ Builds(builder, place) /\ SysrootErrors(builder, place) = {}
          /\ place.child = "shakes" /\ place.healthy /\ (Wants(builder) => place.opens)
          /\ ~(builder.metadata # None /\ place.metadata = "none")
          /\ MetadataHolds(builder, place)
      BY <3>1, <3>3 DEF Foretold
    <3>5. checked = IF builder.kind = "host" /\ ~place.opens THEN "WorkerStartupFailed" ELSE "ok"
      BY <2>1, <3>3, <3>4 DEF Foretold
    <3>6. QED
      BY <3>4, <3>5
  <2>5. QED
    BY <2>3, <2>4
<1>2. QED
  BY <1>1, BuildersSafe, PTL

\* A check, and an open that fails, leave no child, and one that stays is as
\* its builder asked, whatever it was and whatever changed meanwhile (open
\* and bootstrap_check of capability.rs, spawn_checked_worker).
THEOREM OpensHold == HandlesSpec => []OpensAsAsked
<1>1. HandlesInv => OpensAsAsked
  <2> SUFFICES ASSUME HandlesInv, op = "none"
               PROVE  OpensAsAsked
    BY DEF OpensAsAsked
  <2>1. ShapeInv /\ WorkerInv /\ step \notin Running
    BY DEF HandlesInv, BootInv, ShapeInv
  <2>2. step \notin Spawned /\ (opened = "ok" => step = "ready")
    BY <2>1 DEF ShapeInv, Untouched, Spawned, Running, Choosing
  <2>3. worker.up <=> opened = "ok"
    BY <2>1, <2>2 DEF WorkerInv
  <2>4. ASSUME worker.up
        PROVE  /\ worker.limits = builder.limits
               /\ worker.session = IF Wants(builder) THEN Some(SessionConfig(builder)) ELSE None
               /\ worker.imports = IF Wants(builder) THEN 1 ELSE 0
               /\ \A m \in builder.metadata :
                    worker.metadata # None /\ m.expected \in {None, worker.metadata}
               /\ LocatorOf(builder).env /\ place.variable => worker.path = "variable"
    BY <2>1, <2>2, <2>3, <2>4 DEF WorkerInv
  <2>5. Cardinality(None) = 0 /\ Cardinality(Some(SessionConfig(builder))) = 1
    BY FS_EmptySet, FS_Singleton DEF None, Some
  <2>6. worker.up => worker.imports = Cardinality(worker.session)
    BY <2>4, <2>5
  <2>7. QED
    BY <2>3, <2>4, <2>6 DEF OpensAsAsked, Wants
<1>2. QED
  BY <1>1, BuildersSafe, PTL

\* A worker opened under an equal key serves what another builder of that
\* key would ask for, and a planned batch carries the key of its own builder
\* (session_key of capability.rs, plan_work_items of planning.rs).
THEOREM KeysTell == HandlesSpec => [](EqualKeysServe /\ PlannedKeysHold)
<1>1. HandlesInv => EqualKeysServe /\ PlannedKeysHold
  BY KeptServes, PlannedKeys DEF HandlesInv, BootInv
<1>2. QED
  BY <1>1, BuildersSafe, PTL

\* No variable of a builder and its operations leaves its type, and an
\* operation that runs has a builder and a place to run in.
THEOREM BootTypeCorrect == HandlesSpec => []BootTypeOK
<1>1. HandlesInv => BootTypeOK
  <2> SUFFICES ASSUME HandlesInv PROVE BootTypeOK
    OBVIOUS
  <2>1. ShapeInv /\ WorkerInv
    BY DEF HandlesInv, BootInv
  <2>2. op # "none" => place # NoPlace /\ builder # NoBuilder
    BY <2>1, NoBuilderIsNone DEF ShapeInv, Running, Choosing
  <2>3. worker.up => worker.imports \in 0..1 /\ worker.path \in Spots
    <3> SUFFICES ASSUME worker.up PROVE worker.imports \in 0..1 /\ worker.path \in Spots
      OBVIOUS
    <3>1. step \in Spawned \cup {"ready"} /\ worker.path \in Spots
      BY <2>1 DEF WorkerInv
    <3>2. worker.imports \in {0, 1}
      BY <2>1, <3>1 DEF WorkerInv, Spawned
    <3>3. QED
      BY <3>1, <3>2
  <2>4. QED
    BY <2>1, <2>2, <2>3 DEF BootTypeOK, ShapeInv, Finding, Running, Choosing
<1>2. QED
  BY <1>1, BuildersSafe, PTL

-----------------------------------------------------------------------------
(* The names of batches                                                    *)

\* The least number of a set.
LEMMA LeastNatural ==
  ASSUME NEW S \in SUBSET Nat, S # {}
  PROVE  \E m \in S : \A k \in S : m <= k
<1> DEFINE T == {1..n : n \in S}
           R == StrictSubsetOrdering(Nat)
<1>1. T \subseteq FiniteSubsetsOf(Nat) /\ T # {}
  <2>1. \A n \in S : 1..n \in FiniteSubsetsOf(Nat)
    BY FS_Interval DEF FiniteSubsetsOf
  <2>2. QED
    BY <2>1
<1>2. PICK x \in T : \A y \in T : ~(<<y, x>> \in R)
  <2>1. IsWellFoundedOn(R, FiniteSubsetsOf(Nat))
    BY FS_StrictSubsetOrderingWellFounded
  <2> HIDE DEF T, R
  <2>2. QED
    BY <1>1, <2>1, WFMin
<1>3. PICK m \in S : x = 1..m
  BY <1>2
<1>4. ASSUME NEW k \in S, k < m PROVE FALSE
  <2>1. 1..k \in T /\ x = 1..m
    BY <1>3
  <2>2. 1..k \in SUBSET Nat /\ 1..m \in SUBSET Nat
    OBVIOUS
  <2>3. 1..k \subseteq 1..m /\ 1..k # 1..m
    <3>1. k \in Nat /\ m \in Nat
      OBVIOUS
    <3>2. m \in 1..m /\ m \notin 1..k
      BY <1>4, <3>1
    <3>3. QED
      BY <1>4, <3>1, <3>2
  <2>4. <<1..k, 1..m>> \in R
    BY <2>2, <2>3 DEF StrictSubsetOrdering
  <2> HIDE DEF T, R
  <2>5. QED
    BY <1>2, <2>1, <2>4
<1>5. \A k \in S : ~(k < m)
  BY <1>4
<1>6. QED
  BY <1>3, <1>5

\* The greatest number of a bounded set.
LEMMA GreatestNatural ==
  ASSUME NEW n \in Nat, NEW S \in SUBSET (1..n), S # {}
  PROVE  \E m \in S : \A k \in S : k <= m
<1> DEFINE T == {n - i : i \in S}
<1>1. T \in SUBSET Nat /\ T # {}
  <2>1. \A i \in S : i \in 1..n /\ n - i \in Nat
    OBVIOUS
  <2>2. QED
    BY <2>1
<1>2. PICK m \in T : \A k \in T : m <= k
  BY <1>1, LeastNatural
<1>3. PICK i \in S : m = n - i
  BY <1>2
<1>4. \A k \in S : n - i <= n - k
  BY <1>2, <1>3
<1>5. QED
  BY <1>4

-----------------------------------------------------------------------------
(* What a request writes                                                   *)


\* A list is a sequence over any set that has what it lists.
LEMMA ListIn ==
  ASSUME NEW s, NEW P, IsList(s), \A i \in DOMAIN s : s[i] \in P
  PROVE  s \in Seq(P) /\ Len(s) \in Nat /\ DOMAIN s = 1..Len(s)
<1> DEFINE R == {s[i] : i \in DOMAIN s}
<1>1. s \in Seq(R) /\ R \subseteq P
  BY DEF IsList
<1> HIDE DEF R
<1>2. QED
  BY <1>1

LEMMA OneOf == ASSUME NEW P, NEW c \in P PROVE <<c>> \in Seq(P) /\ Len(<<c>>) = 1 /\ <<c>>[1] = c
OBVIOUS

\* A text, a separator and a text.
LEMMA Separated ==
  ASSUME NEW P, NEW c \in P, NEW a \in Seq(P), NEW w \in Seq(P)
  PROVE  /\ (a \o <<c>>) \o w \in Seq(P)
         /\ Len((a \o <<c>>) \o w) = Len(a) + 1 + Len(w)
         /\ \A i \in 1..Len(a) : ((a \o <<c>>) \o w)[i] = a[i]
         /\ ((a \o <<c>>) \o w)[Len(a) + 1] = c
         /\ \A i \in 1..Len(w) : ((a \o <<c>>) \o w)[Len(a) + 1 + i] = w[i]
<1>1. <<c>> \in Seq(P) /\ Len(<<c>>) = 1 /\ <<c>>[1] = c
  BY OneOf
<1>2. PICK b : b = a \o <<c>>
  OBVIOUS
<1>3. /\ b \in Seq(P) /\ Len(b) = Len(a) + 1 /\ Len(a) \in Nat
      /\ \A i \in 1..Len(a) : b[i] = a[i]
      /\ b[Len(a) + 1] = c
  <2>1. /\ b \in Seq(P) /\ Len(b) = Len(a) + 1 /\ Len(a) \in Nat
        /\ \A i \in 1..(Len(a) + 1) : b[i] = IF i <= Len(a) THEN a[i] ELSE <<c>>[i - Len(a)]
    BY <1>1, <1>2, ConcatProperties
  <2>2. b[Len(a) + 1] = <<c>>[1]
    <3>1. Len(a) + 1 \in 1..(Len(a) + 1) /\ ~(Len(a) + 1 <= Len(a)) /\ (Len(a) + 1) - Len(a) = 1
      BY <2>1
    <3>2. QED
      BY <2>1, <3>1
  <2>3. QED
    BY <1>1, <2>1, <2>2
<1>4. /\ b \o w \in Seq(P) /\ Len(b \o w) = Len(b) + Len(w) /\ Len(w) \in Nat
      /\ \A i \in 1..(Len(b) + Len(w)) : (b \o w)[i] = IF i <= Len(b) THEN b[i] ELSE w[i - Len(b)]
  <2>1. b \in Seq(P)
    BY <1>3
  <2>2. QED
    BY <2>1, ConcatProperties
<1>5. \A i \in 1..Len(w) : (b \o w)[Len(a) + 1 + i] = w[i]
  <2> TAKE i \in 1..Len(w)
  <2>1. /\ Len(a) + 1 + i \in 1..(Len(b) + Len(w)) /\ ~(Len(a) + 1 + i <= Len(b))
        /\ (Len(a) + 1 + i) - Len(b) = i
    BY <1>3, <1>4
  <2>2. QED
    BY <1>4, <2>1
<1>6. /\ \A i \in 1..Len(a) : (b \o w)[i] = b[i]
      /\ (b \o w)[Len(a) + 1] = b[Len(a) + 1]
  BY <1>3, <1>4
<1>7. QED
  BY <1>2, <1>3, <1>4, <1>5, <1>6

Without(s, c) == \A i \in 1..Len(s) : s[i] # c

\* The last of the separators divides a text in one way.
LEMMA LastSeparator ==
  ASSUME NEW P, NEW c \in P, NEW x \in Seq(P), NEW y \in Seq(P), NEW u \in Seq(P), NEW v \in Seq(P),
         Without(u, c), Without(v, c),
         (x \o <<c>>) \o u = (y \o <<c>>) \o v
  PROVE  x = y /\ u = v
<1>1. PICK z : z = (x \o <<c>>) \o u
  OBVIOUS
<1>2. /\ Len(z) = Len(x) + 1 + Len(u) /\ Len(x) \in Nat /\ Len(u) \in Nat
      /\ \A i \in 1..Len(x) : z[i] = x[i]
      /\ z[Len(x) + 1] = c
      /\ \A i \in 1..Len(u) : z[Len(x) + 1 + i] = u[i]
  BY <1>1, Separated
<1>3. /\ Len(z) = Len(y) + 1 + Len(v) /\ Len(y) \in Nat /\ Len(v) \in Nat
      /\ \A i \in 1..Len(y) : z[i] = y[i]
      /\ z[Len(y) + 1] = c
      /\ \A i \in 1..Len(v) : z[Len(y) + 1 + i] = v[i]
  <2>1. z = (y \o <<c>>) \o v
    BY <1>1
  <2>2. Len(y) \in Nat /\ Len(v) \in Nat
    OBVIOUS
  <2>3. QED
    BY <2>1, <2>2, Separated
<1>4. ~(Len(x) < Len(y))
  <2> SUFFICES ASSUME Len(x) < Len(y) PROVE FALSE
    OBVIOUS
  <2>1. PICK i \in 1..Len(u) : Len(x) + 1 + i = Len(y) + 1
    <3>1. Len(y) - Len(x) \in 1..Len(u) /\ Len(x) + 1 + (Len(y) - Len(x)) = Len(y) + 1
      BY <1>2, <1>3
    <3>2. QED
      BY <3>1
  <2>2. u[i] # c /\ z[Len(x) + 1 + i] = u[i]
    BY <1>2 DEF Without
  <2>3. z[Len(y) + 1] = c
    BY <1>3
  <2>4. QED
    BY <2>1, <2>2, <2>3
<1>5. ~(Len(y) < Len(x))
  <2> SUFFICES ASSUME Len(y) < Len(x) PROVE FALSE
    OBVIOUS
  <2>1. PICK i \in 1..Len(v) : Len(y) + 1 + i = Len(x) + 1
    <3>1. Len(x) - Len(y) \in 1..Len(v) /\ Len(y) + 1 + (Len(x) - Len(y)) = Len(x) + 1
      BY <1>2, <1>3
    <3>2. QED
      BY <3>1
  <2>2. v[i] # c /\ z[Len(y) + 1 + i] = v[i]
    BY <1>3 DEF Without
  <2>3. z[Len(x) + 1] = c
    BY <1>2
  <2>4. QED
    BY <2>1, <2>2, <2>3
<1>6. Len(x) = Len(y) /\ Len(u) = Len(v)
  BY <1>2, <1>3, <1>4, <1>5
<1>7. \A i \in 1..Len(x) : x[i] = y[i]
  BY <1>2, <1>3, <1>6
<1>8. \A i \in 1..Len(u) : u[i] = v[i]
  BY <1>2, <1>3, <1>6
<1>9. QED
  BY <1>6, <1>7, <1>8, SeqEqual

\* The texts of the first names: nothing, then a name more at a time.
IsText(f, k, names, P) ==
  /\ f \in [0..k -> Seq(P)] /\ f[0] = <<>>
  /\ \A i \in 1..k : f[i] = f[i - 1] \o <<Comma>> \o names[i]

LEMMA TextsAre ==
  ASSUME NEW P, Comma \in P, NEW names \in Seq(Seq(P))
  PROVE  \E f : IsText(f, Len(names), names, P)
<1> DEFINE n == Len(names)
           S == {k \in 0..n : ~\E f : IsText(f, k, names, P)}
<1>1. n \in Nat /\ (\A i \in 1..n : names[i] \in Seq(P)) /\ <<Comma>> \in Seq(P)
  BY OneOf
<1>2. ASSUME S # {} PROVE FALSE
  <2>1. S \in SUBSET Nat
    BY <1>1
  <2>2. PICK m \in S : \A k \in S : m <= k
    <3> HIDE DEF S
    <3>1. QED
      BY <1>2, <2>1, LeastNatural, Zenon
  <2>3. m \in 0..n /\ m \in Nat /\ ~\E f : IsText(f, m, names, P)
    BY <1>1, <2>2
  <2>4. CASE m = 0
    <3>1. IsText([i \in 0..0 |-> <<>>], 0, names, P)
      <4>1. <<>> \in Seq(P) /\ 0 \in 0..0 /\ 1..0 = {}
        OBVIOUS
      <4>2. QED
        BY <4>1 DEF IsText
    <3>2. QED
      BY <2>3, <2>4, <3>1
  <2>5. CASE m > 0
    <3>1. m - 1 \in 0..n /\ m - 1 \notin S
      <4>1. m - 1 \in 0..n /\ ~(m <= m - 1)
        BY <1>1, <2>3, <2>5
      <4> HIDE DEF S
      <4>2. QED
        BY <2>2, <4>1
    <3>2. PICK f : IsText(f, m - 1, names, P)
      BY <3>1
    <3>3. PICK t : t = f[m - 1] \o <<Comma>> \o names[m]
      OBVIOUS
    <3>4. t \in Seq(P)
      <4>1. f[m - 1] \in Seq(P) /\ names[m] \in Seq(P)
        BY <1>1, <2>3, <2>5, <3>2 DEF IsText
      <4>2. f[m - 1] \o <<Comma>> \in Seq(P)
        BY <1>1, <4>1, ConcatProperties
      <4>3. QED
        BY <3>3, <4>1, <4>2, ConcatProperties
    <3>5. PICK g : g = [i \in 0..m |-> IF i = m THEN t ELSE f[i]]
      OBVIOUS
    <3>6. /\ g \in [0..m -> Seq(P)] /\ g[m] = t
          /\ \A i \in 0..(m - 1) : g[i] = f[i]
      <4>1. \A i \in 0..m : i = m \/ i \in 0..(m - 1)
        BY <2>3
      <4>2. \A i \in 0..(m - 1) : f[i] \in Seq(P) /\ i \in 0..m /\ i # m
        BY <2>3, <3>2 DEF IsText
      <4>3. m \in 0..m
        BY <2>3
      <4>4. QED
        BY <3>4, <3>5, <4>1, <4>2, <4>3
    <3>7. g[0] = <<>>
      <4>1. 0 \in 0..(m - 1)
        BY <2>3, <2>5
      <4>2. QED
        BY <3>2, <3>6, <4>1 DEF IsText
    <3>8. \A i \in 1..m : g[i] = g[i - 1] \o <<Comma>> \o names[i]
      <4> TAKE i \in 1..m
      <4>1. i - 1 \in 0..(m - 1)
        BY <2>3
      <4>2. CASE i = m
        BY <3>3, <3>6, <4>1, <4>2
      <4>3. CASE i # m
        <5>1. i \in 1..(m - 1) /\ i \in 0..(m - 1)
          BY <2>3, <4>3
        <5>2. QED
          BY <3>2, <3>6, <4>1, <5>1 DEF IsText
      <4>4. QED
        BY <4>2, <4>3
    <3>9. IsText(g, m, names, P)
      BY <3>6, <3>7, <3>8 DEF IsText
    <3>10. QED
      BY <2>3, <3>9
  <2>6. QED
    BY <2>3, <2>4, <2>5
<1>3. n \in 0..n
  BY <1>1
<1>4. QED
  BY <1>2, <1>3

LEMMA JoinedIs ==
  ASSUME NEW P, Comma \in P, NEW names \in Seq(Seq(P))
  PROVE  \E f : IsText(f, Len(names), names, P) /\ Joined(names) = f[Len(names)]
<1> DEFINE n == Len(names)
           Next1(f) == [i \in 0..n |-> IF i = 0 THEN <<>> ELSE f[i - 1] \o <<Comma>> \o names[i]]
           text == CHOOSE f : f = Next1(f)
<1>1. n \in Nat
  OBVIOUS
<1>2. PICK f : IsText(f, n, names, P)
  BY TextsAre
<1>3. f = Next1(f)
  <2>1. f \in [0..n -> Seq(P)] /\ \A i \in 0..n : i = 0 \/ i \in 1..n
    BY <1>1, <1>2 DEF IsText
  <2>2. \A i \in 0..n : f[i] = IF i = 0 THEN <<>> ELSE f[i - 1] \o <<Comma>> \o names[i]
    BY <1>2, <2>1 DEF IsText
  <2>3. QED
    BY <2>1, <2>2
<1>4. text = Next1(text)
  <2> HIDE DEF Next1
  <2>1. QED
    BY <1>3
<1>5. Joined(names) = text[n]
  BY DEF Joined
<1> HIDE DEF text
<1>6. \A i \in 0..n : text[i] = f[i]
  <2> DEFINE S == {i \in 0..n : text[i] # f[i]}
  <2>1. ASSUME S # {} PROVE FALSE
    <3>1. S \in SUBSET Nat
      BY <1>1
    <3>2. PICK m \in S : \A k \in S : m <= k
      <4> HIDE DEF S
      <4>1. QED
        BY <2>1, <3>1, LeastNatural, Zenon
    <3>3. m \in 0..n /\ m \in Nat /\ text[m] # f[m]
      BY <1>1, <3>2
    <3>4. text[m] = IF m = 0 THEN <<>> ELSE text[m - 1] \o <<Comma>> \o names[m]
      BY <1>4, <3>3
    <3>5. f[m] = IF m = 0 THEN <<>> ELSE f[m - 1] \o <<Comma>> \o names[m]
      BY <1>3, <3>3
    <3>6. m # 0 => text[m - 1] = f[m - 1]
      BY <3>2, <3>3
    <3>7. QED
      BY <3>3, <3>4, <3>5, <3>6
  <2>2. QED
    BY <2>1
<1>7. n \in 0..n
  BY <1>1
<1>8. QED
  BY <1>2, <1>5, <1>6, <1>7

\* Lists of names without separators are told apart by their joined texts.
LEMMA JoinedTells ==
  ASSUME NEW P, Comma \in P, NEW a \in Seq(Seq(P)), NEW b \in Seq(Seq(P)),
         \A i \in 1..Len(a) : \A j \in 1..Len(a[i]) : a[i][j] # Comma,
         \A i \in 1..Len(b) : \A j \in 1..Len(b[i]) : b[i][j] # Comma,
         Joined(a) = Joined(b)
  PROVE  a = b
<1>1. PICK f : IsText(f, Len(a), a, P) /\ Joined(a) = f[Len(a)]
  BY JoinedIs
<1>2. PICK g : IsText(g, Len(b), b, P) /\ Joined(b) = g[Len(b)]
  BY JoinedIs
<1> DEFINE Same2(i) == \A j \in 0..Len(b) : f[i] = g[j] => i = j /\ \A k \in 1..i : a[k] = b[k]
           S == {i \in 0..Len(a) : ~Same2(i)}
<1>3. /\ Len(a) \in Nat /\ \A i \in 1..Len(a) : a[i] \in Seq(P)
      /\ Len(b) \in Nat /\ \A i \in 1..Len(b) : b[i] \in Seq(P)
  OBVIOUS
<1>4. /\ f[0] = <<>> /\ \A i \in 0..Len(a) : f[i] \in Seq(P)
      /\ g[0] = <<>> /\ \A i \in 0..Len(b) : g[i] \in Seq(P)
  BY <1>1, <1>2 DEF IsText
<1>5. /\ \A i \in 1..Len(a) : i - 1 \in 0..Len(a) /\ f[i] = (f[i - 1] \o <<Comma>>) \o a[i]
      /\ \A i \in 1..Len(b) : i - 1 \in 0..Len(b) /\ g[i] = (g[i - 1] \o <<Comma>>) \o b[i]
  <2>1. /\ \A i \in 1..Len(a) : i - 1 \in 0..Len(a)
        /\ \A i \in 1..Len(b) : i - 1 \in 0..Len(b)
    BY <1>3
  <2>2. \A i \in 1..Len(a) : f[i] = (f[i - 1] \o <<Comma>>) \o a[i]
    BY <1>1 DEF IsText
  <2>3. \A i \in 1..Len(b) : g[i] = (g[i - 1] \o <<Comma>>) \o b[i]
    BY <1>2 DEF IsText
  <2>4. QED
    BY <2>1, <2>2, <2>3
<1>6. \A x, w \in Seq(P) : (x \o <<Comma>>) \o w # <<>>
  <2> SUFFICES ASSUME NEW x \in Seq(P), NEW w \in Seq(P) PROVE (x \o <<Comma>>) \o w # <<>>
    OBVIOUS
  <2>1. Len((x \o <<Comma>>) \o w) = Len(x) + 1 + Len(w)
    BY Separated
  <2>2. Len(x) \in Nat /\ Len(w) \in Nat /\ Len(<<>>) = 0
    OBVIOUS
  <2>3. Len((x \o <<Comma>>) \o w) # 0
    BY <2>1, <2>2
  <2>4. QED
    BY <2>2, <2>3
<1>7. ASSUME S # {} PROVE FALSE
  <2>1. S \in SUBSET Nat
    BY <1>3
  <2>2. PICK m \in S : \A k \in S : m <= k
    <3> HIDE DEF S
    <3>1. QED
      BY <1>7, <2>1, LeastNatural, Zenon
  <2>3. m \in 0..Len(a) /\ m \in Nat /\ ~Same2(m)
    BY <1>3, <2>2
  <2>4. PICK j \in 0..Len(b) : f[m] = g[j] /\ ~(m = j /\ \A k \in 1..m : a[k] = b[k])
    BY <2>3
  <2>5. CASE m = 0
    <3>1. j # 0
      BY <2>4, <2>5
    <3>2. j \in 1..Len(b)
      BY <1>3, <3>1
    <3>3. g[j] # <<>>
      BY <1>3, <1>4, <1>5, <1>6, <3>2
    <3>4. QED
      BY <1>4, <2>4, <2>5, <3>3
  <2>6. CASE m # 0
    <3>1. m \in 1..Len(a)
      BY <2>3, <2>6, <1>3
    <3>2. f[m] # <<>>
      BY <1>3, <1>4, <1>5, <1>6, <3>1
    <3>3. j \in 1..Len(b)
      BY <1>3, <1>4, <2>4, <3>2
    <3>4. PICK x, y, u, v : x = f[m - 1] /\ y = g[j - 1] /\ u = a[m] /\ v = b[j]
      OBVIOUS
    <3>5. /\ x \in Seq(P) /\ y \in Seq(P) /\ u \in Seq(P) /\ v \in Seq(P)
          /\ (x \o <<Comma>>) \o u = (y \o <<Comma>>) \o v
      BY <1>3, <1>4, <1>5, <2>4, <3>1, <3>3, <3>4
    <3>6. Without(u, Comma) /\ Without(v, Comma)
      BY <3>1, <3>3, <3>4 DEF Without
    <3>7. x = y /\ u = v
      BY <3>5, <3>6, LastSeparator, Zenon
    <3>8. m - 1 \in 0..Len(a) /\ j - 1 \in 0..Len(b) /\ f[m - 1] = g[j - 1] /\ a[m] = b[j]
      <4>1. m - 1 \in 0..Len(a) /\ j - 1 \in 0..Len(b)
        BY <1>5, <3>1, <3>3
      <4>2. QED
        BY <3>4, <3>7, <4>1
    <3>9. m - 1 \notin S
      <4>1. ~(m <= m - 1)
        BY <2>3
      <4> HIDE DEF S
      <4>2. QED
        BY <2>2, <4>1
    <3>10. Same2(m - 1)
      BY <3>8, <3>9
    <3>11. m - 1 = j - 1 /\ \A k \in 1..(m - 1) : a[k] = b[k]
      BY <3>8, <3>10
    <3>12. m = j
      BY <2>3, <3>11
    <3>13. \A k \in 1..m : k = m \/ k \in 1..(m - 1)
      BY <2>3
    <3>14. QED
      BY <2>4, <3>8, <3>11, <3>12, <3>13
  <2>7. QED
    BY <2>5, <2>6
<1>8. Len(a) \in 0..Len(a) /\ Len(b) \in 0..Len(b)
  BY <1>3
<1>9. Same2(Len(a))
  BY <1>7, <1>8
<1>10. Len(a) = Len(b) /\ \A k \in 1..Len(a) : a[k] = b[k]
  BY <1>1, <1>2, <1>8, <1>9
<1>11. QED
  BY <1>10, SeqEqual

\* So are lists of module names.
LEMMA NamesTell ==
  ASSUME NEW a, NEW b, AreNames(a), AreNames(b), Joined(a) = Joined(b),
         \A i \in DOMAIN a : ValidName(a[i]), \A i \in DOMAIN b : ValidName(b[i])
  PROVE  a = b
<1> DEFINE Parts(s) == UNION {{s[i][j] : j \in DOMAIN s[i]} : i \in DOMAIN s}
           P == {Comma} \cup Parts(a) \cup Parts(b)
<1>1. /\ \A i \in DOMAIN a : \A j \in DOMAIN a[i] : a[i][j] \in Parts(a)
      /\ \A i \in DOMAIN b : \A j \in DOMAIN b[i] : b[i][j] \in Parts(b)
  OBVIOUS
<1> HIDE DEF Parts
<1>2. /\ Comma \in P
      /\ \A i \in DOMAIN a : \A j \in DOMAIN a[i] : a[i][j] \in P
      /\ \A i \in DOMAIN b : \A j \in DOMAIN b[i] : b[i][j] \in P
  BY <1>1
<1> HIDE DEF P
<1>3. /\ \A i \in DOMAIN a : a[i] \in Seq(P) /\ DOMAIN a[i] = 1..Len(a[i])
      /\ \A i \in DOMAIN b : b[i] \in Seq(P) /\ DOMAIN b[i] = 1..Len(b[i])
  BY <1>2, ListIn DEF AreNames
<1>4. /\ a \in Seq(Seq(P)) /\ DOMAIN a = 1..Len(a)
      /\ b \in Seq(Seq(P)) /\ DOMAIN b = 1..Len(b)
  BY <1>3, ListIn DEF AreNames
<1>5. /\ \A i \in 1..Len(a) : \A j \in 1..Len(a[i]) : a[i][j] # Comma
      /\ \A i \in 1..Len(b) : \A j \in 1..Len(b[i]) : b[i][j] # Comma
  <2>1. ASSUME NEW n, ValidName(n), NEW j \in DOMAIN n PROVE n[j] # Comma
    BY <2>1, PlanningAssumption DEF ValidName
  <2>2. /\ \A i \in 1..Len(a) : ValidName(a[i]) /\ DOMAIN a[i] = 1..Len(a[i])
        /\ \A i \in 1..Len(b) : ValidName(b[i]) /\ DOMAIN b[i] = 1..Len(b[i])
    BY <1>3, <1>4
  <2>3. QED
    BY <2>1, <2>2
<1>6. QED
  BY <1>2, <1>4, <1>5, JoinedTells

-----------------------------------------------------------------------------
(* Plans are partitions                                                    *)

Grouped(c, works, g) == {w \in works : GroupKey(c, w) = g}

LEMMA BatchOfWork ==
  ASSUME NEW c, NEW works, NEW batch \in PlanWork(c, works).batches
  PROVE  \E w \in works :
           /\ batch.group = GroupKey(c, w)
           /\ batch.works = Grouped(c, works, GroupKey(c, w))
           /\ batch = Batch(c, batch.group, batch.works)
           /\ w \in batch.works
<1>1. PICK w \in works : batch = Batch(c, GroupKey(c, w), Grouped(c, works, GroupKey(c, w)))
  BY DEF PlanWork, Grouped
<1>2. PICK g, ws : g = GroupKey(c, w) /\ ws = Grouped(c, works, GroupKey(c, w))
  OBVIOUS
<1>3. batch.group = g /\ batch.works = ws /\ batch = Batch(c, g, ws)
  BY <1>1, <1>2 DEF Batch
<1>4. w \in Grouped(c, works, GroupKey(c, w))
  BY DEF Grouped
<1>5. QED
  BY <1>2, <1>3, <1>4

\* A work item goes into the one batch of its group.
LEMMA OneBatch ==
  ASSUME NEW c, NEW works, PlanWork(c, works).error = "none", NEW w \in works
  PROVE  Cardinality({b \in PlanWork(c, works).batches : w \in b.works}) = 1
<1> DEFINE batches == PlanWork(c, works).batches
           own == Batch(c, GroupKey(c, w), Grouped(c, works, GroupKey(c, w)))
<1>1. batches = {Batch(c, g, Grouped(c, works, g)) : g \in {GroupKey(c, v) : v \in works}}
  BY DEF PlanWork, Grouped
<1>2. own \in batches
  BY <1>1
<1>3. own.works = Grouped(c, works, GroupKey(c, w))
  BY DEF Batch
<1>4. w \in own.works
  BY <1>3 DEF Grouped
<1>5. ASSUME NEW b \in batches, w \in b.works PROVE b = own
  <2>1. PICK v \in works : /\ b.group = GroupKey(c, v) /\ b = Batch(c, b.group, b.works)
                           /\ b.works = Grouped(c, works, GroupKey(c, v))
    BY BatchOfWork
  <2>2. GroupKey(c, w) = GroupKey(c, v)
    BY <1>5, <2>1 DEF Grouped
  <2>3. QED
    BY <2>1, <2>2
<1> HIDE DEF batches, own
<1>6. {b \in batches : w \in b.works} = {own}
  BY <1>2, <1>4, <1>5
<1>7. Cardinality({own}) = 1
  BY FS_Singleton
<1>8. QED
  BY <1>6, <1>7 DEF batches

\* The fields of a group.
LEMMA GroupIs ==
  ASSUME NEW c, NEW w, NEW g, g = GroupKey(c, w)
  PROVE  /\ g.source = w.source /\ g.imports = w.imports /\ g.root = c.root /\ g.target = c.target
         /\ g.profile = c.profile /\ g.class = PlannerClass(c.policy)
BY DEF GroupKey

\* Batches of different groups have different names.
LEMMA NamesAreOwn ==
  ASSUME NEW c, NEW works, \A w \in works : AreNames(w.imports),
         NEW b \in PlanWork(c, works).batches, NEW d \in PlanWork(c, works).batches,
         \A n \in {b.group.imports[i] : i \in DOMAIN b.group.imports}
                  \cup {d.group.imports[i] : i \in DOMAIN d.group.imports} : ValidName(n),
         b.name = d.name
  PROVE  b = d
<1>1. PICK v \in works : /\ b.group = GroupKey(c, v) /\ b = Batch(c, b.group, b.works)
                         /\ b.works = Grouped(c, works, GroupKey(c, v))
  BY BatchOfWork
<1>2. PICK w \in works : /\ d.group = GroupKey(c, w) /\ d = Batch(c, d.group, d.works)
                         /\ d.works = Grouped(c, works, GroupKey(c, w))
  BY BatchOfWork
<1>3. PICK g, h : g = b.group /\ h = d.group
  OBVIOUS
<1>4. b.name = BatchKey(g, b.works) /\ d.name = BatchKey(h, d.works)
  <2>1. ASSUME NEW k, NEW ws PROVE Batch(c, k, ws).name = BatchKey(k, ws)
    BY DEF Batch
  <2>2. QED
    BY <1>1, <1>2, <1>3, <2>1
<1>5. g.source = h.source /\ Joined(g.imports) = Joined(h.imports)
  <2>1. BatchKey(g, b.works) = BatchKey(h, d.works)
    BY <1>4
  <2>2. ASSUME NEW k, NEW ws
        PROVE  BatchKey(k, ws)[3] = k.source /\ BatchKey(k, ws)[4] = Joined(k.imports)
    BY DEF BatchKey
  <2>3. QED
    BY <2>1, <2>2
<1>6. /\ g.source = v.source /\ g.imports = v.imports
      /\ h.source = w.source /\ h.imports = w.imports
  BY <1>1, <1>2, <1>3, GroupIs
<1>7. AreNames(g.imports) /\ AreNames(h.imports)
  BY <1>6
<1>8. /\ \A i \in DOMAIN g.imports : ValidName(g.imports[i])
      /\ \A i \in DOMAIN h.imports : ValidName(h.imports[i])
  <2>1. /\ \A i \in DOMAIN b.group.imports : ValidName(b.group.imports[i])
        /\ \A i \in DOMAIN d.group.imports : ValidName(d.group.imports[i])
    OBVIOUS
  <2>2. QED
    BY <1>3, <2>1
<1>9. g.imports = h.imports
  BY <1>5, <1>7, <1>8, NamesTell
<1>10. GroupKey(c, v) = GroupKey(c, w)
  BY <1>5, <1>6, <1>9 DEF GroupKey
<1>11. QED
  BY <1>1, <1>2, <1>10

\* A plan is the last one that was made, or none.
PlanMade ==
  \/ plan.works = {} /\ plan.result = [error |-> "none", batches |-> {}]
  \/ \E q \in Plans :
       /\ plan.config = q.config /\ plan.site = q.site
       /\ plan.works = DescribedWork(q.config, Discovered(q.site, q.config.roots).modules)
       /\ plan.result = PlanProject(q.config, q.site)
  \/ \E q \in WorkPlans :
       plan.site = NoSite /\ plan.works = q.works /\ plan.result = PlanWork(q.config, q.works)

LEMMA PlanIsMade == HandlesSpec => []PlanMade
<1>1. HandlesInit => PlanMade
  BY DEF HandlesInit, BootInit, NoPlan, PlanMade
<1>2. PlanMade /\ [HandlesNext]_handlesVars => PlanMade'
  <2> SUFFICES ASSUME PlanMade, [HandlesNext]_handlesVars PROVE PlanMade'
    OBVIOUS
  <2>1. CASE MakePlan
    <3>1. CASE \E q \in Plans :
            plan' = [config |-> q.config, site |-> q.site,
                     works |-> DescribedWork(q.config, Discovered(q.site, q.config.roots).modules),
                     result |-> PlanProject(q.config, q.site)]
      <4>1. PICK q \in Plans :
              /\ plan'.config = q.config /\ plan'.site = q.site
              /\ plan'.works = DescribedWork(q.config, Discovered(q.site, q.config.roots).modules)
              /\ plan'.result = PlanProject(q.config, q.site)
        BY <3>1
      <4>2. QED
        BY <4>1 DEF PlanMade
    <3>2. CASE \E q \in WorkPlans :
            plan' = [config |-> q.config, site |-> NoSite, works |-> q.works,
                     result |-> PlanWork(q.config, q.works)]
      <4>1. PICK q \in WorkPlans :
              plan'.site = NoSite /\ plan'.works = q.works /\ plan'.result = PlanWork(q.config, q.works)
        BY <3>2
      <4>2. QED
        BY <4>1 DEF PlanMade
    <3>3. QED
      BY <2>1, <3>1, <3>2 DEF MakePlan
  <2>2. CASE TakeBatch
    BY <2>2 DEF TakeBatch, NoPlan, PlanMade
  <2>3. CASE plan' = plan
    BY <2>3 DEF PlanMade
  <2>4. BootNext => MakePlan \/ TakeBatch \/ plan' = plan
    BY DEF BootNext, ChooseBuilder, Configure, Begin, Static, Artifact, Spawn, Health,
           OpenSession, Metadata, Done, Change, Pool
  <2>5. HandlesNext => BootNext \/ plan' = plan
    BY DEF HandlesNext, HandOver, bootVars
  <2>6. UNCHANGED handlesVars => plan' = plan
    BY DEF handlesVars, bootVars
  <2>7. QED
    BY <2>1, <2>2, <2>3, <2>4, <2>5, <2>6
<1>3. QED
  BY <1>1, <1>2, PTL DEF HandlesSpec

\* What PlansPartition asks, of planned work.
LEMMA WorkParts ==
  ASSUME NEW c, NEW works, \A w \in works : AreNames(w.imports)
  PROVE  LET r == PlanWork(c, works)
         IN /\ r.error = "none" =>
                 \A w \in works : Cardinality({b \in r.batches : w \in b.works}) = 1
            /\ \A b \in r.batches :
                 /\ b.works # {} /\ b.works \subseteq works
                 /\ \A w \in b.works : w.source = b.group.source /\ w.imports = b.group.imports
                 /\ \A d \in r.batches :
                      (\A n \in {b.group.imports[i] : i \in DOMAIN b.group.imports}
                             \cup {d.group.imports[i] : i \in DOMAIN d.group.imports} : ValidName(n))
                        => (b.name = d.name => b = d)
<1> DEFINE r == PlanWork(c, works)
<1>1. r.error = "none" => \A w \in works : Cardinality({b \in r.batches : w \in b.works}) = 1
  BY OneBatch
<1>2. ASSUME NEW b \in r.batches
      PROVE  /\ b.works # {} /\ b.works \subseteq works
             /\ \A w \in b.works : w.source = b.group.source /\ w.imports = b.group.imports
  <2>1. PICK v \in works : /\ b.group = GroupKey(c, v) /\ v \in b.works
                           /\ b.works = Grouped(c, works, GroupKey(c, v))
    BY BatchOfWork
  <2>2. b.works # {} /\ b.works \subseteq works
    BY <2>1 DEF Grouped
  <2>3. \A w \in b.works : GroupKey(c, w) = b.group
    BY <2>1 DEF Grouped
  <2>4. QED
    BY <2>2, <2>3, GroupIs
<1>3. ASSUME NEW b \in r.batches, NEW d \in r.batches,
             \A n \in {b.group.imports[i] : i \in DOMAIN b.group.imports}
                      \cup {d.group.imports[i] : i \in DOMAIN d.group.imports} : ValidName(n),
             b.name = d.name
      PROVE  b = d
  BY <1>3, NamesAreOwn
<1> HIDE DEF r
<1>4. QED
  BY <1>1, <1>2, <1>3 DEF r

LEMMA PlansPart == PlanMade => PlansPartition
<1> SUFFICES ASSUME PlanMade PROVE PlansPartition
  OBVIOUS
<1>1. CASE plan.works = {} /\ plan.result = [error |-> "none", batches |-> {}]
  BY <1>1 DEF PlansPartition
<1>2. ASSUME NEW q, plan.result = PlanWork(q.config, plan.works),
             \A w \in plan.works : AreNames(w.imports)
      PROVE  PlansPartition
  BY <1>2, WorkParts DEF PlansPartition
<1>3. ASSUME NEW q \in Plans, plan.result = PlanProject(q.config, q.site),
             plan.works = DescribedWork(q.config, Discovered(q.site, q.config.roots).modules)
      PROVE  PlansPartition
  <2>1. \A w \in plan.works : AreNames(w.imports)
    BY <1>3, BootAssumption DEF DescribedWork, Work
  <2>2. CASE plan.result = PlanWork(q.config, plan.works)
    BY <1>2, <2>1, <2>2
  <2>3. CASE plan.result.error # "none" /\ plan.result.batches = {}
    BY <2>3 DEF PlansPartition
  <2>4. \/ plan.result = PlanWork(q.config, plan.works)
        \/ plan.result.error # "none" /\ plan.result.batches = {}
    <3>1. PICK found : found = Discovered(q.site, q.config.roots)
      OBVIOUS
    <3>2. plan.result = IF found.error # "none" THEN [error |-> found.error, batches |-> {}]
                        ELSE IF <<q.config.target>> \notin found.declared
                        THEN [error |-> "UnresolvedCapabilityTarget", batches |-> {}]
                        ELSE PlanWork(q.config, DescribedWork(q.config, found.modules))
      BY <1>3, <3>1 DEF PlanProject
    <3>3. plan.works = DescribedWork(q.config, found.modules)
      BY <1>3, <3>1
    <3>4. CASE found.error # "none"
      BY <3>2, <3>4
    <3>5. CASE found.error = "none" /\ <<q.config.target>> \notin found.declared
      BY <3>2, <3>5
    <3>6. CASE found.error = "none" /\ <<q.config.target>> \in found.declared
      BY <3>2, <3>3, <3>6
    <3>7. QED
      BY <3>4, <3>5, <3>6
  <2>5. QED
    BY <2>2, <2>3, <2>4
<1>4. ASSUME NEW q \in WorkPlans, plan.works = q.works, plan.result = PlanWork(q.config, q.works)
      PROVE  PlansPartition
  <2>1. \A w \in plan.works : AreNames(w.imports)
    BY <1>4, BootAssumption
  <2>2. QED
    BY <1>2, <1>4, <2>1
<1>5. QED
  BY <1>1, <1>3, <1>4 DEF PlanMade

-----------------------------------------------------------------------------
(* The innermost root                                                      *)

Ordered(s) == \A i, j \in DOMAIN s : i < j => s[i] # s[j] /\ Len(s[i]) <= Len(s[j])

\* One of finitely many lists is as long as any.
LEMMA LongestOf ==
  ASSUME NEW S, IsFiniteSet(S), S # {}, \A x \in S : Len(x) \in Nat
  PROVE  \E x \in S : \A y \in S : Len(y) <= Len(x)
<1> DEFINE Lists(T) == IsFiniteSet(T) /\ T # {} /\ \A x \in T : Len(x) \in Nat
           Longest(T) == \E x \in T : \A y \in T : Len(y) <= Len(x)
           Bad == {k \in Nat : \E T : Lists(T) /\ Cardinality(T) = k /\ ~Longest(T)}
<1>1. ASSUME Bad # {} PROVE FALSE
  <2>1. PICK m \in Bad : \A k \in Bad : m <= k
    <3>1. Bad \in SUBSET Nat
      OBVIOUS
    <3> HIDE DEF Bad
    <3>2. QED
      BY <1>1, <3>1, LeastNatural, Zenon
  <2>2. PICK T : m \in Nat /\ Lists(T) /\ Cardinality(T) = m /\ ~Longest(T)
    BY <2>1
  <2>3. PICK x \in T : TRUE
    BY <2>2
  <2>4. PICK R : R = T \ {x}
    OBVIOUS
  <2>5. IsFiniteSet(R) /\ Cardinality(R) = m - 1 /\ Cardinality(R) \in Nat
    <3>1. IsFiniteSet(R) /\ Cardinality(R) = m - 1
      BY <2>2, <2>4, FS_RemoveElement
    <3>2. QED
      BY <3>1, FS_CardinalityType
  <2>6. R # {}
    <3>1. ASSUME R = {} PROVE FALSE
      <4>1. \A y \in T : y = x
        BY <2>4, <3>1
      <4>2. Len(x) \in Nat /\ Len(x) <= Len(x)
        BY <2>2
      <4>3. QED
        BY <2>2, <4>1, <4>2
    <3>2. QED
      BY <3>1
  <2>7. Lists(R)
    BY <2>2, <2>4, <2>5, <2>6
  <2>8. Cardinality(R) \notin Bad
    <3>1. ~(m <= Cardinality(R))
      BY <2>2, <2>5
    <3> HIDE DEF Bad
    <3>2. QED
      BY <2>1, <3>1
  <2>9. Longest(R)
    <3> HIDE DEF Lists, Longest
    <3>1. QED
      BY <2>5, <2>7, <2>8
  <2>10. PICK z \in R : \A y \in R : Len(y) <= Len(z)
    BY <2>9
  <2>11. \A y \in T : (y \in R \/ y = x) /\ Len(y) \in Nat
    BY <2>2, <2>4
  <2>12. z \in T
    BY <2>4, <2>10
  <2>13. CASE Len(x) <= Len(z)
    <3>1. \A y \in T : Len(y) <= Len(z)
      BY <2>10, <2>11, <2>13
    <3>2. QED
      BY <2>2, <2>12, <3>1
  <2>14. CASE ~(Len(x) <= Len(z))
    <3>1. \A y \in T : Len(y) <= Len(x)
      BY <2>10, <2>11, <2>12, <2>14
    <3>2. QED
      BY <2>2, <2>3, <3>1
  <2>15. QED
    BY <2>13, <2>14
<1>2. Lists(S) /\ Cardinality(S) \in Nat
  BY FS_CardinalityType
<1>3. Longest(S)
  <2> HIDE DEF Lists, Longest
  <2>1. QED
    BY <1>1, <1>2
<1>4. QED
  BY <1>3

\* A finite set of lists can be counted in the order of their lengths.
LEMMA SortedExists ==
  ASSUME NEW n \in Nat
  PROVE  \A S : IsFiniteSet(S) /\ Cardinality(S) = n /\ (\A x \in S : Len(x) \in Nat) =>
                 \E s \in [1..n -> S] : Ordered(s)
<1> DEFINE Fine(k) == \A S : IsFiniteSet(S) /\ Cardinality(S) = k /\ (\A x \in S : Len(x) \in Nat) =>
                              \E s \in [1..k -> S] : Ordered(s)
           Bad == {k \in Nat : ~Fine(k)}
<1>1. ASSUME Bad # {} PROVE FALSE
  <2>1. PICK m \in Bad : \A k \in Bad : m <= k
    <3>1. Bad \in SUBSET Nat
      OBVIOUS
    <3> HIDE DEF Bad
    <3>2. QED
      BY <1>1, <3>1, LeastNatural, Zenon
  <2>2. m \in Nat /\ ~Fine(m)
    BY <2>1
  <2>3. PICK S : /\ IsFiniteSet(S) /\ Cardinality(S) = m /\ (\A x \in S : Len(x) \in Nat)
                 /\ ~\E s \in [1..m -> S] : Ordered(s)
    BY <2>2
  <2>4. CASE m = 0
    <3>1. [i \in 1..0 |-> 0] \in [1..0 -> S] /\ Ordered([i \in 1..0 |-> 0])
      <4>1. 1..0 = {}
        OBVIOUS
      <4>2. QED
        BY <4>1 DEF Ordered
    <3>2. QED
      BY <2>3, <2>4, <3>1
  <2>5. CASE m # 0
    <3>1. PICK x \in S : \A y \in S : Len(y) <= Len(x)
      <4>1. S # {}
        BY <2>3, <2>5, FS_EmptySet
      <4>2. QED
        BY <2>3, <4>1, LongestOf
    <3>2. PICK R : R = S \ {x}
      OBVIOUS
    <3>3. IsFiniteSet(R) /\ Cardinality(R) = m - 1
      BY <2>3, <3>2, FS_RemoveElement
    <3>4. m - 1 \in Nat /\ ~(m <= m - 1)
      BY <2>2, <2>5
    <3>5. m - 1 \notin Bad
      <4> HIDE DEF Bad
      <4>1. QED
        BY <2>1, <3>4
    <3>6. Fine(m - 1)
      BY <3>4, <3>5
    <3>7. PICK t \in [1..(m - 1) -> R] : Ordered(t)
      <4>1. \A y \in R : Len(y) \in Nat
        BY <2>3, <3>2
      <4>2. QED
        BY <3>3, <3>6, <4>1
    <3>8. PICK s : s = [i \in 1..m |-> IF i = m THEN x ELSE t[i]]
      OBVIOUS
    <3>9. /\ s \in [1..m -> S] /\ s[m] = x /\ DOMAIN s = 1..m
          /\ \A i \in 1..(m - 1) : s[i] = t[i] /\ t[i] \in R
      <4>1. \A i \in 1..m : i = m \/ i \in 1..(m - 1)
        BY <2>2
      <4>2. \A i \in 1..(m - 1) : i \in 1..m /\ i # m /\ t[i] \in R
        BY <2>2
      <4>3. m \in 1..m
        BY <2>2, <2>5
      <4>4. QED
        BY <3>2, <3>8, <4>1, <4>2, <4>3
    <3>10. Ordered(s)
      <4> SUFFICES ASSUME NEW i \in 1..m, NEW j \in 1..m, i < j
                   PROVE  s[i] # s[j] /\ Len(s[i]) <= Len(s[j])
        BY <3>9 DEF Ordered
      <4>1. i \in 1..(m - 1)
        BY <2>2
      <4>2. CASE j = m
        BY <3>1, <3>2, <3>9, <4>1, <4>2
      <4>3. CASE j # m
        <5>1. j \in 1..(m - 1) /\ DOMAIN t = 1..(m - 1)
          BY <2>2, <4>3
        <5>2. QED
          BY <3>7, <3>9, <4>1, <5>1 DEF Ordered
      <4>4. QED
        BY <4>2, <4>3
    <3>11. QED
      BY <2>3, <3>9, <3>10
  <2>6. QED
    BY <2>4, <2>5
<1>2. Fine(n)
  BY <1>1
<1>3. QED
  BY <1>2

LEMMA SortedIs ==
  ASSUME NEW S, IsFiniteSet(S), \A x \in S : IsList(x)
  PROVE  /\ Sorted(S) \in [1..Cardinality(S) -> S] /\ Ordered(Sorted(S))
         /\ \A x \in S : \E i \in 1..Cardinality(S) : Sorted(S)[i] = x
<1> DEFINE n == Cardinality(S)
<1>1. n \in Nat /\ \A x \in S : Len(x) \in Nat
  BY FS_CardinalityType DEF IsList
<1>2. \E s \in [1..n -> S] : Ordered(s)
  BY <1>1, SortedExists
<1>3. Sorted(S) = CHOOSE s \in [1..n -> S] : Ordered(s)
  BY Zenon DEF Sorted, Ordered
<1>4. PICK s : s = Sorted(S)
  OBVIOUS
<1>5. s \in [1..n -> S] /\ Ordered(s)
  BY <1>2, <1>3, <1>4
<1>6. ASSUME NEW i \in 1..n, NEW j \in 1..n, s[i] = s[j] PROVE i = j
  <2>1. i \in DOMAIN s /\ j \in DOMAIN s
    BY <1>5
  <2>2. ~(i < j) /\ ~(j < i)
    BY <1>5, <1>6, <2>1 DEF Ordered
  <2>3. QED
    BY <2>2
<1>7. s \in Injection(1..n, S)
  BY <1>5, <1>6 DEF Injection, IsInjective
<1>8. IsFiniteSet(1..n) /\ Cardinality(1..n) = Cardinality(S)
  BY <1>1, FS_Interval
<1>9. s \in Surjection(1..n, S)
  BY <1>7, <1>8, FS_Injection
<1>10. \A x \in S : \E i \in 1..n : s[i] = x
  BY <1>9 DEF Surjection
<1>11. QED
  BY <1>4, <1>5, <1>10

\* Of the roots that hold a module, the last is the longest.
LEMMA SourceRootIs ==
  ASSUME NEW S, IsFiniteSet(S), \A x \in S : IsList(x),
         NEW n, \E i \in DOMAIN Sorted(S) : Below(Sorted(S)[i], n)
  PROVE  \A x \in S : Below(x, n) => Len(x) <= Len(SourceRoot(n, Sorted(S)))
<1> DEFINE roots == Sorted(S)
           H == {i \in DOMAIN roots : Below(roots[i], n)}
           last == CHOOSE i \in DOMAIN roots :
                     Below(roots[i], n) /\ \A j \in DOMAIN roots : j > i => ~Below(roots[j], n)
<1>1. /\ roots \in [1..Cardinality(S) -> S] /\ Ordered(roots)
      /\ \A x \in S : \E i \in 1..Cardinality(S) : roots[i] = x
  BY SortedIs
<1>2. Cardinality(S) \in Nat /\ DOMAIN roots = 1..Cardinality(S)
  BY <1>1, FS_CardinalityType
<1>3. SourceRoot(n, roots) = roots[last]
  BY Zenon DEF SourceRoot
<1> HIDE DEF roots
<1>4. \E i \in DOMAIN roots : Below(roots[i], n) /\ \A j \in DOMAIN roots : j > i => ~Below(roots[j], n)
  <2>1. H \in SUBSET (1..Cardinality(S)) /\ H # {}
    BY <1>2 DEF roots
  <2>2. PICK m \in H : \A k \in H : k <= m
    <3> HIDE DEF H
    <3>1. QED
      BY <1>2, <2>1, GreatestNatural
  <2>3. \A j \in DOMAIN roots : j > m => ~Below(roots[j], n)
    <3> SUFFICES ASSUME NEW j \in DOMAIN roots, j > m, Below(roots[j], n) PROVE FALSE
      OBVIOUS
    <3>1. j \in H
      OBVIOUS
    <3>2. j \in Nat /\ m \in Nat
      BY <1>2, <2>1
    <3>3. QED
      BY <2>2, <3>1, <3>2
  <2>4. QED
    BY <2>2, <2>3
<1>5. last \in DOMAIN roots /\ \A j \in DOMAIN roots : j > last => ~Below(roots[j], n)
  BY <1>4
<1> HIDE DEF last
<1>6. ASSUME NEW x \in S, Below(x, n) PROVE Len(x) <= Len(roots[last])
  <2>1. PICK i \in DOMAIN roots : roots[i] = x
    BY <1>1, <1>2
  <2>2. i \in Nat /\ last \in Nat
    BY <1>2, <1>5
  <2>3. ~(i > last)
    BY <1>5, <1>6, <2>1
  <2>4. CASE i = last
    <3>1. Len(x) \in Nat
      BY DEF IsList
    <3>2. QED
      BY <2>1, <2>4, <3>1
  <2>5. CASE i < last
    BY <1>1, <1>5, <2>1, <2>5 DEF Ordered
  <2>6. QED
    BY <2>2, <2>3, <2>4, <2>5
<1>7. QED
  BY <1>3, <1>6 DEF roots

\* A directory's roots are finitely many lists.
LEMMA RootsAre ==
  ASSUME NEW d, IsDirectory(d)
  PROVE  IsFiniteSet(ModuleRoots(d)) /\ \A x \in ModuleRoots(d) : IsList(x)
<1> DEFINE own == IF d.lakefile = "lean" THEN {<<"lakefile">>} ELSE {}
<1>1. IsFiniteSet(own) /\ \A x \in own : IsList(x)
  <2>1. IsFiniteSet({}) /\ IsFiniteSet({<<"lakefile">>})
    BY FS_EmptySet, FS_Singleton
  <2>2. IsList(<<"lakefile">>)
    BY DEF IsList
  <2>3. QED
    BY <2>1, <2>2
<1> HIDE DEF own
<1>2. IsFiniteSet({n \in d.sources : Len(n) = 1})
  BY FS_Subset DEF IsDirectory
<1>3. TopLevel(d) = {n \in d.sources : Len(n) = 1} \cup own
  BY DEF TopLevel, own
<1>4. IsFiniteSet(TopLevel(d))
  BY <1>1, <1>2, <1>3, FS_Union
<1>5. \A x \in TopLevel(d) : IsList(x)
  BY <1>1, <1>3 DEF IsDirectory
<1>6. QED
  BY <1>4, <1>5 DEF ModuleRoots, IsDirectory

LEMMA PlansInnermost == PlanMade => InnermostRoot
<1> SUFFICES ASSUME PlanMade, plan.result.batches # {}, plan.site # NoSite, plan.config.roots = None,
                    NEW w \in plan.works, NEW lib \in ModuleRoots(plan.site[LakeRoot(plan.site)]),
                    Below(lib, w.module)
             PROVE  Len(lib) <= Len(w.source)
  BY DEF InnermostRoot
<1>1. PICK q \in Plans :
        /\ plan.config = q.config /\ plan.site = q.site
        /\ plan.works = DescribedWork(q.config, Discovered(q.site, q.config.roots).modules)
        /\ plan.result = PlanProject(q.config, q.site)
  BY DEF PlanMade
<1>2. PICK found : found = Discovered(q.site, None)
  OBVIOUS
<1>3. found.error = "none" /\ plan.works = DescribedWork(q.config, found.modules)
  <2>1. Discovered(q.site, q.config.roots) = found
    BY <1>1, <1>2
  <2>2. found.error = "none"
    <3>1. ASSUME found.error # "none" PROVE plan.result.batches = {}
      BY <1>1, <2>1, <3>1 DEF PlanProject
    <3>2. QED
      BY <3>1
  <2>3. QED
    BY <1>1, <2>1, <2>2
<1>4. PICK dir, roots : dir = q.site[LakeRoot(q.site)] /\ roots = Sorted(ModuleRoots(dir))
  OBVIOUS
<1>5. LakeRoot(q.site) \in {"here", "lean"} /\ found.modules = [n \in SourcesOf(dir, roots) |-> SourceRoot(n, roots)]
  <2>1. OrElse(None, Sorted(ModuleRoots(q.site[LakeRoot(q.site)]))) = roots
    BY <1>4 DEF OrElse
  <2>2. QED
    BY <1>2, <1>3, <1>4, <2>1 DEF Discovered, NotFound, LakeRoot
<1>6. IsDirectory(dir)
  <2>1. IsDirectory(q.site.here) /\ IsDirectory(q.site.lean)
    BY BootAssumption
  <2>2. QED
    BY <1>4, <1>5, <2>1
<1>7. IsFiniteSet(ModuleRoots(dir)) /\ (\A x \in ModuleRoots(dir) : IsList(x)) /\ lib \in ModuleRoots(dir)
  BY <1>1, <1>4, <1>6, RootsAre
<1>8. PICK n \in SourcesOf(dir, roots) : w.module = n /\ w.source = SourceRoot(n, roots)
  BY <1>3, <1>5 DEF DescribedWork, Work
<1>9. \E i \in DOMAIN roots : Below(roots[i], n)
  BY <1>8 DEF SourcesOf
<1>10. QED
  BY <1>4, <1>7, <1>8, <1>9, SourceRootIs

\* Keys serve and are carried as KeysTell says; a plan puts every work item into
\* one batch, with its root and imports, under a name of the batch's own, and
\* where libraries nest a module goes with the innermost (plan_work_items and
\* batch_key_string of planning.rs, discover_lake_modules of modules.rs).
THEOREM PlansHold == HandlesSpec => []KeysMeetSessions
<1>1. PlanMade => PlansPartition /\ InnermostRoot
  BY PlansPart, PlansInnermost
<1>2. EqualKeysServe /\ PlannedKeysHold /\ PlansPartition /\ InnermostRoot => KeysMeetSessions
  BY DEF KeysMeetSessions
<1>3. QED
  BY <1>1, <1>2, PlanIsMade, KeysTell, PTL

-----------------------------------------------------------------------------
(* What parent and child say of the methods                                *)

\* What a row of the parent's table may be answered by a handler of its
\* request is what the row accepts.
Fits(r) ==
  /\ \E h \in HandlerTable : h.request = r.request
  /\ \A h \in HandlerTable : h.request = r.request => h.answer \in r.accepts
  /\ r.request = "RunDataStream" =>
       {"StreamExportFailed", "StreamCallbackFailed", "StreamRowMalformed"} \subseteq r.accepts
  /\ r.request = "CapabilityMetadata" => "CapabilityMetadataMalformed" \in r.accepts
  /\ r.request = "CapabilityDoctor" => "CapabilityDoctorMalformed" \in r.accepts

LEMMA TableFits == \A r \in CallTable : Fits(r)
<1> USE DEF Handler, HandlerTable, ElaborationHandlers, LookupHandlers, MetaHandlers,
       DeclarationHandlers, ProofHandlers, BulkHandlers, ModuleHandlers, ExportHandlers
<1>1. \A r \in ElaborationCalls : Fits(r)
  BY DEF Fits, ElaborationCalls, Row
<1>2. \A r \in LookupCalls : Fits(r)
  BY DEF Fits, LookupCalls, Row
<1>3. \A r \in MetaCalls : Fits(r)
  BY DEF Fits, MetaCalls, Row
<1>4. \A r \in DeclarationCalls : Fits(r)
  BY DEF Fits, DeclarationCalls, Row
<1>5. \A r \in ProofCalls : Fits(r)
  BY DEF Fits, ProofCalls, Row
<1>6. \A r \in VerificationCalls : Fits(r)
  BY DEF Fits, VerificationCalls, Row
<1>7. \A r \in BulkCalls : Fits(r)
  BY DEF Fits, BulkCalls, Row
<1>8. \A r \in ModuleCalls : Fits(r)
  BY DEF Fits, ModuleCalls, Row
<1>9. \A r \in StreamCalls : Fits(r)
  BY DEF Fits, StreamCalls, Row
<1>10. \A r \in ExportCalls : Fits(r)
  BY DEF Fits, ExportCalls, Row
<1>11. QED
  BY <1>1, <1>2, <1>3, <1>4, <1>5, <1>6, <1>7, <1>8, <1>9, <1>10 DEF CallTable

LEMMA RowOfIs ==
  ASSUME NEW m \in Methods
  PROVE  RowOf(m) \in CallTable /\ RowOf(m).method = m
<1>1. \E r \in CallTable : r.method = m
  BY CallsAssumption
<1>2. QED
  BY <1>1 DEF RowOf

\* Every answer of the child is one that the method accepts.
LEMMA AnswersAccepted ==
  ASSUME NEW m \in Methods
  PROVE  AnswersOf(RowOf(m).request) \subseteq RowOf(m).accepts
<1>1. PICK r \in CallTable : r = RowOf(m)
  BY RowOfIs
<1>2. Fits(r)
  BY TableFits
<1>3. PICK h \in HandlerTable : h = HandlerOf(r.request) /\ h.request = r.request
  BY <1>2 DEF Fits, HandlerOf
<1>4. h.answer \in r.accepts
  BY <1>2, <1>3 DEF Fits
<1>5. AnswersOf(r.request) = {h.answer} \cup
        CASE r.request = "RunDataStream" -> {"StreamExportFailed", "StreamCallbackFailed",
                                             "StreamRowMalformed"}
          [] r.request = "CapabilityMetadata" -> {"CapabilityMetadataMalformed"}
          [] r.request = "CapabilityDoctor"   -> {"CapabilityDoctorMalformed"}
          [] OTHER -> {}
  BY <1>3 DEF AnswersOf
<1>6. AnswersOf(r.request) \subseteq r.accepts
  BY <1>2, <1>4, <1>5 DEF Fits
<1>7. QED
  BY <1>1, <1>6

Verifications == {"verify_declaration", "verify_declaration_batch"}

\* The two verifications are the ones whose handler verifies.
LEMMA VerifyHandler ==
  ASSUME NEW m \in Methods \cap Verifications
  PROVE  HandlerOf(RowOf(m).request).does = <<"request", "verify">>
<1>1. \A r \in CallTable : r.method \in Verifications =>
        r.request \in {"VerifyDeclaration", "VerifyDeclarationBatch"}
  <2> USE DEF Verifications, Row
  <2>1. \A r \in ElaborationCalls \cup LookupCalls \cup MetaCalls : r.method \notin Verifications
    BY DEF ElaborationCalls, LookupCalls, MetaCalls
  <2>2. \A r \in DeclarationCalls \cup ProofCalls \cup BulkCalls : r.method \notin Verifications
    BY DEF DeclarationCalls, ProofCalls, BulkCalls
  <2>3. \A r \in ModuleCalls \cup StreamCalls \cup ExportCalls : r.method \notin Verifications
    BY DEF ModuleCalls, StreamCalls, ExportCalls
  <2>4. \A r \in VerificationCalls : r.request \in {"VerifyDeclaration", "VerifyDeclarationBatch"}
    BY DEF VerificationCalls
  <2>5. QED
    BY <2>1, <2>2, <2>3, <2>4 DEF CallTable
<1>2. \A h \in HandlerTable : h.request \in {"VerifyDeclaration", "VerifyDeclarationBatch"} =>
        h.does = <<"request", "verify">>
  BY DEF Handler, HandlerTable, ElaborationHandlers, LookupHandlers, MetaHandlers,
         DeclarationHandlers, ProofHandlers, BulkHandlers, ModuleHandlers, ExportHandlers
<1>3. PICK r \in CallTable : r = RowOf(m) /\ r.method = m
  BY RowOfIs
<1>4. Fits(r)
  BY TableFits
<1>5. PICK h \in HandlerTable : h = HandlerOf(r.request) /\ h.request = r.request
  BY <1>4 DEF Fits, HandlerOf
<1>6. r.request \in {"VerifyDeclaration", "VerifyDeclarationBatch"}
  BY <1>1, <1>3
<1>7. h.does = <<"request", "verify">>
  BY <1>2, <1>5, <1>6
<1>8. QED
  BY <1>3, <1>5, <1>7

-----------------------------------------------------------------------------
(* Verdicts                                                                *)

LEMMA TargetsOfIs ==
  ASSUME NEW m
  PROVE  /\ Len(TargetsOf(m)) \in Nat \ {0}
         /\ TargetsOf(m) = [i \in 1..Len(TargetsOf(m)) |-> TargetsOf(m)[i]]
<1>1. PICK S : Targets \in Seq(S) /\ Targets # <<>>
  BY CallsAssumption
<1>2. Len(Targets) \in Nat \ {0}
  <2>1. Len(Targets) \in Nat /\ (Len(Targets) = 0 => Targets = <<>>)
    BY <1>1, EmptySeq
  <2>2. QED
    BY <1>1, <2>1
<1>3. CASE m = "verify_declaration"
  <2>1. PICK t : t = SubSeq(Targets, 1, 1)
    OBVIOUS
  <2>2. t \in Seq(S) /\ Len(t) = 1
    BY <1>1, <1>2, <2>1, SubSeqProperties
  <2>3. t = [i \in 1..Len(t) |-> t[i]]
    BY <2>2
  <2>4. TargetsOf(m) = t
    BY <1>3, <2>1 DEF TargetsOf
  <2>5. Len(t) \in Nat \ {0}
    BY <2>2
  <2>6. QED
    BY <2>3, <2>4, <2>5, Zenon
<1>4. CASE m # "verify_declaration"
  <2>1. Targets = [i \in 1..Len(Targets) |-> Targets[i]]
    BY <1>1
  <2>2. TargetsOf(m) = Targets
    BY <1>4 DEF TargetsOf
  <2>3. QED
    BY <1>2, <2>1, <2>2
<1>5. QED
  BY <1>3, <1>4

\* The targets of an answer are those of the call, and no row of it claims
\* more than was decided.
LEMMA JudgedIs ==
  ASSUME NEW m, NEW status, NEW rss \in Nat
  PROVE  LET rs == JudgedRows(m, status, rss)
         IN  /\ Len(rs) = Len(TargetsOf(m))
             /\ [i \in 1..Len(rs) |-> rs[i].target] = TargetsOf(m)
             /\ \A i \in 1..Len(rs) : rs[i].status \in Definite \cup {"Accepted"} =>
                  /\ status[i] = rs[i].status
                  /\ rs[i].status \in Definite /\ Ceiling # 0 => rss < Ceiling
<1>1. PICK n, t : n = Len(TargetsOf(m)) /\ t = TargetsOf(m)
  OBVIOUS
<1>2. n \in Nat /\ t = [i \in 1..n |-> t[i]]
  BY <1>1, TargetsOfIs
<1>3. PICK rs : rs = JudgedRows(m, status, rss)
  OBVIOUS
<1>4. rs = [i \in 1..n |-> [target |-> t[i], status |-> Tainted(status[i], rss)]]
  BY <1>1, <1>3 DEF JudgedRows
<1>5. Len(rs) = n /\ \A i \in 1..n : rs[i].target = t[i] /\ rs[i].status = Tainted(status[i], rss)
  BY <1>2, <1>4
<1>6. [i \in 1..Len(rs) |-> rs[i].target] = t
  BY <1>2, <1>5
<1>7. ASSUME NEW s, Tainted(s, rss) \in Definite \cup {"Accepted"}
      PROVE  /\ Tainted(s, rss) = s
             /\ s \in Definite /\ Ceiling # 0 => rss < Ceiling
  <2>1. Tainted(s, rss) = s
    BY <1>7 DEF Tainted, Definite
  <2>2. ASSUME s \in Definite, Ceiling # 0 PROVE rss < Ceiling
    <3>1. s # "BudgetExceeded" /\ s \in NonPositive
      BY <2>2 DEF Definite, NonPositive
    <3>2. ~(rss # 0 /\ rss >= Ceiling)
      BY <2>1, <2>2, <3>1 DEF Tainted
    <3>3. Ceiling \in Nat
      BY CallsAssumption
    <3>4. QED
      BY <2>2, <3>2, <3>3
  <2>3. QED
    BY <2>1, <2>2
<1>8. \A i \in 1..n : rs[i].status \in Definite \cup {"Accepted"} =>
        /\ status[i] = rs[i].status
        /\ rs[i].status \in Definite /\ Ceiling # 0 => rss < Ceiling
  BY <1>5, <1>7
<1>9. QED
  BY <1>1, <1>3, <1>5, <1>6, <1>8

LEMMA DegradedIs ==
  ASSUME NEW m
  PROVE  LET rs == Degraded(m)
         IN  /\ Len(rs) = Len(TargetsOf(m)) /\ Len(rs) # 0
             /\ [i \in 1..Len(rs) |-> rs[i].target] = TargetsOf(m)
             /\ \A i \in 1..Len(rs) : rs[i].status = "BudgetExceeded"
<1>1. PICK n, t : n = Len(TargetsOf(m)) /\ t = TargetsOf(m)
  OBVIOUS
<1>2. n \in Nat \ {0} /\ t = [i \in 1..n |-> t[i]]
  BY <1>1, TargetsOfIs
<1>3. PICK rs : rs = Degraded(m)
  OBVIOUS
<1>4. rs = [i \in 1..n |-> [target |-> t[i], status |-> "BudgetExceeded"]]
  BY <1>1, <1>3 DEF Degraded
<1>5. Len(rs) = n /\ \A i \in 1..n : rs[i].target = t[i] /\ rs[i].status = "BudgetExceeded"
  BY <1>2, <1>4
<1>6. [i \in 1..Len(rs) |-> rs[i].target] = t
  BY <1>2, <1>5
<1>7. QED
  BY <1>1, <1>2, <1>3, <1>5, <1>6

-----------------------------------------------------------------------------
(* The inductive invariant                                                 *)

CallsType ==
  /\ handle.state \in {"none", "open", "closed"} /\ handle.key \in Keys \cup {"none"}
  /\ handle.gen \in 0..gen /\ DOMAIN handle = {"state", "key", "gen"}
  /\ handle.state # "none" => handle.key \in Keys
  /\ child \in {"up", "unread", "exited", "aborted"} /\ gen \in Nat
  /\ current.key \in Keys \cup {"none"} /\ current.gen \in 0..gen
  /\ token \in {"live", "caller", "row"} /\ calls \in 0..MaxCalls
  /\ pc \in {"ready", "open", "prepare", "serve"}
  /\ ops # <<>> => pc = "serve"
  /\ rows \in Seq(BOOLEAN) /\ Len(rows) <= MaxRows
  /\ decided # <<>> => decided[2] \in Nat

\* The session is of the child that is there, and an open handle of it.
SessionInv ==
  /\ current.key # "none" => current.gen = gen /\ child \in {"up", "unread"}
  /\ handle.state = "open" /\ current.key # "none" =>
       handle.key = current.key /\ handle.gen = current.gen

\* A call in progress, and the handle that it is made through.
CallInv ==
  /\ pc = "ready" => call = NoCall
  /\ pc # "ready" =>
       /\ DOMAIN call = {"method", "token", "via", "key", "retry"}
       /\ call.key \in Keys /\ call.via \in {"open", "session", "host"}
       /\ call.via # "open" => call.method \in Methods
       /\ call.via = "host" => call.method \in HandleMethods
       /\ call.via = "open" => pc = "open" /\ call.method = "open_session"
       /\ call.via = "session" => pc # "open"
       /\ outcome = NoOutcome
  /\ pc \in {"prepare", "serve"} => handle.state = "open" /\ handle.key = call.key

\* A verification's handler does not answer before Lean has decided.
DecidedInv ==
  pc = "serve" /\ current.key # "none" /\ call.method \in Verifications /\ decided = <<>> =>
    ops \in {<<"request", "verify">>, <<"verify">>}

\* What an outcome may say: AnswersFitCalls and VerdictsAreEarned.
FairOutcome(o, rs, d) ==
  /\ o.kind # "unexpected"
  /\ o.kind = "ok" /\ (\A i \in 1..Len(o.rows) : o.rows[i].status # "BudgetExceeded") =>
       o.key = o.asked /\ o.gen = o.opened
  /\ o.kind = "ok" => \A i \in 1..Len(o.rows) :
       o.rows[i].status \in Definite \cup {"Accepted"} =>
         /\ d # <<>> /\ d[1][i] = o.rows[i].status
         /\ o.rows[i].status \in Definite /\ Ceiling # 0 => d[2] < Ceiling
  /\ o.kind = "ok" /\ o.method \in Verifications =>
       [i \in 1..Len(o.rows) |-> o.rows[i].target] = TargetsOf(o.method)
  /\ o.kind = "ok" /\ o.method = "list_declarations_strings" => ~Malformed(rs)
  /\ o.kind \in {"ok", "cancelled"} /\ o.method = "run_streaming_command" => ~Malformed(rs)

CallsInv ==
  CallsType /\ SessionInv /\ CallInv /\ DecidedInv /\ FairOutcome(outcome, rows, decided)

\* Before there is a handle nothing has been called.
BeforeCalls ==
  /\ handle = NoHandle /\ gen = 0 /\ token = "live" /\ call = NoCall /\ ops = <<>>
  /\ rows = <<>> /\ decided = <<>> /\ outcome = NoOutcome /\ calls = 0

WholeInv == IF pc = "boot" THEN BeforeCalls ELSE CallsInv

-----------------------------------------------------------------------------
(* Outcomes                                                                *)

\* All that is asked of an outcome before run_streaming_command reports it.
FairBefore(o, rs, d) ==
  /\ o.kind # "unexpected" /\ o.method = call.method
  /\ o.kind = "ok" /\ (\A i \in 1..Len(o.rows) : o.rows[i].status # "BudgetExceeded") =>
       o.key = o.asked /\ o.gen = o.opened
  /\ o.kind = "ok" => \A i \in 1..Len(o.rows) :
       o.rows[i].status \in Definite \cup {"Accepted"} =>
         /\ d # <<>> /\ d[1][i] = o.rows[i].status
         /\ o.rows[i].status \in Definite /\ Ceiling # 0 => d[2] < Ceiling
  /\ o.kind = "ok" /\ o.method \in Verifications =>
       [i \in 1..Len(o.rows) |-> o.rows[i].target] = TargetsOf(o.method)
  /\ o.kind = "ok" /\ o.method = "list_declarations_strings" => ~Malformed(rs)

LEMMA ErrorIs ==
  ASSUME NEW kind, kind \notin {"ok", "unexpected"}, NEW rs, NEW d
  PROVE  /\ FairBefore(Error(kind), rs, d)
         /\ kind # "cancelled" \/ call.method # "run_streaming_command" =>
              FairOutcome(Error(kind), rs, d)
BY DEF FairBefore, FairOutcome, Error, Outcome

LEMMA NoOutcomeFair == ASSUME NEW rs, NEW d PROVE FairOutcome(NoOutcome, rs, d)
BY DEF NoOutcome, FairOutcome

LEMMA ReportedFair ==
  ASSUME NEW o, NEW rs, NEW d, FairBefore(o, rs, d)
  PROVE  FairOutcome(Reported(o, rs), rs, d)
<1>1. CASE call.method = "run_streaming_command" /\ o.kind \in {"ok", "decode", "cancelled"}
           /\ Malformed(rs)
  <2>1. Reported(o, rs) = Error("row_decode")
    BY <1>1 DEF Reported
  <2>2. FairOutcome(Error("row_decode"), rs, d)
    BY ErrorIs
  <2>3. QED
    BY <2>1, <2>2
<1>2. CASE ~(call.method = "run_streaming_command" /\ o.kind \in {"ok", "decode", "cancelled"}
             /\ Malformed(rs))
  <2>1. Reported(o, rs) = o
    BY <1>2 DEF Reported
  <2>2. o.kind \in {"ok", "cancelled"} /\ o.method = "run_streaming_command" => ~Malformed(rs)
    BY <1>2 DEF FairBefore
  <2>3. FairOutcome(o, rs, d)
    BY <2>2 DEF FairBefore, FairOutcome
  <2>4. QED
    BY <2>1, <2>3
<1>3. QED
  BY <1>1, <1>2

\* A degraded answer names every target and decides none.
LEMMA DegradedFair ==
  ASSUME NEW rs, NEW d, call.method \in Recovers
  PROVE  FairBefore(Outcome("ok", call.key, Degraded(call.method)), rs, d)
<1>1. PICK o, g : o = Outcome("ok", call.key, g) /\ g = Degraded(call.method)
  OBVIOUS
<1>2. o.kind = "ok" /\ o.method = call.method /\ o.rows = g
  BY <1>1 DEF Outcome
<1>3. /\ Len(g) \in Nat \ {0}
      /\ [i \in 1..Len(g) |-> g[i].target] = TargetsOf(call.method)
      /\ \A i \in 1..Len(g) : g[i].status = "BudgetExceeded"
  <2>1. Len(TargetsOf(call.method)) \in Nat \ {0}
    BY TargetsOfIs
  <2>2. Len(Degraded(call.method)) = Len(TargetsOf(call.method))
    BY DegradedIs
  <2>3. QED
    BY <1>1, <2>1, <2>2, DegradedIs
<1>4. "BudgetExceeded" \notin Definite \cup {"Accepted"}
  BY DEF Definite
<1>5. \E i \in 1..Len(g) : g[i].status = "BudgetExceeded"
  <2>1. 1 \in 1..Len(g)
    BY <1>3
  <2>2. QED
    BY <1>3, <2>1
<1>6. call.method # "list_declarations_strings"
  BY DEF Recovers
<1>7. FairBefore(o, rs, d)
  BY <1>2, <1>3, <1>4, <1>5, <1>6 DEF FairBefore
<1>8. QED
  BY <1>1, <1>7

-----------------------------------------------------------------------------
(* The worker                                                              *)

\* A session stays with the child it was opened in, or is gone.
WorkerStays ==
  /\ child' \in {"up", "unread", "exited", "aborted"} /\ gen' \in Nat /\ gen <= gen'
  /\ current'.key \in Keys \cup {"none"} /\ current'.gen \in 0..gen'
  /\ current'.key # "none" => current' = current /\ gen' = gen /\ child' \in {"up", "unread"}

LEMMA WorkerKeeps ==
  ASSUME CallsType, SessionInv,
         \/ UNCHANGED workerVars \/ Restarted \/ RestartFailed
         \/ \E how \in {"exited", "aborted"} : Gone(how)
         \/ child' = "unread" /\ UNCHANGED <<current, gen>>
  PROVE  WorkerStays
<1>1. gen \in Nat /\ current.key \in Keys \cup {"none"} /\ current.gen \in 0..gen
      /\ child \in {"up", "unread", "exited", "aborted"}
  BY DEF CallsType
<1>2. NoSession.key = "none" /\ NoSession.gen = 0
  BY DEF NoSession
<1>3. CASE UNCHANGED workerVars
  BY <1>1, <1>3 DEF workerVars, WorkerStays, SessionInv
<1>4. CASE Restarted
  BY <1>1, <1>2, <1>4 DEF Restarted, Up, WorkerStays
<1>5. CASE RestartFailed
  BY <1>1, <1>2, <1>5 DEF RestartFailed, WorkerStays
<1>6. CASE \E how \in {"exited", "aborted"} : Gone(how)
  BY <1>1, <1>2, <1>6 DEF Gone, WorkerStays
<1>7. CASE child' = "unread" /\ UNCHANGED <<current, gen>>
  BY <1>1, <1>7 DEF WorkerStays
<1>8. QED
  BY <1>3, <1>4, <1>5, <1>6, <1>7

\* A call ends, or is made again.
LEMMA EndKeeps ==
  ASSUME CallsInv, pc \in {"prepare", "serve"}, NEW o, NEW rs, FinishAfter(o, rs),
         rs \in Seq(BOOLEAN), Len(rs) <= MaxRows, WorkerStays,
         token' \in {"live", "caller", "row"}, calls' = calls, decided' = decided,
         FairBefore(o, rs, decided)
  PROVE  CallsInv'
<1>1. CallsType /\ SessionInv /\ CallInv
  BY DEF CallsInv
<1>2. ops' = <<>> /\ rows' = rs /\ pc' \in {"open", "ready"}
  BY DEF FinishAfter
<1>3. /\ handle'.state \in {"none", "open", "closed"} /\ handle'.key \in Keys \cup {"none"}
      /\ handle'.gen \in 0..gen' /\ DOMAIN handle' = {"state", "key", "gen"}
      /\ handle'.state = "open" => handle' = handle
      /\ handle'.state # "none" => handle'.key \in Keys
  <2>1. gen \in Nat /\ gen' \in Nat /\ gen <= gen' /\ handle.gen \in 0..gen
    BY <1>1 DEF CallsType, WorkerStays
  <2>2. handle.gen \in 0..gen' /\ 0 \in 0..gen'
    BY <2>1
  <2>3. \/ handle' = NoHandle \/ handle' = handle
        \/ handle' = [handle EXCEPT !.state = "closed"] /\ handle.state # "none"
    BY <1>1 DEF FinishAfter, CallInv
  <2>4. CASE handle' = NoHandle
    BY <2>2, <2>4 DEF NoHandle
  <2>5. CASE handle' = handle
    BY <1>1, <2>2, <2>5 DEF CallsType
  <2>6. CASE handle' = [handle EXCEPT !.state = "closed"] /\ handle.state # "none"
    <3>1. /\ DOMAIN handle = {"state", "key", "gen"} /\ handle.key \in Keys
      BY <1>1, <2>6 DEF CallsType
    <3>2. /\ DOMAIN handle' = {"state", "key", "gen"} /\ handle'.state = "closed"
          /\ handle'.key = handle.key /\ handle'.gen = handle.gen
      BY <2>6, <3>1
    <3>3. QED
      BY <2>2, <3>1, <3>2
  <2>7. QED
    BY <2>3, <2>4, <2>5, <2>6
<1>4. CallsType'
  BY <1>1, <1>2, <1>3 DEF CallsType, WorkerStays
<1>5. SessionInv'
  <2>1. current'.key # "none" => current'.gen = gen' /\ child' \in {"up", "unread"}
    BY <1>1 DEF SessionInv, WorkerStays
  <2>2. handle'.state = "open" /\ current'.key # "none" =>
          handle'.key = current'.key /\ handle'.gen = current'.gen
    BY <1>1, <1>3 DEF SessionInv, WorkerStays
  <2>3. QED
    BY <2>1, <2>2 DEF SessionInv
<1>6. CASE call.via = "host" /\ o.kind = "session_missing" /\ ~call.retry
  <2>1. call' = [call EXCEPT !.retry = TRUE] /\ pc' = "open" /\ outcome' = outcome
    BY <1>6 DEF FinishAfter
  <2>2. CallInv'
    BY <1>1, <1>6, <2>1 DEF CallInv
  <2>3. DecidedInv' /\ FairOutcome(outcome, rows, decided)'
    <3>1. outcome' = NoOutcome
      BY <1>1, <2>1 DEF CallInv
    <3>2. QED
      BY <2>1, <3>1, NoOutcomeFair DEF DecidedInv
  <2>4. QED
    BY <1>4, <1>5, <2>2, <2>3 DEF CallsInv
<1>7. CASE ~(call.via = "host" /\ o.kind = "session_missing" /\ ~call.retry)
  <2>1. outcome' = Reported(o, rs) /\ call' = NoCall /\ pc' = "ready"
    BY <1>7 DEF FinishAfter
  <2>2. CallInv' /\ DecidedInv'
    BY <2>1 DEF CallInv, DecidedInv
  <2>3. FairOutcome(outcome', rows', decided')
    BY <1>2, <2>1, ReportedFair
  <2>4. QED
    BY <1>4, <1>5, <2>2, <2>3 DEF CallsInv
<1>8. QED
  BY <1>6, <1>7

\* An error is always fair.
LEMMA ErrorKeeps ==
  ASSUME CallsInv, pc \in {"prepare", "serve"}, NEW kind, kind \notin {"ok", "unexpected"},
         Finish(Error(kind)), WorkerStays, UNCHANGED <<token, calls, decided>>
  PROVE  CallsInv'
<1>1. FairBefore(Error(kind), rows, decided)
  BY ErrorIs
<1>2. /\ rows \in Seq(BOOLEAN) /\ Len(rows) <= MaxRows /\ token \in {"live", "caller", "row"}
  BY DEF CallsInv, CallsType
<1>3. QED
  BY <1>1, <1>2, EndKeeps DEF Finish

LEMMA LostKeeps ==
  ASSUME CallsInv, pc \in {"prepare", "serve"}, NEW how \in {"exited", "aborted"}, Lost(how),
         UNCHANGED <<token, calls, decided>>
  PROVE  CallsInv'
<1>1. CallsType /\ SessionInv
  BY DEF CallsInv
<1>2. CASE how = "aborted" /\ call.method \in Recovers
  <2>1. CASE Restarted /\ Finish(Outcome("ok", call.key, Degraded(call.method)))
    <3>1. WorkerStays
      BY <1>1, <2>1, WorkerKeeps
    <3>2. FairBefore(Outcome("ok", call.key, Degraded(call.method)), rows, decided)
      BY <1>2, DegradedFair
    <3>3. /\ rows \in Seq(BOOLEAN) /\ Len(rows) <= MaxRows /\ token \in {"live", "caller", "row"}
      BY <1>1 DEF CallsType
    <3>4. QED
      BY <2>1, <3>1, <3>2, <3>3, EndKeeps DEF Finish
  <2>2. CASE RestartFailed /\ Finish(Error("dead"))
    BY <1>1, <2>2, WorkerKeeps, ErrorKeeps
  <2>3. QED
    BY <1>2, <2>1, <2>2 DEF Lost
<1>3. CASE ~(how = "aborted" /\ call.method \in Recovers)
  BY <1>1, <1>3, WorkerKeeps, ErrorKeeps DEF Lost
<1>4. QED
  BY <1>2, <1>3

-----------------------------------------------------------------------------
(* Steps of opening                                                        *)

LEMMA EmptyRows == <<>> \in Seq(BOOLEAN) /\ Len(<<>>) = 0 /\ Len(<<>>) <= MaxRows
BY CallsAssumption

LEMMA StartOpenKeeps ==
  ASSUME CallsInv, NEW k \in Keys, StartOpen(k)
  PROVE  CallsInv'
<1>1. CallsType /\ SessionInv /\ calls + 1 \in 0..MaxCalls
  BY CallsAssumption DEF CallsInv, CallsType, StartOpen
<1>2. /\ pc' = "open" /\ calls' = calls + 1 /\ handle' = NoHandle /\ rows' = <<>>
      /\ decided' = <<>> /\ outcome' = NoOutcome /\ ops' = ops /\ token' = token
      /\ UNCHANGED <<child, gen, current>> /\ pc = "ready"
  BY DEF StartOpen, workerVars
<1>3. PICK t \in BOOLEAN :
        call' = [NoCall EXCEPT !.method = "open_session", !.via = "open", !.key = k, !.token = t]
  BY DEF StartOpen
<1>4. /\ DOMAIN call' = {"method", "token", "via", "key", "retry"}
      /\ call'.key = k /\ call'.via = "open" /\ call'.method = "open_session"
  BY <1>3 DEF NoCall
<1>5. CallsType'
  BY <1>1, <1>2, EmptyRows DEF CallsType, NoHandle
<1>6. SessionInv'
  BY <1>1, <1>2 DEF SessionInv, NoHandle
<1>7. CallInv'
  BY <1>2, <1>4 DEF CallInv
<1>8. DecidedInv' /\ FairOutcome(outcome, rows, decided)'
  BY <1>2, NoOutcomeFair DEF DecidedInv
<1>9. QED
  BY <1>5, <1>6, <1>7, <1>8 DEF CallsInv

LEMMA StartHostCallKeeps ==
  ASSUME CallsInv, NEW k \in Keys, NEW m \in Methods, StartHostCall(m, k)
  PROVE  CallsInv'
<1>1. CallsType /\ SessionInv /\ calls + 1 \in 0..MaxCalls
  BY CallsAssumption DEF CallsInv, CallsType, StartHostCall
<1>2. /\ pc' = "open" /\ calls' = calls + 1 /\ handle' = NoHandle /\ rows' = <<>>
      /\ decided' = <<>> /\ outcome' = NoOutcome /\ ops' = ops /\ token' = token
      /\ UNCHANGED <<child, gen, current>> /\ pc = "ready" /\ m \in HandleMethods
  BY DEF StartHostCall, workerVars
<1>3. /\ DOMAIN call' = {"method", "token", "via", "key", "retry"}
      /\ call'.key = k /\ call'.via = "host" /\ call'.method = m
  BY DEF StartHostCall
<1>4. CallsType'
  BY <1>1, <1>2, EmptyRows DEF CallsType, NoHandle
<1>5. SessionInv'
  BY <1>1, <1>2 DEF SessionInv, NoHandle
<1>6. CallInv'
  BY <1>2, <1>3 DEF CallInv
<1>7. DecidedInv' /\ FairOutcome(outcome, rows, decided)'
  BY <1>2, NoOutcomeFair DEF DecidedInv
<1>8. QED
  BY <1>4, <1>5, <1>6, <1>7 DEF CallsInv

\* An open that comes to nothing leaves no handle.
LEMMA NotOpenedKeeps ==
  ASSUME CallsInv, pc = "open", NEW kind, kind \notin {"ok", "unexpected"}, WorkerStays,
         outcome' = Error(kind), handle' = NoHandle, call' = NoCall, pc' = "ready",
         UNCHANGED <<token, ops, calls, rows, decided>>
  PROVE  CallsInv'
<1>1. CallsType /\ SessionInv /\ CallInv
  BY DEF CallsInv
<1>2. call.method # "run_streaming_command"
  BY <1>1 DEF CallInv, HandleMethods
<1>3. FairOutcome(outcome, rows, decided)'
  BY <1>2, ErrorIs
<1>4. CallsType'
  BY <1>1 DEF CallsType, WorkerStays, NoHandle
<1>5. SessionInv'
  BY <1>1 DEF SessionInv, WorkerStays, NoHandle
<1>6. CallInv' /\ DecidedInv'
  BY DEF CallInv, DecidedInv
<1>7. QED
  BY <1>3, <1>4, <1>5, <1>6 DEF CallsInv

LEMMA OpenRefusedKeeps ==
  ASSUME CallsInv, OpenRefused
  PROVE  CallsInv'
<1>1. CallsType /\ SessionInv
  BY DEF CallsInv
<1>2. UNCHANGED workerVars \/ RestartFailed
  BY DEF OpenRefused
<1>3. WorkerStays
  BY <1>1, <1>2, WorkerKeeps
<1>4. \E kind \in {"cancelled", "dead"} : outcome' = Error(kind)
  BY DEF OpenRefused
<1>5. QED
  BY <1>3, <1>4, NotOpenedKeeps DEF OpenRefused

LEMMA OpenFailsKeeps ==
  ASSUME CallsInv, OpenFails
  PROVE  CallsInv'
<1>1. CallsType /\ SessionInv
  BY DEF CallsInv
<1>2. WorkerStays
  <2>1. CASE Up(NoSession) /\ gen' = gen
    BY <1>1, <2>1 DEF CallsType, WorkerStays, Up, NoSession
  <2>2. CASE Restarted \/ RestartFailed
    BY <1>1, <2>2, WorkerKeeps
  <2>3. QED
    BY <2>1, <2>2 DEF OpenFails
<1>3. QED
  BY <1>2, NotOpenedKeeps DEF OpenFails

LEMMA OpenAnsweredKeeps ==
  ASSUME CallsInv, OpenAnswered
  PROVE  CallsInv'
<1>1. CallsType /\ SessionInv /\ CallInv /\ pc = "open"
  BY DEF CallsInv, OpenAnswered
<1>2. /\ gen' \in {gen, gen + 1} /\ child' = "up"
      /\ current' = [key |-> call.key, gen |-> gen']
      /\ handle' = [state |-> "open", key |-> call.key, gen |-> gen']
      /\ UNCHANGED <<token, ops, calls, rows, decided>>
  BY DEF OpenAnswered, Up
<1>3. call.key \in Keys /\ gen' \in Nat /\ gen' \in 0..gen'
  BY <1>1, <1>2 DEF CallInv, CallsType
<1>4. SessionInv'
  BY <1>2 DEF SessionInv
<1>5. CASE call.via = "host"
  <2>1. pc' = "prepare" /\ UNCHANGED <<call, outcome>>
    BY <1>5 DEF OpenAnswered
  <2>2. CallsType'
    BY <1>1, <1>2, <1>3, <2>1 DEF CallsType
  <2>3. CallInv'
    BY <1>1, <1>2, <1>5, <2>1 DEF CallInv
  <2>4. DecidedInv' /\ FairOutcome(outcome, rows, decided)'
    BY <1>2, <2>1 DEF DecidedInv, CallsInv
  <2>5. QED
    BY <1>4, <2>2, <2>3, <2>4 DEF CallsInv
<1>6. CASE call.via # "host"
  <2>1. pc' = "ready" /\ call' = NoCall /\ outcome' = Error("opened")
    BY <1>6 DEF OpenAnswered
  <2>2. CallsType'
    BY <1>1, <1>2, <1>3, <2>1 DEF CallsType
  <2>3. CallInv' /\ DecidedInv'
    BY <2>1 DEF CallInv, DecidedInv
  <2>4. FairOutcome(outcome, rows, decided)'
    BY <2>1, ErrorIs
  <2>5. QED
    BY <1>4, <2>2, <2>3, <2>4 DEF CallsInv
<1>7. QED
  BY <1>5, <1>6

-----------------------------------------------------------------------------
(* Steps of a call                                                         *)

LEMMA StartCallKeeps ==
  ASSUME CallsInv, NEW m \in Methods, StartCall(m)
  PROVE  CallsInv'
<1>1. CallsType /\ SessionInv /\ CallInv /\ calls + 1 \in 0..MaxCalls
  BY CallsAssumption DEF CallsInv, CallsType, StartCall
<1>2. /\ calls' = calls + 1 /\ rows' = <<>> /\ decided' = <<>> /\ pc = "ready"
      /\ UNCHANGED <<handle, child, gen, current, token, ops>>
  BY DEF StartCall, workerVars
<1>3. SessionInv'
  BY <1>1, <1>2 DEF SessionInv
<1>4. CASE outcome' \in {Error("encode"), Error("invalidated")} /\ UNCHANGED <<pc, call>>
  <2>1. CallsType'
    BY <1>1, <1>2, <1>4, EmptyRows DEF CallsType
  <2>2. CallInv' /\ DecidedInv'
    BY <1>1, <1>2, <1>4 DEF CallInv, DecidedInv
  <2>3. FairOutcome(outcome, rows, decided)'
    BY <1>4, ErrorIs
  <2>4. QED
    BY <1>3, <2>1, <2>2, <2>3 DEF CallsInv
<1>5. CASE /\ handle.state = "open" /\ pc' = "prepare" /\ outcome' = NoOutcome
           /\ \E t \in BOOLEAN : call' = [method |-> m, token |-> t, via |-> "session",
                                          key |-> handle.key, retry |-> FALSE]
  <2>1. /\ DOMAIN call' = {"method", "token", "via", "key", "retry"} /\ call'.method = m
        /\ call'.via = "session" /\ call'.key = handle.key
    BY <1>5
  <2>2. handle.key \in Keys
    BY <1>1, <1>5 DEF CallsType
  <2>3. CallsType'
    BY <1>1, <1>2, <1>5, EmptyRows DEF CallsType
  <2>4. CallInv'
    BY <1>2, <1>5, <2>1, <2>2 DEF CallInv
  <2>5. DecidedInv' /\ FairOutcome(outcome, rows, decided)'
    BY <1>5, NoOutcomeFair DEF DecidedInv
  <2>6. QED
    BY <1>3, <2>3, <2>4, <2>5 DEF CallsInv
<1>6. QED
  BY <1>4, <1>5 DEF StartCall

LEMMA PrepareKeeps ==
  ASSUME CallsInv, Prepare
  PROVE  CallsInv'
<1>1. /\ CallsType /\ SessionInv /\ CallInv /\ pc = "prepare"
      /\ UNCHANGED <<token, calls, decided>>
  BY DEF CallsInv, Prepare
<1>2. CASE /\ UNCHANGED workerVars \/ Restarted
           /\ pc' = "serve"
           /\ ops' = IF current'.key # "none" THEN HandlerOf(Request).does ELSE <<>>
           /\ UNCHANGED <<handle, call, outcome, rows>>
  <2>1. WorkerStays
    BY <1>1, <1>2, WorkerKeeps
  <2>2. CallsType'
    <3>1. gen \in Nat /\ gen' \in Nat /\ gen <= gen' /\ handle.gen \in 0..gen
      BY <1>1, <2>1 DEF CallsType, WorkerStays
    <3>2. handle.gen \in 0..gen'
      BY <3>1
    <3>3. QED
      BY <1>1, <1>2, <2>1, <3>2 DEF CallsType, WorkerStays
  <2>3. SessionInv'
    BY <1>1, <1>2, <2>1 DEF SessionInv, WorkerStays
  <2>4. CallInv'
    BY <1>1, <1>2 DEF CallInv
  <2>5. DecidedInv'
    <3>1. call.method \in Methods
      BY <1>1 DEF CallInv
    <3>2. call.method \in Verifications => HandlerOf(Request).does = <<"request", "verify">>
      BY <3>1, VerifyHandler DEF Request
    <3>3. QED
      BY <1>2, <3>2 DEF DecidedInv
  <2>6. FairOutcome(outcome, rows, decided)'
    BY <1>1, <1>2 DEF CallsInv
  <2>7. QED
    BY <2>2, <2>3, <2>4, <2>5, <2>6 DEF CallsInv
<1>3. CASE UNCHANGED workerVars /\ Finish(Error("cancelled"))
  BY <1>1, <1>3, WorkerKeeps, ErrorKeeps
<1>4. CASE RestartFailed /\ Finish(Error("dead"))
  BY <1>1, <1>4, WorkerKeeps, ErrorKeeps
<1>5. CASE child \in {"exited", "aborted"} /\ Lost(child)
  BY <1>1, <1>5, LostKeeps
<1>6. CASE Lost("aborted")
  BY <1>1, <1>6, LostKeeps
<1>7. CASE UNCHANGED workerVars /\ Finish(Error("aborted"))
  BY <1>1, <1>7, WorkerKeeps, ErrorKeeps
<1>8. QED
  BY <1>2, <1>3, <1>4, <1>5, <1>6, <1>7 DEF Prepare

LEMMA SessionMissingKeeps ==
  ASSUME CallsInv, SessionMissing
  PROVE  CallsInv'
<1>1. CallsType /\ SessionInv /\ pc = "serve" /\ UNCHANGED workerVars
      /\ UNCHANGED <<token, calls, decided>> /\ Finish(Error("session_missing"))
  BY DEF CallsInv, SessionMissing
<1>2. QED
  BY <1>1, WorkerKeeps, ErrorKeeps

LEMMA HandlerFailsKeeps ==
  ASSUME CallsInv, HandlerFails
  PROVE  CallsInv'
<1>1. CallsType /\ SessionInv /\ pc = "serve" /\ UNCHANGED workerVars
      /\ UNCHANGED <<token, calls, decided>> /\ Finish(Error("host_error"))
  BY DEF CallsInv, HandlerFails, Serving
<1>2. QED
  BY <1>1, WorkerKeeps, ErrorKeeps

LEMMA SinkFailsKeeps ==
  ASSUME CallsInv, SinkFails
  PROVE  CallsInv'
<1>1. CallsType /\ SessionInv /\ pc = "serve" /\ child' = "unread" /\ UNCHANGED <<current, gen>>
      /\ UNCHANGED <<token, calls, decided>> /\ Finish(Error("sink_panic"))
  BY DEF CallsInv, SinkFails, Serving
<1>2. QED
  BY <1>1, WorkerKeeps, ErrorKeeps

LEMMA InterruptedKeeps ==
  ASSUME CallsInv, Interrupted
  PROVE  CallsInv'
<1>1. CallsType /\ SessionInv /\ pc = "serve" /\ UNCHANGED <<token, calls, decided>>
  BY DEF CallsInv, Interrupted
<1>2. CASE Restarted /\ \E kind \in {"timeout", "rss_limit"} : Finish(Error(kind))
  BY <1>1, <1>2, WorkerKeeps, ErrorKeeps
<1>3. CASE RestartFailed /\ Finish(Error("dead"))
  BY <1>1, <1>3, WorkerKeeps, ErrorKeeps
<1>4. QED
  BY <1>2, <1>3 DEF Interrupted

LEMMA ChildDiesKeeps ==
  ASSUME CallsInv, pc # "boot", ChildDies
  PROVE  CallsInv'
<1>1. CallsType /\ SessionInv /\ CallInv /\ UNCHANGED <<token, calls, decided>>
  BY DEF CallsInv, ChildDies
<1>2. PICK how \in {"exited", "aborted"} :
        \/ /\ pc # "serve" /\ Gone(how)
           /\ UNCHANGED <<handle, pc, call, ops, outcome, rows>>
        \/ pc = "serve" /\ Lost(how)
  BY DEF ChildDies
<1>3. CASE pc # "serve" /\ Gone(how) /\ UNCHANGED <<handle, pc, call, ops, outcome, rows>>
  <2>1. WorkerStays /\ gen' = gen
    BY <1>1, <1>3, WorkerKeeps DEF Gone
  <2>2. CallsType' /\ SessionInv'
    BY <1>1, <1>3, <2>1 DEF CallsType, SessionInv, WorkerStays
  <2>3. CallInv' /\ DecidedInv'
    BY <1>1, <1>3 DEF CallInv, DecidedInv
  <2>4. FairOutcome(outcome, rows, decided)'
    BY <1>1, <1>3 DEF CallsInv
  <2>5. QED
    BY <2>2, <2>3, <2>4 DEF CallsInv
<1>4. CASE pc = "serve" /\ Lost(how)
  BY <1>1, <1>4, LostKeeps
<1>5. QED
  BY <1>2, <1>3, <1>4

LEMMA HandlerStepKeeps ==
  ASSUME CallsInv, HandlerStep
  PROVE  CallsInv'
<1>1. /\ CallsType /\ SessionInv /\ CallInv /\ DecidedInv /\ pc = "serve"
      /\ current.key # "none" /\ ops # <<>>
      /\ UNCHANGED <<handle, child, gen, current, pc, call, outcome, token, calls, rows>>
  BY DEF CallsInv, HandlerStep, Serving, workerVars
<1>2. /\ ops' \in {Tail(ops)} \cup (IF Head(ops) \in MayEnd THEN {<<>>} ELSE {})
      /\ IF Head(ops) = "verify"
         THEN \E status \in [1..Len(TargetsOf(call.method)) -> Verdicts], rss \in Readings :
                decided' = <<status, rss>>
         ELSE UNCHANGED decided
  BY DEF HandlerStep
<1>3. /\ decided' # <<>> => decided'[2] \in Nat
      /\ Head(ops) = "verify" => decided' # <<>>
      /\ Head(ops) # "verify" => decided' = decided
  <2>1. CASE Head(ops) = "verify"
    <3>1. PICK status \in [1..Len(TargetsOf(call.method)) -> Verdicts], rss \in Readings :
            decided' = <<status, rss>>
      BY <1>2, <2>1
    <3>2. rss \in Nat
      BY CallsAssumption
    <3>3. QED
      BY <2>1, <3>1, <3>2
  <2>2. CASE Head(ops) # "verify"
    BY <1>1, <1>2, <2>2 DEF CallsType
  <2>3. QED
    BY <2>1, <2>2
<1>4. CallsType'
  BY <1>1, <1>3 DEF CallsType
<1>5. SessionInv' /\ CallInv'
  BY <1>1 DEF SessionInv, CallInv
<1>6. DecidedInv'
  <2> SUFFICES ASSUME call.method \in Verifications, decided' = <<>>
               PROVE  ops' = <<"verify">>
    BY <1>1 DEF DecidedInv
  <2>1. Head(ops) # "verify" /\ decided = <<>>
    BY <1>3
  <2>2. ops \in {<<"request", "verify">>, <<"verify">>}
    BY <1>1, <2>1 DEF DecidedInv
  <2>3. ops = <<"request", "verify">>
    BY <2>1, <2>2
  <2>4. Head(ops) = "request" /\ Tail(ops) = <<"verify">>
    BY <2>3
  <2>5. Head(ops) \notin MayEnd
    BY <2>4 DEF MayEnd
  <2>6. QED
    BY <1>2, <2>4, <2>5
<1>7. FairOutcome(outcome, rows, decided)'
  BY <1>1, NoOutcomeFair DEF CallInv
<1>8. QED
  BY <1>4, <1>5, <1>6, <1>7 DEF CallsInv

\* A row, or a tick, that stops the call.
LEMMA StopKeeps ==
  ASSUME CallsInv, pc = "serve", NEW rs \in Seq(BOOLEAN), Len(rs) <= MaxRows, StopCancelled(rs),
         token' \in {"live", "caller", "row"}, calls' = calls, decided' = decided
  PROVE  CallsInv'
<1>1. CallsType /\ SessionInv
  BY DEF CallsInv
<1>2. FairBefore(Error("cancelled"), rs, decided) /\ FairBefore(Error("dead"), rs, decided)
  BY ErrorIs
<1>3. CASE Restarted /\ FinishAfter(Error("cancelled"), rs)
  BY <1>1, <1>2, <1>3, WorkerKeeps, EndKeeps
<1>4. CASE RestartFailed /\ FinishAfter(Error("dead"), rs)
  BY <1>1, <1>2, <1>4, WorkerKeeps, EndKeeps
<1>5. QED
  BY <1>3, <1>4 DEF StopCancelled

LEMMA RowArrivesKeeps ==
  ASSUME CallsInv, RowArrives
  PROVE  CallsInv'
<1>1. /\ CallsType /\ SessionInv /\ CallInv /\ DecidedInv /\ pc = "serve" /\ Len(rows) < MaxRows
      /\ UNCHANGED <<calls, decided>>
  BY DEF CallsInv, RowArrives, Serving
<1>2. PICK decodes \in BOOLEAN :
        LET stops == call.method = "run_streaming_command" /\ ~decodes
            rs == Append(rows, decodes)
        IN /\ token' = IF stops /\ call.token /\ token = "live" THEN "row" ELSE token
           /\ IF stops \/ Cancelled THEN StopCancelled(rs)
              ELSE /\ rows' = rs
                   /\ UNCHANGED <<handle, workerVars, pc, call, ops, outcome>>
  BY DEF RowArrives
<1>3. PICK rs : rs = Append(rows, decodes)
  OBVIOUS
<1>4. rs \in Seq(BOOLEAN) /\ Len(rs) <= MaxRows
  <2>1. rows \in Seq(BOOLEAN) /\ Len(rows) \in Nat /\ MaxRows \in Nat
    BY <1>1, CallsAssumption DEF CallsType
  <2>2. Len(rs) = Len(rows) + 1 /\ rs \in Seq(BOOLEAN)
    BY <1>3, <2>1
  <2>3. QED
    BY <1>1, <2>1, <2>2
<1>5. token' \in {"live", "caller", "row"}
  BY <1>1, <1>2 DEF CallsType
<1>6. StopCancelled(rs) \/ (rows' = rs /\ UNCHANGED <<handle, workerVars, pc, call, ops, outcome>>)
  BY <1>2, <1>3
<1>7. CASE StopCancelled(rs)
  BY <1>1, <1>4, <1>5, <1>7, StopKeeps
<1>8. CASE rows' = rs /\ UNCHANGED <<handle, workerVars, pc, call, ops, outcome>>
  <2>1. UNCHANGED <<child, gen, current>>
    BY <1>8 DEF workerVars
  <2>2. CallsType'
    BY <1>1, <1>4, <1>5, <1>8, <2>1 DEF CallsType
  <2>3. SessionInv' /\ CallInv' /\ DecidedInv'
    BY <1>1, <1>8, <2>1 DEF SessionInv, CallInv, DecidedInv
  <2>4. FairOutcome(outcome, rows, decided)'
    BY <1>1, <1>8, NoOutcomeFair DEF CallInv
  <2>5. QED
    BY <2>2, <2>3, <2>4 DEF CallsInv
<1>9. QED
  BY <1>6, <1>7, <1>8

LEMMA TickArrivesKeeps ==
  ASSUME CallsInv, TickArrives
  PROVE  CallsInv'
<1>1. /\ pc = "serve" /\ rows \in Seq(BOOLEAN) /\ Len(rows) <= MaxRows
      /\ token \in {"live", "caller", "row"} /\ UNCHANGED <<token, calls, decided>>
      /\ StopCancelled(rows)
  BY DEF CallsInv, CallsType, TickArrives, Serving
<1>2. QED
  BY <1>1, StopKeeps

\* An answer of Lean's, in the session that the handle was opened for.
LEMMA ServedFair ==
  ASSUME CallsInv, Serving, ops = <<>>,
         call.method = "list_declarations_strings" => ~Malformed(rows)
  PROVE  FairBefore(Outcome("ok", current.key, Served), rows, decided)
<1>1. CallsType /\ SessionInv /\ CallInv /\ DecidedInv /\ pc = "serve" /\ current.key # "none"
  BY DEF CallsInv, Serving
<1>2. PICK o, s : o = Outcome("ok", current.key, s) /\ s = Served
  OBVIOUS
<1>3. /\ o.kind = "ok" /\ o.method = call.method /\ o.rows = s /\ o.asked = call.key
      /\ o.opened = handle.gen /\ o.key = current.key /\ o.gen = gen
  BY <1>2 DEF Outcome
<1>4. o.key = o.asked /\ o.gen = o.opened
  BY <1>1, <1>3 DEF SessionInv, CallInv
<1>5. decided = <<>> => s = <<>> /\ call.method \notin Verifications
  BY <1>1, <1>2 DEF Served, DecidedInv
<1>6. ASSUME decided # <<>>
      PROVE  /\ [i \in 1..Len(s) |-> s[i].target] = TargetsOf(call.method)
             /\ \A i \in 1..Len(s) : s[i].status \in Definite \cup {"Accepted"} =>
                  /\ decided[1][i] = s[i].status
                  /\ s[i].status \in Definite /\ Ceiling # 0 => decided[2] < Ceiling
  <2>1. PICK status, rss : status = decided[1] /\ rss = decided[2]
    OBVIOUS
  <2>2. rss \in Nat
    BY <1>1, <1>6, <2>1 DEF CallsType
  <2>3. s = JudgedRows(call.method, status, rss)
    BY <1>2, <1>6, <2>1 DEF Served
  <2>4. QED
    BY <2>1, <2>2, <2>3, JudgedIs
<1>7. \A i \in 1..Len(s) : s[i].status \in Definite \cup {"Accepted"} =>
        /\ decided # <<>> /\ decided[1][i] = s[i].status
        /\ s[i].status \in Definite /\ Ceiling # 0 => decided[2] < Ceiling
  <2>1. CASE decided = <<>>
    <3>1. Len(s) = 0
      BY <1>5, <2>1
    <3>2. QED
      BY <3>1
  <2>2. CASE decided # <<>>
    BY <1>6, <2>2
  <2>3. QED
    BY <2>1, <2>2
<1>8. FairBefore(o, rows, decided)
  BY <1>3, <1>4, <1>5, <1>6, <1>7 DEF FairBefore
<1>9. QED
  BY <1>2, <1>8

LEMMA AnswerKeeps ==
  ASSUME CallsInv, Answer
  PROVE  CallsInv'
<1>1. /\ CallsType /\ SessionInv /\ CallInv /\ pc = "serve" /\ Serving /\ ops = <<>>
      /\ UNCHANGED <<workerVars, token, calls, decided>>
  BY DEF CallsInv, Answer, Serving
<1>2. WorkerStays
  BY <1>1, WorkerKeeps
<1>3. PICK a \in AnswersOf(Request) :
        IF a \notin RowOf(call.method).accepts THEN Finish(Error("unexpected"))
        ELSE IF a \in Refusals THEN Finish(Error("refused")) ELSE Value
  BY DEF Answer
<1>4. a \in RowOf(call.method).accepts
  <2>1. call.method \in Methods
    BY <1>1 DEF CallInv
  <2>2. QED
    BY <2>1, AnswersAccepted DEF Request
<1>5. Finish(Error("refused")) \/ Value
  BY <1>3, <1>4
<1>6. CASE \E kind \in {"refused", "bad_row", "decode"} : Finish(Error(kind))
  BY <1>1, <1>2, <1>6, ErrorKeeps
<1>7. CASE /\ Finish(Outcome("ok", current.key, Served))
           /\ call.method = "list_declarations_strings" => ~Malformed(rows)
  <2>1. FairBefore(Outcome("ok", current.key, Served), rows, decided)
    BY <1>1, <1>7, ServedFair
  <2>2. /\ rows \in Seq(BOOLEAN) /\ Len(rows) <= MaxRows /\ token \in {"live", "caller", "row"}
    BY <1>1 DEF CallsType
  <2>3. QED
    BY <1>1, <1>2, <1>7, <2>1, <2>2, EndKeeps DEF Finish
<1>8. QED
  BY <1>5, <1>6, <1>7 DEF Value

-----------------------------------------------------------------------------
(* The caller                                                              *)

LEMMA TokenKeeps ==
  ASSUME CallsInv, Cancel \/ NewToken
  PROVE  CallsInv'
<1>1. /\ token' \in {"live", "caller", "row"}
      /\ UNCHANGED <<handle, child, gen, current, pc, call, ops, rows, decided, outcome, calls>>
  BY DEF Cancel, NewToken, workerVars
<1>2. CallsType' /\ SessionInv' /\ CallInv' /\ DecidedInv'
  BY <1>1 DEF CallsInv, CallsType, SessionInv, CallInv, DecidedInv
<1>3. FairOutcome(outcome, rows, decided)'
  BY <1>1 DEF CallsInv
<1>4. QED
  BY <1>2, <1>3 DEF CallsInv

LEMMA CycleKeeps ==
  ASSUME CallsInv, Cycle
  PROVE  CallsInv'
<1>1. /\ CallsType /\ SessionInv /\ CallInv /\ pc = "ready" /\ calls + 1 \in 0..MaxCalls
      /\ calls' = calls + 1 /\ handle' = NoHandle /\ rows' = <<>> /\ decided' = <<>>
      /\ outcome' = NoOutcome /\ UNCHANGED <<token, pc, call, ops>>
  BY CallsAssumption DEF CallsInv, CallsType, Cycle
<1>2. WorkerStays
  BY <1>1, WorkerKeeps DEF Cycle
<1>3. CallsType'
  BY <1>1, <1>2, EmptyRows DEF CallsType, WorkerStays, NoHandle
<1>4. SessionInv'
  BY <1>1, <1>2 DEF SessionInv, WorkerStays, NoHandle
<1>5. CallInv' /\ DecidedInv' /\ FairOutcome(outcome, rows, decided)'
  BY <1>1, NoOutcomeFair DEF CallInv, DecidedInv
<1>6. QED
  BY <1>3, <1>4, <1>5 DEF CallsInv

LEMMA CallStepKeeps ==
  ASSUME CallsInv, pc # "boot", Next
  PROVE  CallsInv'
<1>1. ASSUME NEW k \in Keys, StartOpen(k) \/ \E m \in Methods : StartHostCall(m, k)
      PROVE  CallsInv'
  BY <1>1, StartOpenKeeps, StartHostCallKeeps
<1>2. CASE OpenRefused \/ OpenAnswered \/ OpenFails
  BY <1>2, OpenRefusedKeeps, OpenAnsweredKeeps, OpenFailsKeeps
<1>3. ASSUME NEW m \in Methods, StartCall(m) PROVE CallsInv'
  BY <1>3, StartCallKeeps
<1>4. CASE Prepare \/ SessionMissing \/ HandlerStep \/ HandlerFails
  BY <1>4, PrepareKeeps, SessionMissingKeeps, HandlerStepKeeps, HandlerFailsKeeps
<1>5. CASE ChildDies \/ Interrupted \/ RowArrives \/ TickArrives \/ SinkFails \/ Answer
  BY <1>5, ChildDiesKeeps, InterruptedKeeps, RowArrivesKeeps, TickArrivesKeeps, SinkFailsKeeps,
     AnswerKeeps
<1>6. CASE Cancel \/ NewToken \/ Cycle
  BY <1>6, TokenKeeps, CycleKeeps
<1>7. QED
  BY <1>1, <1>2, <1>3, <1>4, <1>5, <1>6 DEF Next

\* The calls begin with the session that the open prepared.
LEMMA HandOverStarts ==
  ASSUME BeforeCalls, HandOver
  PROVE  CallsInv'
<1>1. /\ pc' = "ready" /\ child' = "up"
      /\ current' \in {NoSession, [key |-> "shims", gen |-> gen], [key |-> "capability", gen |-> gen]}
      /\ UNCHANGED <<handle, gen, token, call, ops, rows, decided, outcome, calls>>
  BY DEF HandOver
<1>2. gen' = 0 /\ handle' = NoHandle /\ calls' = 0 /\ rows' = <<>> /\ decided' = <<>>
      /\ ops' = <<>> /\ call' = NoCall /\ outcome' = NoOutcome /\ token' = "live"
  BY <1>1 DEF BeforeCalls
<1>3. /\ current'.key \in Keys \cup {"none"} /\ current'.gen = 0
  BY <1>1, HandlesAssumption DEF BeforeCalls, NoSession
<1>4. 0 \in 0..MaxCalls
  BY CallsAssumption
<1>5. CallsType'
  BY <1>1, <1>2, <1>3, <1>4, EmptyRows DEF CallsType, NoHandle
<1>6. SessionInv'
  BY <1>1, <1>2, <1>3 DEF SessionInv, NoHandle
<1>7. CallInv' /\ DecidedInv' /\ FairOutcome(outcome, rows, decided)'
  BY <1>1, <1>2, NoOutcomeFair DEF CallInv, DecidedInv
<1>8. QED
  BY <1>5, <1>6, <1>7 DEF CallsInv

-----------------------------------------------------------------------------
(* The theorems about calls                                                *)

\* Handles, sessions, calls and outcomes keep their invariant, whatever
\* happens to the child.
THEOREM HandlesSafe == HandlesSpec => []WholeInv
<1>1. HandlesInit => WholeInv
  BY DEF HandlesInit, WholeInv, BeforeCalls
<1>2. WholeInv /\ [HandlesNext]_handlesVars => WholeInv'
  <2> SUFFICES ASSUME WholeInv, [HandlesNext]_handlesVars PROVE WholeInv'
    OBVIOUS
  <2>1. CASE UNCHANGED vars
    <3>1. UNCHANGED <<handle, child, gen, current, token, pc, call, ops, rows, decided, outcome,
                      calls>>
      BY <2>1 DEF vars, workerVars
    <3>2. CASE pc = "boot"
      BY <3>1, <3>2 DEF WholeInv, BeforeCalls
    <3>3. CASE pc # "boot"
      <4>1. CallsInv
        BY <3>3 DEF WholeInv
      <4>2. CallsType' /\ SessionInv' /\ CallInv' /\ DecidedInv'
        BY <3>1, <4>1 DEF CallsInv, CallsType, SessionInv, CallInv, DecidedInv
      <4>3. FairOutcome(outcome, rows, decided)'
        BY <3>1, <4>1 DEF CallsInv
      <4>4. QED
        BY <3>1, <3>3, <4>2, <4>3 DEF WholeInv, CallsInv
    <3>4. QED
      BY <3>2, <3>3
  <2>2. CASE HandOver
    <3>1. pc = "boot" /\ pc' = "ready"
      BY <2>2 DEF HandOver
    <3>2. CallsInv'
      BY <2>2, <3>1, HandOverStarts DEF WholeInv
    <3>3. QED
      BY <3>1, <3>2 DEF WholeInv
  <2>3. CASE pc # "boot" /\ Next
    <3>1. CallsInv'
      BY <2>3, CallStepKeeps DEF WholeInv
    <3>2. pc' # "boot"
      BY <3>1 DEF CallsInv, CallsType
    <3>3. QED
      BY <3>1, <3>2 DEF WholeInv
  <2>4. QED
    BY <2>1, <2>2, <2>3 DEF HandlesNext, handlesVars
<1>3. QED
  BY <1>1, <1>2, PTL DEF HandlesSpec

LEMMA OutcomesFair == WholeInv => FairOutcome(outcome, rows, decided)
BY NoOutcomeFair DEF WholeInv, BeforeCalls, CallsInv

\* No variable of a builder, its operations or its handle's calls leaves its
\* type, and an answer is one that the session it was asked of can have given
\* (WorkerSession and the host handle on supervisor.rs).
THEOREM HandlesAnswerRight == HandlesSpec => []HandlesAnswer
<1>1. WholeInv /\ BootTypeOK => HandlesAnswer
  <2> SUFFICES ASSUME WholeInv, BootTypeOK PROVE HandlesAnswer
    OBVIOUS
  <2>1. ASSUME pc # "boot" PROVE TypeOK
    <3>1. CallsType /\ SessionInv /\ CallInv
      BY <2>1 DEF WholeInv, CallsInv
    <3>2. pc # "ready" => call # NoCall
      BY <3>1 DEF CallInv, NoCall
    <3>3. QED
      BY <3>1, <3>2 DEF TypeOK, CallsType, SessionInv, CallInv
  <2>2. AnswersFitCalls
    <3>1. FairOutcome(outcome, rows, decided)
      BY OutcomesFair
    <3>2. QED
      BY <3>1 DEF AnswersFitCalls, FairOutcome, AnswersFromOwnSession, NoUnexpectedResponse,
                  RowFailureSurfaces
  <2>3. QED
    BY <2>1, <2>2 DEF HandlesAnswer, HandlesTypeOK
<1>2. QED
  BY <1>1, HandlesSafe, BootTypeCorrect, PTL

\* A verification that succeeds answers every target in order, and no verdict
\* is worse than Lean's nor taken under memory pressure
\* (apply_memory_pressure_taint and recover_child_abort of the worker).
THEOREM VerdictsHold == HandlesSpec => []VerdictsAreEarned
<1>1. WholeInv => VerdictsAreEarned
  <2> SUFFICES ASSUME FairOutcome(outcome, rows, decided) PROVE VerdictsAreEarned
    BY OutcomesFair
  <2>1. NoFalseVerdict
    BY DEF FairOutcome, NoFalseVerdict
  <2>2. EveryTargetAnswered
    BY DEF FairOutcome, EveryTargetAnswered, Verifications
  <2>3. QED
    BY <2>1, <2>2 DEF VerdictsAreEarned
<1>2. QED
  BY <1>1, HandlesSafe, PTL
=============================================================================
