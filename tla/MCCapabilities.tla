--------------------------- MODULE MCCapabilities ---------------------------
(* Handles: every method of the table, two targets, and a session of each  *)
(* kind; builders that differ in every field of the key, deployments with  *)
(* at most one thing wrong, projects with nested libraries.  Artifacts:    *)
(* those of MCArtifacts.                                                   *)
EXTENDS Capabilities, MCArtifacts

CONSTANTS b1, b2

MCMethods == {r.method : r \in CallTable}
MCTargets == <<"theorem_a", "theorem_b">>

MCCanonical == [d \in {"link", "project", "target"} |-> IF d = "link" THEN "project" ELSE d]

A == <<"A">>
AB == <<"A", "B">>
ABC == <<"A", "B", "C">>

Expect(expected) == [export |-> "meta", expected |-> expected]
MCStarts ==
  {CapabilityBuilder("project", "A", <<>>), CapabilityBuilder("link", "A", <<A>>),
   FromBuilt([root |-> "link", target |-> "A", manifest |-> Some(<<"link", "A">>)], <<A>>),
   Configured(CapabilityBuilder("link", "A", <<A>>), Setting("expect_metadata", Expect(Some("m")))),
   HostBuilder("project", <<>>), HostBuilder("project", <<A>>)}

MCSettings ==
  {Setting("worker_child", l) : l \in {Locator("path"), Locator("other"), ForToolchain}}
  \cup {Setting("import_profile", "slim"), Setting("restart_policy", "default"),
        Setting("restart_policy", "custom"), Setting("session_pool_capacity", 0),
        Setting("import_workspace_root", "target"), Setting("import_workspace_root", "link"),
        Setting("expect_metadata", Expect(None)), Setting("expect_metadata", Expect(Some("m"))),
        Setting("expect_metadata", Expect(Some("n"))), Setting("json_command_export", "meta"),
        Setting("request_timeout", 2), Setting("shutdown_timeout", 1), Setting("rss_hard_limit", 0)}

\* An installed application, a checkout, and the flaws of each.
Installed == [files |-> [s \in Spots |-> IF s \in {"explicit", "sibling"} THEN "executable" ELSE "absent"],
              variable |-> FALSE, tree |-> FALSE, cargo |-> FALSE, toolchain |-> TRUE,
              lake |-> TRUE, manifest |-> "good", child |-> "shakes", healthy |-> TRUE,
              opens |-> TRUE, metadata |-> "m"]
Checkout == [Installed EXCEPT !.tree = TRUE, !.cargo = TRUE, !.files["profile"] = "executable"]
Flawed(p) ==
  {p} \cup {[p EXCEPT !.files["sibling"] = f] : f \in {"absent", "plain"}}
  \cup {[p EXCEPT !.child = c] : c \in {"mute", "exits", "aborts", "foreign"}}
  \cup {[p EXCEPT !.metadata = m] : m \in {"n", "none"}}
  \cup {[p EXCEPT !.variable = TRUE], [p EXCEPT !.variable = TRUE, !.files["variable"] = "executable"],
        [p EXCEPT !.toolchain = FALSE], [p EXCEPT !.lake = FALSE], [p EXCEPT !.manifest = "bad"],
        [p EXCEPT !.healthy = FALSE], [p EXCEPT !.opens = FALSE]}
MCPlaces == Flawed(Installed) \cup {Checkout, [Checkout EXCEPT !.cargo = FALSE],
              [Checkout EXCEPT !.files["release"] = "plain"], [Checkout EXCEPT !.lake = FALSE]}

\* Libraries A and A.B, nested or alone, declared, selected or found.
NoDirectory == [lakefile |-> "none", libs |-> {}, sources |-> {}]
Directory(lakefile, libs) == [lakefile |-> lakefile, libs |-> libs,
                              sources |-> {A, AB, ABC, <<"A", "D">>, <<"E">>}]
Site(here, lean) == [supported |-> TRUE, here |-> here, lean |-> lean]
Directories == {Directory(f, libs) : f \in {"toml", "lean", "unreadable"},
                                     libs \in {{}, {A}, {A, AB}, {<<"no">>}, {<<"A", "-">>}}}
               \cup {[Directory("toml", {A}) EXCEPT !.sources = @ \cup {<<"A", "-">>}]}
Sites == {Site(d, NoDirectory) : d \in Directories} \cup {Site(NoDirectory, NoDirectory)}
         \cup {Site(NoDirectory, d) : d \in Directories}
         \cup {[Site(Directory("toml", {A}), NoDirectory) EXCEPT !.supported = FALSE]}

Config(target, roots, policy, metadata) ==
  [root |-> "link", target |-> target, roots |-> roots, imports |-> <<A>>, profile |-> "full",
   policy |-> policy, metadata |-> metadata]
Configs == {Config(t, r, {}, {}) : t \in {"A", "Z"}, r \in {None, Some(<<AB, A>>), Some(<<<<"no">>>>)}}
           \cup {Config("A", None, Some(p), Some(Expect(None))) : p \in {"default", "custom"}}
MCPlans == [config : Configs, site : Sites]

Imports == {<<A>>, <<A, AB>>, <<<<"A", ",", "A", "B">>>>}
Works == {Work(m, A, i) : m \in {AB, ABC}, i \in Imports} \cup {Work(<<>>, A, <<A>>)}
MCWorkPlans == [config : {Config("A", None, None, None)},
                works : {w \in SUBSET Works : Cardinality(w) <= 3}]

\* Builders are alike.
BuilderSymmetry == Permutations({b1, b2})
=============================================================================
