----------------------------- MODULE ShimTypes -----------------------------
(***************************************************************************)
(* The types that cross the boundary between the Lean shim and Rust, as    *)
(* each side declares them.  Lean declares constructors and fields; the    *)
(* host reads a constructor's object slots and the bytes behind them with  *)
(* tags, counts and offsets written out by hand; nothing but agreement of  *)
(* the two texts makes them fit.  A field has Lean's name on every side    *)
(* (goals_before is "goalsBefore"), a constructor too (NoTerm is           *)
(* "noTerm").                                                              *)
(***************************************************************************)
EXTENDS Naturals, Sequences, TLC

(* -- Lean: declarations and their layout -------------------------------- *)

\* A constructor: its object fields, its UInt64 fields and its one-byte
\* fields (Bool, or an enumeration), each in the order of declaration.
Packed(name, objs, words, bytes) ==
    [name |-> name, objs |-> objs, words |-> words, bytes |-> bytes]
Ctor(name, objs)  == Packed(name, objs, <<>>, <<>>)
Struct(objs)      == << Ctor("mk", objs) >>
Enum(names)       == [i \in 1 .. Len(names) |-> Ctor(names[i], <<>>)]

\* Where the scalars of a constructor are, counted from the end of its
\* object slots: the eight-byte ones first.  Offset -> <<field, width>>.
Scalars(c) ==
    [o \in {8 * (i - 1) : i \in DOMAIN c.words}
              \cup {8 * Len(c.words) + j - 1 : j \in DOMAIN c.bytes} |->
        IF o < 8 * Len(c.words) THEN <<c.words[o \div 8 + 1], 8>>
        ELSE <<c.bytes[o - 8 * Len(c.words) + 1], 1>>]

\* The bytes behind the object slots; an object's size is a multiple of 8.
ScalarSize(c) == 8 * Len(c.words) + 8 * ((Len(c.bytes) + 7) \div 8)

\* Without any field it is no object at all but the boxed tag.
Boxed(c) == c.objs = <<>> /\ c.words = <<>> /\ c.bytes = <<>>

Fields(c) == {c.objs[i]  : i \in DOMAIN c.objs} \cup
             {c.words[i] : i \in DOMAIN c.words} \cup
             {c.bytes[i] : i \in DOMAIN c.bytes}

Span == <<"startLine", "startColumn", "endLine", "endColumn">>

LeanElaboration == [
    Severity        |-> Enum(<<"info", "warning", "error">>),
    DiagnosticPos   |-> Struct(<<"line", "column", "endLine", "endColumn">>),
    Diagnostic      |-> << Packed("mk", <<"message", "position", "fileLabel">>,
                                  <<>>, <<"severity">>) >>,
    Truncation      |-> Enum(<<"complete", "truncated">>),
    ElabFailure     |-> << Packed("mk", <<"diagnostics">>, <<>>, <<"truncated">>) >>,
    KernelOutcome   |-> << Ctor("checked", <<"evidence">>),
                           Ctor("rejected", <<"failure">>),
                           Ctor("unavailable", <<"failure">>),
                           Ctor("unsupported", <<"failure">>) >>]

LeanEvidence == [
    EvidenceStatus  |-> Enum(<<"checked", "rejected", "unavailable", "unsupported">>),
    ProofSummary    |-> Struct(<<"declarationName", "kind", "typeSignature">>)]

LeanMeta == [
    MetaResponse    |-> << Ctor("ok", <<"value">>),
                           Ctor("failed", <<"failure">>),
                           Ctor("timeoutOrHeartbeat", <<"failure">>),
                           Ctor("unsupported", <<"failure">>) >>]

LeanPositions == [
    ModuleSourceSpan |-> Struct(Span),
    RenderedInfo     |-> << Packed("mk", <<"value">>, <<>>, <<"truncated">>) >>,
    SerializableNameRef |->
        << Packed("mk", Span \o <<"name">>, <<>>, <<"isBinder">>) >>,
    TypeAtResult     |-> << Ctor("term", <<"span", "expr", "typeStr", "expectedType">>),
                            Ctor("noTerm", <<>>) >>,
    GoalAtResult     |-> << Packed("goal", <<"span", "goalsBefore", "goalsAfter">>,
                                   <<>>, <<"truncated">>),
                            Ctor("noTacticContext", <<>>) >>,
    ReferencesResult |-> << Packed("mk", <<"references">>, <<>>, <<"truncated">>) >>,
    LocalInfo        |-> Struct(<<"name", "binderInfo", "typeStr", "value">>),
    DeclarationTargetInfo |->
        Struct(<<"shortName", "declarationName", "namespaceName", "declarationKind",
                 "declarationSpan", "nameSpan", "bodySpan">>),
    DeclarationTargetResult |->
        << Ctor("target", <<"info">>), Ctor("notFound", <<>>),
           Ctor("ambiguous", <<"candidates">>) >>,
    DeclarationOutlineResult |->
        << Packed("mk", <<"declarations">>, <<>>, <<"truncated">>) >>,
    ProofBoundaryCandidate |-> Struct(<<"index", "kind", "source", "excerpt">>),
    ProofStateInfo   |->
        << Packed("mk", <<"declarationName", "namespaceName", "safeEdit", "span",
                          "goalsBefore", "goalsAfter", "locals", "expectedType",
                          "proofBoundaries">>,
                  <<>>, <<"truncated", "proofBoundariesTruncated">>) >>,
    ProofStateResult |->
        << Ctor("state", <<"info">>),
           Packed("unavailable", <<"message", "proofBoundaries">>,
                  <<>>, <<"proofBoundariesTruncated">>),
           Ctor("ambiguous", <<"candidates">>), Ctor("needsBuild", <<"missing">>) >>,
    SurroundingDeclarationResult |->
        << Ctor("declaration", <<"info">>), Ctor("none", <<>>) >>]

LeanQueryResults == [
    ModuleQueryResult |->
        << Ctor("diagnostics", <<"failure">>), Ctor("typeAt", <<"result">>),
           Ctor("goalAt", <<"result">>), Ctor("references", <<"result">>) >>,
    ModuleQueryOutcome |->
        << Ctor("ok", <<"result", "imports">>),
           Ctor("missingImports", <<"result", "imports", "missing">>),
           Ctor("headerParseFailed", <<"diagnostics">>) >>,
    ModuleQueryBatchResult |->
        << Ctor("diagnostics", <<"failure">>), Ctor("proofState", <<"result">>),
           Ctor("typeAt", <<"result">>), Ctor("references", <<"result">>),
           Ctor("declarationTarget", <<"result">>),
           Ctor("surroundingDeclaration", <<"result">>),
           Ctor("declarationOutline", <<"result">>) >>,
    ModuleQueryBatchItem |->
        << Ctor("ok", <<"id", "result">>), Ctor("unavailable", <<"id", "message">>),
           Ctor("budgetExceeded", <<"id", "message">>) >>,
    ModuleQueryBatchEnvelope |->
        << Packed("mk", <<"items">>, <<>>, <<"totalTruncated">>) >>,
    ModuleQueryBatchOutcome |->
        << Ctor("ok", <<"result", "imports">>),
           Ctor("missingImports", <<"result", "imports", "missing">>),
           Ctor("headerParseFailed", <<"diagnostics">>) >>,
    ModuleQueryCacheStatus |-> Enum(<<"hit", "miss", "rebuilt", "evicted">>),
    ModuleQueryTimings |->
        << Packed("mk", <<>>, <<"headerImportMicros", "elaborationMicros",
                                "projectionMicros", "renderingMicros">>, <<>>) >>,
    ModuleQueryCacheFacts |->
        << Packed("mk", <<"timings", "cacheEntryCount", "cacheApproxBytes">>,
                  <<"outputBytes">>, <<"cacheStatus">>) >>,
    ModuleQueryBatchCachedOutcome |->
        << Ctor("ok", <<"result", "imports", "facts">>),
           Ctor("missingImports", <<"result", "imports", "missing", "facts">>),
           Ctor("headerParseFailed", <<"diagnostics", "facts">>) >>,
    ModuleSnapshotCacheClearResult |->
        << Packed("mk", <<>>, <<"entriesCleared", "approxBytesCleared">>, <<>>) >>]

LeanProofResults == [
    ProofAttemptStatus |-> Enum(<<"closed", "progressed", "failed", "timeout",
                                  "budgetExceeded", "notAttempted", "unsupported">>),
    ProofPositionSummary |-> Struct(<<"index", "tactic">>),
    ProofAttemptRow |->
        << Packed("mk", <<"id", "candidateText", "diagnostics", "downstreamDiagnostics",
                          "goals", "declaration", "proofPosition">>,
                  <<>>, <<"status", "outputTruncated">>) >>,
    ProofAttemptEnvelope |->
        << Packed("mk", <<"candidates", "candidateLimit", "entryGoals", "locals">>,
                  <<>>, <<"candidatesTruncated">>) >>,
    ProofAttemptOutcome |->
        << Ctor("ok", <<"result", "imports">>),
           Ctor("missingImports", <<"result", "imports", "missing">>),
           Ctor("headerParseFailed", <<"diagnostics">>), Ctor("unsupported", <<>>) >>]

LeanVerificationResults == [
    DeclarationVerificationTarget |-> << Ctor("name", <<"name">>), Ctor("span", <<"span">>) >>,
    DeclarationVerificationStatus |->
        Enum(<<"accepted", "rejected", "notFound", "ambiguous", "timeout",
               "budgetExceeded", "unsupported", "needsBuild">>),
    DeclarationVerificationFacts |->
        << Packed("mk", <<"target", "diagnostics", "unresolvedGoals", "axioms", "candidates">>,
                  <<>>, <<"containsSorry", "containsAdmit", "containsSorryAx",
                          "axiomsTruncated", "outputTruncated", "axiomsAvailable">>) >>,
    DeclarationVerificationOutcome |->
        << Packed("ok", <<"facts", "imports">>, <<>>, <<"status">>),
           Packed("missingImports", <<"facts", "imports", "missing">>, <<>>, <<"status">>),
           Ctor("headerParseFailed", <<"diagnostics">>), Ctor("unsupported", <<>>) >>,
    DeclarationVerificationBatchRow |->
        << Packed("mk", <<"id", "target", "facts">>, <<>>, <<"status">>) >>,
    DeclarationVerificationBatchOutcome |->
        << Ctor("ok", <<"results", "imports">>),
           Ctor("missingImports", <<"results", "imports", "missing">>),
           Ctor("headerParseFailed", <<"diagnostics">>), Ctor("unsupported", <<>>) >>]

LeanEnvironment == [
    SourceRange |-> Struct(<<"file">> \o Span),
    DeclarationFlags |-> Struct(<<"isPrivate", "isGenerated", "isInternal">>),
    DeclarationSearchRow |->
        Struct(<<"name", "kind", "module", "source", "matchReason", "score", "rank", "flags">>),
    DeclarationSearchPruning |-> Struct(<<"stage", "reason", "count">>),
    DeclarationSearchTimings |-> Struct(<<"scanMicros", "rankMicros", "sourceMicros">>),
    DerivedWorkFacts |->
        Struct(<<"sourceRangeLookups", "docstringLookups", "rawTypeRenderings",
                 "prettyPrints", "proofSearchFactCollections", "simpExtensionLookups",
                 "parserElaboratorRuns", "moduleSnapshotBuilds",
                 "lazyDiscrTreeImportInitializationObserved">>),
    DeclarationSearchFacts |->
        Struct(<<"declarationsScanned", "afterNameFilter", "afterKindFilter",
                 "afterRequiredConstantsFilter", "afterConclusionFilter",
                 "afterScopeFilter", "sourceLookups", "broadPruning", "truncated",
                 "timings", "derivedWork">>),
    DeclarationSearchResult |-> Struct(<<"declarations", "truncated", "facts">>),
    DeclarationRenderedInfo |-> Struct(<<"value", "truncated">>),
    DeclarationProofSearchFacts |->
        Struct(<<"computed", "unavailableReason", "isSimp", "isRwCandidate",
                 "isInstance", "isClass", "className">>),
    DeclarationInspection |->
        Struct(<<"name", "kind", "module", "source", "statement", "docstring",
                 "attributes", "proofSearch", "flags", "derivedWork", "statementRendering">>),
    DeclarationInspectionResult |->
        << Ctor("found", <<"declaration">>), Ctor("notFound", <<"name">>),
           Ctor("unsupported", <<>>) >>,
    ImportStats |->
        << Packed("mk", <<"directImportNames", "importLevel">>,
                  <<"effectiveModuleCount", "compactedRegionCount",
                    "memoryMappedRegionCount", "compactedRegionBytes",
                    "memoryMappedRegionBytes", "nonMemoryMappedRegionBytes",
                    "importedBytes", "importedConstantCount", "extensionCount",
                    "totalImportedExtensionEntries">>,
                  <<"importAll", "loadExts">>) >>,
    BracketedDeclarationInfo |->
        << Packed("mk", <<"name", "kind", "module", "rawType">>, <<>>, <<"existsDecl">>) >>,
    BracketedRejectedOperation |-> Struct(<<"operation", "reason">>),
    BracketedImportResult |->
        << Packed("mk", <<"importStats", "declarations", "rejectedOperations">>,
                  <<>>, <<"freeRegionsRan">>) >>]

\* What the shim answers with.
Answers == LeanElaboration @@ LeanEvidence @@ LeanMeta @@ LeanPositions @@ LeanQueryResults
              @@ LeanProofResults @@ LeanVerificationResults @@ LeanEnvironment

\* What the shim is asked with.
LeanQueries == [
    ModuleQuery |->
        << Ctor("diagnostics", <<>>), Ctor("typeAt", <<"line", "column">>),
           Ctor("goalAt", <<"line", "column">>), Ctor("references", <<"name">>) >>,
    ProofPositionSelector |->
        << Ctor("default", <<>>), Ctor("index", <<"index">>),
           Ctor("afterText", <<"text", "occurrence">>), Ctor("entry", <<>>) >>,
    ModuleQuerySelector |->
        << Ctor("diagnostics", <<"id">>),
           Ctor("proofState", <<"id", "line", "column">>),
           Ctor("typeAt", <<"id", "line", "column">>),
           Ctor("references", <<"id", "name">>),
           Ctor("declarationTarget", <<"id", "name", "line", "column">>),
           Ctor("surroundingDeclaration", <<"id", "line", "column">>),
           Ctor("proofStateInDeclaration", <<"id", "declaration", "position", "localsRaw">>),
           Ctor("declarationOutline", <<"id">>) >>,
    ModuleQueryOutputBudgets |-> Struct(<<"perFieldBytes", "totalBytes">>)]

LeanProofRequests == [
    ProofEditTarget |-> << Ctor("declaration", <<"name", "position">>) >>,
    ProofCandidate |-> Struct(<<"id", "text">>),
    ProofAttemptRequest |-> Struct(<<"source", "edit", "candidates", "budgets">>)]

LeanVerificationRequests == [
    DeclarationVerificationRequest |->
        Struct(<<"source", "target", "sorryPolicy", "reportAxioms", "budgets">>),
    DeclarationVerificationBatchItem |-> Struct(<<"id", "target">>),
    DeclarationVerificationBatchRequest |->
        Struct(<<"source", "targets", "sorryPolicy", "reportAxioms", "budgets">>)]

LeanSearchRequests == [
    DeclarationFilter |-> Struct(<<"includePrivate", "includeGenerated", "includeInternal">>),
    DeclarationSearchBias |-> Struct(<<"scope", "scopePrefix", "isStrict", "weight">>),
    DeclarationSearchRequest |->
        Struct(<<"nameFragment", "nameMatch", "kind", "requiredConstants", "conclusionHead",
                 "scopeBiases", "limit", "filter", "includeSource">>),
    DeclarationInspectionFields |->
        Struct(<<"source", "statement", "docstring", "attributes", "flags",
                 "rendering", "proofSearch">>),
    DeclarationInspectionBudgets |-> Struct(<<"perFieldBytes", "totalBytes">>),
    DeclarationInspectionRequest |-> Struct(<<"name", "fields", "budgets">>)]

\* Types that go both ways.
LeanTargets == [t \in {"ModuleSourceSpan", "DeclarationVerificationTarget"} |-> Answers[t]]

Requests == LeanQueries @@ LeanProofRequests @@ LeanVerificationRequests
               @@ LeanSearchRequests @@ LeanTargets
=============================================================================
