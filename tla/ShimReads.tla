----------------------------- MODULE ShimReads -----------------------------
(***************************************************************************)
(* What the host reads and builds, tag by tag and slot by slot, as the     *)
(* conversion of each of its types spells it out; and what the child and   *)
(* the wire make of it on the way to the parent.                           *)
(***************************************************************************)
EXTENDS ShimTypes

(* -- the host: readers of answers --------------------------------------- *)

\* Scalars read behind the object slots: offset -> <<field, width>>.
U8(o, f)  == o :> <<f, 1>>
U64(o, f) == o :> <<f, 8>>
NoTail    == <<>>

\* A reader accepts one tag.  One that looks no further than the tag takes
\* a boxed value; one that takes the slots wants an object with exactly
\* that many of them.
TakesTail(tag, variant, objs, tail) ==
    [tag |-> tag, variant |-> variant, heap |-> TRUE, objs |-> objs, tail |-> tail]
Takes(tag, variant, objs) == TakesTail(tag, variant, objs, NoTail)
Is(tag, variant) ==
    [tag |-> tag, variant |-> variant, heap |-> FALSE, objs |-> <<>>, tail |-> NoTail]
Reads(objs)           == {Takes(0, "mk", objs)}
ReadsTail(objs, tail) == {TakesTail(0, "mk", objs, tail)}
Tags(names) == {Is(i - 1, names[i]) : i \in DOMAIN names}

ReadsDiagnostics == [
    Severity      |-> Tags(<<"info", "warning", "error">>),
    DiagnosticPos |-> Reads(<<"line", "column", "endLine", "endColumn">>),
    Diagnostic    |-> ReadsTail(<<"message", "position", "fileLabel">>, U8(0, "severity"))]

\* Mutant: the byte is looked for behind the eight of the tail.
ReadsFailurePastEnd == [
    Truncation    |-> Tags(<<"complete", "truncated">>),
    ElabFailure   |-> ReadsTail(<<"diagnostics">>, U8(8, "truncated"))]

ReadsFailure == [
    Truncation    |-> Tags(<<"complete", "truncated">>),
    ElabFailure   |-> ReadsTail(<<"diagnostics">>, U8(0, "truncated"))]

ReadsEvidence == [
    EvidenceStatus |-> Tags(<<"checked", "rejected", "unavailable", "unsupported">>),
    KernelOutcome |-> {Takes(0, "checked", <<"evidence">>), Takes(1, "rejected", <<"failure">>),
                       Takes(2, "unavailable", <<"failure">>),
                       Takes(3, "unsupported", <<"failure">>)}]

ReadsSummary == [
    ProofSummary  |-> Reads(<<"declarationName", "kind", "typeSignature">>)]

ReadsMeta == [
    MetaResponse  |-> {Takes(0, "ok", <<"value">>), Takes(1, "failed", <<"failure">>),
                       Takes(2, "timeoutOrHeartbeat", <<"failure">>),
                       Takes(3, "unsupported", <<"failure">>)}]

ReadsPositions == [
    RenderedInfo  |-> ReadsTail(<<"value">>, U8(0, "truncated")),
    SerializableNameRef |-> ReadsTail(Span \o <<"name">>, U8(0, "isBinder")),
    TypeAtResult  |-> {Takes(0, "term", <<"span", "expr", "typeStr", "expectedType">>),
                       Is(1, "noTerm")},
    GoalAtResult  |-> {TakesTail(0, "goal", <<"span", "goalsBefore", "goalsAfter">>,
                                 U8(0, "truncated")), Is(1, "noTacticContext")},
    ReferencesResult |-> ReadsTail(<<"references">>, U8(0, "truncated")),
    LocalInfo     |-> Reads(<<"name", "binderInfo", "typeStr", "value">>)]

ReadsTargets == [
    DeclarationTargetInfo |->
        Reads(<<"shortName", "declarationName", "namespaceName", "declarationKind",
                "declarationSpan", "nameSpan", "bodySpan">>),
    DeclarationTargetResult |->
        {Takes(0, "target", <<"info">>), Is(1, "notFound"),
         Takes(2, "ambiguous", <<"candidates">>)},
    DeclarationOutlineResult |-> ReadsTail(<<"declarations">>, U8(0, "truncated"))]

ReadsProofAttempts == [
    ProofAttemptStatus |-> Tags(<<"closed", "progressed", "failed", "timeout",
                                  "budgetExceeded", "notAttempted", "unsupported">>),
    ProofPositionSummary |-> Reads(<<"index", "tactic">>),
    ProofBoundaryCandidate |-> Reads(<<"index", "kind", "source", "excerpt">>),
    ProofAttemptRow |->
        ReadsTail(<<"id", "candidateText", "diagnostics", "downstreamDiagnostics",
                    "goals", "declaration", "proofPosition">>,
                  U8(0, "status") @@ U8(1, "outputTruncated")),
    ProofAttemptEnvelope |->
        ReadsTail(<<"candidates", "candidateLimit", "entryGoals", "locals">>,
                  U8(0, "candidatesTruncated")),
    ProofAttemptOutcome |->
        {Takes(0, "ok", <<"result", "imports">>),
         Takes(1, "missingImports", <<"result", "imports", "missing">>),
         Takes(2, "headerParseFailed", <<"diagnostics">>), Is(3, "unsupported")}]

ReadsVerification == [
    DeclarationVerificationStatus |->
        Tags(<<"accepted", "rejected", "notFound", "ambiguous", "timeout",
               "budgetExceeded", "unsupported", "needsBuild">>),
    DeclarationVerificationFacts |->
        ReadsTail(<<"target", "diagnostics", "unresolvedGoals", "axioms", "candidates">>,
                  U8(0, "containsSorry") @@ U8(1, "containsAdmit") @@ U8(2, "containsSorryAx")
                    @@ U8(3, "axiomsTruncated") @@ U8(4, "outputTruncated")
                    @@ U8(5, "axiomsAvailable")),
    DeclarationVerificationOutcome |->
        {TakesTail(0, "ok", <<"facts", "imports">>, U8(0, "status")),
         TakesTail(1, "missingImports", <<"facts", "imports", "missing">>, U8(0, "status")),
         Takes(2, "headerParseFailed", <<"diagnostics">>), Is(3, "unsupported")},
    DeclarationVerificationBatchRow |->
        ReadsTail(<<"id", "target", "facts">>, U8(0, "status")),
    DeclarationVerificationBatchOutcome |->
        {Takes(0, "ok", <<"results", "imports">>),
         Takes(1, "missingImports", <<"results", "imports", "missing">>),
         Takes(2, "headerParseFailed", <<"diagnostics">>), Is(3, "unsupported")}]

ReadsProofState == [
    ProofStateInfo |->
        ReadsTail(<<"declarationName", "namespaceName", "safeEdit", "span", "goalsBefore",
                    "goalsAfter", "locals", "expectedType", "proofBoundaries">>,
                  U8(0, "truncated") @@ U8(1, "proofBoundariesTruncated")),
    ProofStateResult |->
        {Takes(0, "state", <<"info">>),
         TakesTail(1, "unavailable", <<"message", "proofBoundaries">>,
                   U8(0, "proofBoundariesTruncated")),
         Takes(2, "ambiguous", <<"candidates">>), Takes(3, "needsBuild", <<"missing">>)},
    SurroundingDeclarationResult |->
        {Takes(0, "declaration", <<"info">>), Is(1, "none")}]

ReadsQueryResults == [
    ModuleQueryResult |->
        {Takes(0, "diagnostics", <<"failure">>), Takes(1, "typeAt", <<"result">>),
         Takes(2, "goalAt", <<"result">>), Takes(3, "references", <<"result">>)},
    ModuleQueryBatchResult |->
        {Takes(0, "diagnostics", <<"failure">>), Takes(1, "proofState", <<"result">>),
         Takes(2, "typeAt", <<"result">>), Takes(3, "references", <<"result">>),
         Takes(4, "declarationTarget", <<"result">>),
         Takes(5, "surroundingDeclaration", <<"result">>),
         Takes(6, "declarationOutline", <<"result">>)},
    ModuleQueryBatchItem |->
        {Takes(0, "ok", <<"id", "result">>), Takes(1, "unavailable", <<"id", "message">>),
         Takes(2, "budgetExceeded", <<"id", "message">>)}]

ReadsCacheFacts == [
    ModuleQueryBatchEnvelope |-> ReadsTail(<<"items">>, U8(0, "totalTruncated")),
    ModuleQueryCacheStatus |-> Tags(<<"hit", "miss", "rebuilt", "evicted">>),
    ModuleQueryTimings |->
        ReadsTail(<<>>, U64(0, "headerImportMicros") @@ U64(8, "elaborationMicros")
                     @@ U64(16, "projectionMicros") @@ U64(24, "renderingMicros")),
    ModuleQueryCacheFacts |->
        ReadsTail(<<"timings", "cacheEntryCount", "cacheApproxBytes">>,
                  U64(0, "outputBytes") @@ U8(8, "cacheStatus"))]

ReadsOutcomes == [t \in {"ModuleQueryOutcome", "ModuleQueryBatchOutcome"} |->
        {Takes(0, "ok", <<"result", "imports">>),
         Takes(1, "missingImports", <<"result", "imports", "missing">>),
         Takes(2, "headerParseFailed", <<"diagnostics">>), Is(3, "unsupported")}]

ReadsCachedOutcomes == [
    ModuleQueryBatchCachedOutcome |->
        {Takes(0, "ok", <<"result", "imports", "facts">>),
         Takes(1, "missingImports", <<"result", "imports", "missing", "facts">>),
         Takes(2, "headerParseFailed", <<"diagnostics", "facts">>), Is(3, "unsupported")},
    ModuleSnapshotCacheClearResult |->
        ReadsTail(<<>>, U64(0, "entriesCleared") @@ U64(8, "approxBytesCleared"))]

ReadsSearch == [
    DeclarationFlags |-> Reads(<<"isPrivate", "isGenerated", "isInternal">>),
    DeclarationSearchRow |->
        Reads(<<"name", "kind", "module", "source", "matchReason", "score", "rank", "flags">>),
    DeclarationSearchPruning |-> Reads(<<"stage", "reason", "count">>),
    DeclarationSearchTimings |-> Reads(<<"scanMicros", "rankMicros", "sourceMicros">>),
    DerivedWorkFacts |->
        Reads(<<"sourceRangeLookups", "docstringLookups", "rawTypeRenderings",
                "prettyPrints", "proofSearchFactCollections", "simpExtensionLookups",
                "parserElaboratorRuns", "moduleSnapshotBuilds",
                "lazyDiscrTreeImportInitializationObserved">>),
    DeclarationSearchFacts |->
        Reads(<<"declarationsScanned", "afterNameFilter", "afterKindFilter",
                "afterRequiredConstantsFilter", "afterConclusionFilter",
                "afterScopeFilter", "sourceLookups", "broadPruning", "truncated",
                "timings", "derivedWork">>),
    DeclarationSearchResult |-> Reads(<<"declarations", "truncated", "facts">>)]

\* The reader of `unsupported` wants a heap object without slots.
ReadsInspection == [
    DeclarationRenderedInfo |-> Reads(<<"value", "truncated">>),
    DeclarationProofSearchFacts |->
        Reads(<<"computed", "unavailableReason", "isSimp", "isRwCandidate",
                "isInstance", "isClass", "className">>),
    DeclarationInspection |->
        Reads(<<"name", "kind", "module", "source", "statement", "docstring",
                "attributes", "proofSearch", "flags", "derivedWork", "statementPretty">>),
    DeclarationInspectionResult |->
        {Takes(0, "found", <<"declaration">>), Takes(1, "notFound", <<"name">>),
         Takes(2, "unsupported", <<>>)}]

ReadsImportStats == [
    ImportStats |->
        ReadsTail(<<"directImportNames", "importLevel">>,
                  U64(0, "effectiveModuleCount") @@ U64(8, "compactedRegionCount")
                    @@ U64(16, "memoryMappedRegionCount") @@ U64(24, "compactedRegionBytes")
                    @@ U64(32, "memoryMappedRegionBytes")
                    @@ U64(40, "nonMemoryMappedRegionBytes") @@ U64(48, "importedBytes")
                    @@ U64(56, "importedConstantCount") @@ U64(64, "extensionCount")
                    @@ U64(72, "totalImportedExtensionEntries")
                    @@ U8(80, "importAll") @@ U8(81, "loadExts"))]

ReadsBracketed == [
    BracketedImportResult |->
        ReadsTail(<<"importStats", "declarations", "rejectedOperations">>,
                  U8(0, "freeRegionsRan")),
    BracketedDeclarationInfo |->
        ReadsTail(<<"name", "kind", "module", "rawType">>, U8(0, "exists")),
    BracketedRejectedOperation |-> Reads(<<"operation", "reason">>)]

\* Types read from one small function each.
ReadsModuleSpan == [ModuleSourceSpan |-> Reads(Span)]
\* Mutant: the tags the other way round.
ReadsTargetSwapped == [DeclarationVerificationTarget |->
                         {Takes(1, "name", <<"name">>), Takes(0, "span", <<"span">>)}]
ReadsTarget     == [DeclarationVerificationTarget |->
                      {Takes(0, "name", <<"name">>), Takes(1, "span", <<"span">>)}]
ReadsRange      == [SourceRange |-> Reads(<<"file">> \o Span)]

Readers == ReadsDiagnostics @@ ReadsFailure @@ ReadsEvidence @@ ReadsSummary @@ ReadsMeta
    @@ ReadsPositions @@ ReadsTargets @@ ReadsProofAttempts @@ ReadsVerification
    @@ ReadsProofState @@ ReadsQueryResults @@ ReadsCacheFacts @@ ReadsOutcomes
    @@ ReadsCachedOutcomes @@ ReadsSearch @@ ReadsInspection @@ ReadsImportStats @@ ReadsBracketed
    @@ ReadsModuleSpan @@ ReadsTarget @@ ReadsRange

(* -- the wire: what the parent is given ---------------------------------- *)

\* JSON objects by variant: a struct has the one variant "mk"; a variant
\* without fields is its name alone.  (serde keeps the variant's name beside
\* the fields or around them, and refuses at compile time a field that
\* would collide with it.)
Object(fields) == "mk" :> fields
Name(names)    == [n \in names |-> {}]

SpanKeys == {"startLine", "startColumn", "endLine", "endColumn"}

WireImportStats == [
    ImportStats |->
        Object({"directImportNames", "effectiveModuleCount", "compactedRegionCount",
                "memoryMappedRegionCount", "compactedRegionBytes",
                "memoryMappedRegionBytes", "nonMemoryMappedRegionBytes",
                "importedBytes", "importedConstantCount", "extensionCount",
                "totalImportedExtensionEntries", "importLevel", "importAll", "loadExts"})]

WireDiagnostics == [
    KernelOutcome  |-> [status \in {"checked", "rejected", "unavailable", "unsupported"} |->
                          {"diagnostics", "truncated", "summary"}],
    ProofSummary   |-> Object({"declarationName", "kind", "typeSignature"}),
    Diagnostic     |-> Object({"severity", "message", "fileLabel", "line", "column",
                               "endLine", "endColumn", "coordinateSpace", "originalRange"}),
    ElabFailure    |-> Object({"diagnostics", "truncated"})]

WireRange == [SourceRange |-> Object(SpanKeys \cup {"file"})]

WireMeta == [
    MetaResponse   |->
        [ok |-> {"value"}, failed |-> {"failure"},
         timeoutOrHeartbeat |-> {"failure"}, unsupported |-> {"failure"}]]

WireSearch == [
    DeclarationFlags |-> Object({"isPrivate", "isGenerated", "isInternal"}),
    DeclarationSearchRow |-> Object({"name", "kind", "module", "source", "matchReason",
                                     "score", "rank", "flags"}),
    DeclarationSearchPruning |-> Object({"stage", "reason", "count"}),
    DeclarationSearchTimings |-> Object({"scanMicros", "rankMicros", "sourceMicros"}),
    DerivedWorkFacts |->
        Object({"sourceRangeLookups", "docstringLookups", "rawTypeRenderings",
                "prettyPrints", "proofSearchFactCollections", "simpExtensionLookups",
                "parserElaboratorRuns", "moduleSnapshotBuilds",
                "lazyDiscrTreeImportInitializationObserved"}),
    DeclarationSearchFacts |->
        Object({"declarationsScanned", "afterNameFilter", "afterKindFilter",
                "afterRequiredConstantsFilter", "afterConclusionFilter",
                "afterScopeFilter", "sourceLookups", "broadPruning", "truncated",
                "timings", "derivedWork"}),
    DeclarationSearchResult |-> Object({"declarations", "truncated", "facts"})]

WireInspection == [
    DeclarationRenderedInfo |-> Object({"value", "truncated"}),
    DeclarationProofSearchFacts |->
        Object({"computed", "unavailableReason", "isSimp", "isRwCandidate",
                "isInstance", "isClass", "className"}),
    DeclarationInspection |->
        Object({"name", "kind", "module", "source", "statement", "docstring",
                "attributes", "proofSearch", "flags", "derivedWork", "statementRendering"}),
    DeclarationInspectionResult |->
        [found |-> {"declaration"}, notFound |-> {"name"}, unsupported |-> {}],
    SerializableNameRef |-> Object(SpanKeys \cup {"name", "isBinder"})]

WireProofs == [
    ModuleSourceSpan |-> Object(SpanKeys),
    RenderedInfo     |-> Object({"value", "truncated"}),
    ProofAttemptStatus |-> Name({"closed", "progressed", "failed", "timeout",
                                 "budgetExceeded", "notAttempted", "unsupported"}),
    ProofAttemptRow  |-> Object({"id", "status", "candidateText", "diagnostics",
                                 "downstreamDiagnostics", "goals", "declaration",
                                 "proofPosition", "outputTruncated"}),
    ProofPositionSummary   |-> Object({"index", "tactic"}),
    ProofBoundaryCandidate |-> Object({"index", "kind", "source", "excerpt"}),
    ProofAttemptEnvelope   |-> Object({"candidates", "candidateLimit", "candidatesTruncated",
                                       "entryGoals", "locals"}),
    ProofAttemptOutcome    |->
        [ok |-> {"result", "imports"}, missingImports |-> {"result", "imports", "missing"},
         headerParseFailed |-> {"diagnostics"}, unsupported |-> {}]]

WireVerification == [
    DeclarationVerificationTarget |-> [name |-> {"name"}, span |-> {"span"}],
    DeclarationVerificationStatus |->
        Name({"accepted", "rejected", "notFound", "ambiguous", "timeout",
              "budgetExceeded", "unsupported", "needsBuild"}),
    DeclarationVerificationFacts |->
        Object({"target", "diagnostics", "unresolvedGoals", "containsSorry", "containsAdmit",
                "containsSorryAx", "axioms", "axiomsTruncated", "outputTruncated",
                "candidates", "axiomsAvailable"}),
    DeclarationVerificationOutcome |->
        [ok |-> {"verificationStatus", "facts", "imports"},
         missingImports |-> {"verificationStatus", "facts", "imports", "missing"},
         headerParseFailed |-> {"diagnostics"}, unsupported |-> {}],
    DeclarationVerificationBatchRow |-> Object({"id", "target", "verificationStatus", "facts"}),
    DeclarationVerificationBatchOutcome |->
        [ok |-> {"results", "imports"}, missingImports |-> {"results", "imports", "missing"},
         headerParseFailed |-> {"diagnostics"}, unsupported |-> {}]]

WirePositions == [
    TypeAtResult |->
        [term |-> {"span", "expr", "typeStr", "expectedType"}, noTerm |-> {}],
    GoalAtResult |->
        [goal |-> {"span", "goalsBefore", "goalsAfter", "truncated"},
         noTacticContext |-> {}],
    ReferencesResult |-> Object({"references", "truncated"}),
    LocalInfo |-> Object({"name", "binderInfo", "typeStr", "value"}),
    DeclarationTargetInfo |->
        Object({"shortName", "declarationName", "namespaceName", "declarationKind",
                "declarationSpan", "nameSpan", "bodySpan"}),
    DeclarationTargetResult |->
        [target |-> {"info"}, notFound |-> {}, ambiguous |-> {"candidates"}],
    DeclarationOutlineResult |-> Object({"declarations", "truncated"}),
    ProofStateInfo |->
        Object({"declarationName", "namespaceName", "safeEdit", "span", "goalsBefore",
                "goalsAfter", "locals", "expectedType", "truncated", "proofBoundaries",
                "proofBoundariesTruncated"}),
    ProofStateResult |->
        [state |-> {"info"},
         unavailable |-> {"message", "proofBoundaries", "proofBoundariesTruncated"},
         ambiguous |-> {"candidates"}, needsBuild |-> {"missing"}],
    SurroundingDeclarationResult |-> [declaration |-> {"info"}, none |-> {}]]

WireQueryResults == [
    ModuleQueryResult |->
        [diagnostics |-> {"failure"}, typeAt |-> {"result"}, goalAt |-> {"result"},
         references |-> {"result"}],
    ModuleQueryBatchResult |->
        [diagnostics |-> {"failure"}, proofState |-> {"result"}, typeAt |-> {"result"},
         references |-> {"result"}, declarationTarget |-> {"result"},
         surroundingDeclaration |-> {"result"}, declarationOutline |-> {"result"}],
    ModuleQueryBatchItem |->
        [ok |-> {"id", "result"}, unavailable |-> {"id", "message"},
         budgetExceeded |-> {"id", "message"}],
    ModuleQueryBatchEnvelope |-> Object({"items", "totalTruncated"}),
    ModuleQueryCacheStatus |-> Name({"hit", "miss", "rebuilt", "evicted"}),
    ModuleQueryTimings |->
        Object({"headerImportMicros", "elaborationMicros", "projectionMicros",
                "renderingMicros"}),
    ModuleQueryCacheFacts |->
        Object({"cacheStatus", "timings", "outputBytes", "cacheEntryCount",
                "cacheApproxBytes", "resource"}),
    ModuleSnapshotCacheClearResult |-> Object({"entriesCleared", "approxBytesCleared"}),
    ModuleQueryOutcome |->
        [ok |-> {"result", "imports"}, missingImports |-> {"result", "imports", "missing"},
         headerParseFailed |-> {"diagnostics"}, unsupported |-> {}],
    ModuleQueryBatchCachedOutcome |->
        [ok |-> {"result", "imports", "facts"},
         missingImports |-> {"result", "imports", "missing", "facts"},
         headerParseFailed |-> {"diagnostics", "facts"}, unsupported |-> {}]]

Wire == WireImportStats @@ WireDiagnostics @@ WireRange @@ WireMeta @@ WireSearch
    @@ WireInspection @@ WireProofs @@ WireVerification @@ WirePositions @@ WireQueryResults
=============================================================================
