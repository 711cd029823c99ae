---------------------------- MODULE ShimRequests ----------------------------
(***************************************************************************)
(* The way in: what the parent may ask for on the wire, the constructors   *)
(* the host builds for the shim, and the numbers it puts for enumerations  *)
(* and flags, which the shim reads back by comparing them.                 *)
(***************************************************************************)
EXTENDS ShimReads

(* -- the wire: requests, variant by variant ----------------------------- *)

AskSearch == [
    DeclarationFilter |-> Object({"includePrivate", "includeGenerated", "includeInternal"}),
    DeclarationSearchBias |-> Object({"scope", "scopePrefix", "isStrict", "weight"}),
    DeclarationSearchRequest |->
        Object({"nameFragment", "nameMatch", "kind", "requiredConstants", "conclusionHead",
                "scopeBiases", "limit", "filter", "includeSource"})]

AskInspection == [
    DeclarationInspectionFields |->
        Object({"source", "statement", "docstring", "attributes", "flags", "rendering",
                "proofSearch"}),
    DeclarationInspectionBudgets |-> Object({"perFieldBytes", "totalBytes"}),
    DeclarationInspectionRequest |-> Object({"name", "fields", "budgets"})]

AskQueries == [
    ModuleQuery |-> [diagnostics |-> {}, typeAt |-> {"line", "column"},
                     goalAt |-> {"line", "column"}, references |-> {"name"}],
    ModuleQueryOutputBudgets |-> Object({"perFieldBytes", "totalBytes"}),
    ModuleQuerySelector |->
        [diagnostics |-> {"id"}, proofState |-> {"id", "line", "column"},
         proofStateInDeclaration |-> {"id", "declaration", "position", "localsRaw"},
         typeAt |-> {"id", "line", "column"}, references |-> {"id", "name"},
         declarationTarget |-> {"id", "name", "line", "column"},
         surroundingDeclaration |-> {"id", "line", "column"},
         declarationOutline |-> {"id"}]]

AskProofs == [
    ProofPositionSelector |->
        [default |-> {}, index |-> {"index"}, afterText |-> {"text", "occurrence"},
         entry |-> {}],
    ProofEditTarget |-> [declaration |-> {"name", "position"}],
    ProofCandidate  |-> Object({"id", "text"}),
    ProofAttemptRequest |-> Object({"source", "edit", "candidates", "budgets"})]

AskVerification == [
    ModuleSourceSpan |-> Object(SpanKeys),
    DeclarationVerificationTarget |-> [name |-> {"name"}, span |-> {"span"}],
    DeclarationVerificationRequest |->
        Object({"source", "target", "sorryPolicy", "reportAxioms", "budgets"}),
    DeclarationVerificationBatchItem |-> Object({"id", "target"}),
    DeclarationVerificationBatchRequest |->
        Object({"source", "targets", "sorryPolicy", "reportAxioms", "budgets"})]

Asks == AskSearch @@ AskInspection @@ AskQueries @@ AskProofs @@ AskVerification

\* Enumerations and flags: their names.
Enumerations == [
    SorryPolicy            |-> {"allow", "deny"},
    DeclarationNameMatch   |-> {"contains", "suffix"},
    DeclarationSearchScope |-> {"namespace", "module"},
    Rendering              |-> {"pretty", "raw"},
    TransparencyMode       |-> {"default", "reducible", "instances", "all"},
    Flag                   |-> {"yes", "no"}]

(* -- child.rs: from the wire to the host -------------------------------- *)

\* Every field under its own name.
Asked(types) == [t \in types |-> [v \in DOMAIN Asks[t] |-> [f \in Asks[t][v] |-> f]]]

declaration_search_host == Asked({"DeclarationSearchRequest", "DeclarationFilter"})
declaration_search_bias_host == Asked({"DeclarationSearchBias"})
declaration_inspection_host == Asked({"DeclarationInspectionRequest",
    "DeclarationInspectionBudgets", "DeclarationInspectionFields"})
QueryHosts == Asked({"ModuleQuery", "ModuleQuerySelector", "ModuleQueryOutputBudgets"})
ProofHosts == Asked({"ProofEditTarget", "ProofPositionSelector", "ProofAttemptRequest",
                     "ProofCandidate"})
VerificationHosts ==
    Asked({"ModuleSourceSpan", "DeclarationVerificationTarget", "DeclarationVerificationRequest",
           "DeclarationVerificationBatchItem", "DeclarationVerificationBatchRequest"})

AskedOfHost == declaration_search_host @@ declaration_search_bias_host
    @@ declaration_inspection_host @@ QueryHosts @@ ProofHosts @@ VerificationHosts

\* The rendering becomes the flag statement_pretty; the rest keep their names.
ChoiceOfHost(choice, v) ==
    IF choice # "Rendering" THEN v ELSE IF v = "pretty" THEN "yes" ELSE "no"

(* -- the host: into_lean ------------------------------------------------ *)

BuildsQueries == [
    ModuleQuery |->
        {Is(0, "diagnostics"), Takes(1, "typeAt", <<"line", "column">>),
         Takes(2, "goalAt", <<"line", "column">>), Takes(3, "references", <<"name">>)},
    ModuleQueryOutputBudgets |-> Reads(<<"perFieldBytes", "totalBytes">>)]

BuildsSelectors == [
    ModuleQuerySelector |->
        {Takes(0, "diagnostics", <<"id">>), Takes(1, "proofState", <<"id", "line", "column">>),
         Takes(2, "typeAt", <<"id", "line", "column">>),
         Takes(3, "references", <<"id", "name">>),
         Takes(4, "declarationTarget", <<"id", "name", "line", "column">>),
         Takes(5, "surroundingDeclaration", <<"id", "line", "column">>),
         Takes(6, "proofStateInDeclaration", <<"id", "declaration", "position", "localsRaw">>),
         Takes(7, "declarationOutline", <<"id">>)}]

BuildsProofs == [
    ProofPositionSelector |->
        {Is(0, "default"), Takes(1, "index", <<"index">>),
         Takes(2, "afterText", <<"text", "occurrence">>), Is(3, "entry")},
    ProofEditTarget |-> {Takes(0, "declaration", <<"name", "position">>)},
    ProofCandidate  |-> Reads(<<"id", "text">>),
    ProofAttemptRequest |-> Reads(<<"source", "edit", "candidates", "budgets">>)]

\* Mutant: lines before columns.
BuildsSpanByLine == [ModuleSourceSpan |->
                       Reads(<<"startLine", "endLine", "startColumn", "endColumn">>)]
BuildsSpan    == [ModuleSourceSpan |-> Reads(Span)]
BuildsTargets == [
    DeclarationVerificationTarget |-> {Takes(0, "name", <<"name">>), Takes(1, "span", <<"span">>)}]

BuildsVerification == [
    DeclarationVerificationRequest |->
        Reads(<<"source", "target", "sorryPolicy", "reportAxioms", "budgets">>),
    DeclarationVerificationBatchItem |-> Reads(<<"id", "target">>),
    DeclarationVerificationBatchRequest |->
        Reads(<<"source", "targets", "sorryPolicy", "reportAxioms", "budgets">>)]

BuildsFilter == [
    DeclarationFilter |-> Reads(<<"includePrivate", "includeGenerated", "includeInternal">>)]

BuildsSearch == [
    DeclarationSearchBias |-> Reads(<<"scope", "scopePrefix", "isStrict", "weight">>),
    DeclarationSearchRequest |->
        Reads(<<"nameFragment", "nameMatch", "kind", "requiredConstants", "conclusionHead",
                "scopeBiases", "limit", "filter", "includeSource">>),
    DeclarationInspectionFields |->
        Reads(<<"source", "statement", "docstring", "attributes", "flags", "rendering",
                "proofSearch">>),
    DeclarationInspectionBudgets |-> Reads(<<"perFieldBytes", "totalBytes">>),
    DeclarationInspectionRequest |-> Reads(<<"name", "fields", "budgets">>)]

Builders == BuildsQueries @@ BuildsSelectors @@ BuildsProofs @@ BuildsSpan
    @@ BuildsTargets @@ BuildsVerification @@ BuildsFilter @@ BuildsSearch

\* The numbers, and what the shim takes each number for.
\* Mutant: the codes the other way round.
SorryCodesSwapped == [allow |-> 1, deny |-> 0]
sorry_policy_code == [allow |-> 0, deny |-> 1]
search_codes      == [contains |-> 0, suffix |-> 1, namespace |-> 0, module |-> 1]
as_byte           == [default |-> 0, reducible |-> 1, instances |-> 2, all |-> 3]
nat_from_bool     == [no |-> 0, yes |-> 1]
Codes == sorry_policy_code @@ search_codes @@ as_byte @@ nat_from_bool

policyTaken(n)    == IF n = 0 THEN "allow" ELSE "deny"
nameMatchTaken(n) == IF n = 1 THEN "suffix" ELSE "contains"
scopeTaken(n)     == IF n = 1 THEN "module" ELSE "namespace"
renderingTaken(n) == IF n # 0 THEN "pretty" ELSE "raw"
transparencyOfByte(n) ==
    LET modes == <<"default", "reducible", "instances", "all">>
    IN  IF n \in 0 .. 3 THEN modes[n + 1] ELSE "default"

TakenFor(choice, n) ==
    CASE choice = "SorryPolicy"            -> policyTaken(n)
      [] choice = "DeclarationNameMatch"   -> nameMatchTaken(n)
      [] choice = "DeclarationSearchScope" -> scopeTaken(n)
      [] choice = "Rendering"              -> renderingTaken(n)
      [] choice = "TransparencyMode"       -> transparencyOfByte(n)
      [] choice = "Flag"                   -> IF n # 0 THEN "yes" ELSE "no"
=============================================================================
