------------------------------ MODULE ShimWire ------------------------------
(***************************************************************************)
(* One value crosses the three borders of a worker call: an answer from a  *)
(* Lean constructor to a host value (read out of the object's slots and    *)
(* bytes), to the wire (child.rs), to the parent; a request the other way  *)
(* (child.rs, the host's into_lean, the shim's pattern match).  Each type  *)
(* crosses on its own: what a field holds is converted by the conversion   *)
(* of its own type, so that a field's value can stand for itself, by name. *)
(* Numbers (but for their clamps), strings and lists are carried unchanged *)
(* and so left out; a Bool or an enumeration that crosses as a number is   *)
(* not.                                                                    *)
(***************************************************************************)
EXTENDS ShimRequests, FiniteSets

CONSTANT ShimNeverBuilds    \* {<<type, constructor>>}: declared, not built

(* -- child.rs: answers on their way to the wire ------------------------- *)

Nothing == "nothing"

ReaderOf(t, v)   == CHOOSE r \in Readers[t] : r.variant = v
HostVariants(t)  == {r.variant : r \in Readers[t]}
HostFields(t, v) == LET r == ReaderOf(t, v)
                    IN  {r.objs[i] : i \in DOMAIN r.objs} \cup
                        {r.tail[o][1] : o \in DOMAIN r.tail}

\* A conversion gives, for each variant, the host's field behind each field
\* of the wire.  Most move every field under its own name.
AsIs(types) == [t \in types |-> [v \in HostVariants(t) |-> [f \in HostFields(t, v) |-> f]]]

\* As it is, but for one field that the wire calls differently.
Renaming(t, host, wire) ==
    [v \in HostVariants(t) |->
        IF host \notin HostFields(t, v) THEN AsIs({t})[t][v]
        ELSE [f \in (HostFields(t, v) \ {host}) \cup {wire} |->
                 IF f = wire THEN host ELSE f]]

worker_import_stats == AsIs({"ImportStats"})

SearchWires == AsIs({"DeclarationSearchResult", "DeclarationSearchRow", "DeclarationFlags",
                     "DeclarationSearchFacts", "DeclarationSearchPruning",
                     "DeclarationSearchTimings"})

source_range_wire       == AsIs({"SourceRange"})
derived_work_facts_wire == AsIs({"DerivedWorkFacts"})

\* Which rendering the statement got.
InspectionWires ==
    AsIs({"DeclarationInspectionResult", "DeclarationProofSearchFacts",
          "DeclarationRenderedInfo"}) @@
    [DeclarationInspection |->
        Renaming("DeclarationInspection", "statementPretty", "statementRendering")]

PositionWires == AsIs({"ModuleSourceSpan", "RenderedInfo", "TypeAtResult", "GoalAtResult",
                       "ReferencesResult", "LocalInfo", "DeclarationTargetInfo",
                       "DeclarationTargetResult", "DeclarationOutlineResult"})

ProofAttemptWires ==
    AsIs({"ProofAttemptStatus", "ProofAttemptRow", "ProofPositionSummary",
          "ProofBoundaryCandidate", "ProofAttemptEnvelope", "ProofAttemptOutcome"})

\* `status` is taken by the variant's name.
VerificationWires ==
    AsIs({"DeclarationVerificationStatus", "DeclarationVerificationTarget",
          "DeclarationVerificationFacts", "DeclarationVerificationBatchOutcome"}) @@
    [t \in {"DeclarationVerificationOutcome", "DeclarationVerificationBatchRow"} |->
        Renaming(t, "status", "verificationStatus")]

ProofStateWires == AsIs({"ProofStateInfo", "ProofStateResult", "SurroundingDeclarationResult"})

\* The facts leave room for the parent's reading of the child's memory.
QueryResultWires ==
    AsIs({"ModuleQueryResult", "ModuleQueryBatchResult", "ModuleQueryBatchItem",
          "ModuleQueryBatchEnvelope", "ModuleQueryCacheStatus", "ModuleQueryTimings"}) @@
    [ModuleQueryCacheFacts |->
        [mk |-> AsIs({"ModuleQueryCacheFacts"})["ModuleQueryCacheFacts"].mk
                    @@ ("resource" :> Nothing)]]

QueryOutcomeWires == AsIs({"ModuleQueryBatchCachedOutcome", "ModuleSnapshotCacheClearResult",
                           "SerializableNameRef"})
module_query_wire == AsIs({"ModuleQueryOutcome"})
\* (A value is then pretty-printed by a second call, for which see SessionCalls.)
meta_wire         == AsIs({"MetaResponse"})

\* A proof becomes its summary, which a second call asks for.
kernel_wire ==
    [KernelOutcome |->
        [v \in HostVariants("KernelOutcome") |->
            IF v = "checked"
            THEN [diagnostics |-> Nothing, truncated |-> Nothing, summary |-> "evidence"]
            ELSE [diagnostics |-> "failure", truncated |-> "failure", summary |-> Nothing]]]
summary_wire == AsIs({"ProofSummary"})
elab_failure_wire_with_space == AsIs({"ElabFailure"})

(* -- diagnostics: whose text are the positions of? ---------------------- *)

\* The places that hold a diagnostics payload: <<type, field>>.
Holders ==
    {<<"KernelOutcome", "failure">>, <<"MetaResponse", "failure">>,
     <<"ModuleQueryResult", "failure">>, <<"ModuleQueryBatchResult", "failure">>,
     <<"ModuleQueryOutcome", "diagnostics">>,
     <<"ModuleQueryBatchCachedOutcome", "diagnostics">>,
     <<"ProofAttemptRow", "diagnostics">>, <<"ProofAttemptRow", "downstreamDiagnostics">>,
     <<"ProofAttemptOutcome", "diagnostics">>,
     <<"DeclarationVerificationFacts", "diagnostics">>,
     <<"DeclarationVerificationOutcome", "diagnostics">>,
     <<"DeclarationVerificationBatchOutcome", "diagnostics">>}

\* A proof attempt elaborates the caller's text with the candidate spliced
\* in; everything else elaborates the text as it came.
Elaborated(holder) == IF holder[1] = "ProofAttemptRow" THEN "overlay" ELSE "source"

\* The space the child declares for the same places.
\* Mutant: a row's failures converted like any other.
RowsLikeAnyOther == "originalSource"
proof_attempt_row_space == "syntheticBuffer"
elab_failure_wire       == "originalSource"
Space(holder) == IF holder[1] = "ProofAttemptRow" THEN proof_attempt_row_space
                 ELSE elab_failure_wire

\* A diagnostic has no position, a start, or a start and an end.
Positions == {"none", "start", "range"}

diagnostics_with_space(position, space) ==
    [mk |->
        [f \in {"severity", "message", "fileLabel"} |-> f] @@
        [f \in {"line", "column"} |-> IF position = "none" THEN Nothing ELSE "position"] @@
        [f \in {"endLine", "endColumn"} |-> IF position = "range" THEN "position" ELSE Nothing] @@
        ("coordinateSpace" :> space) @@
        ("originalRange" :> IF space = "originalSource" /\ position # "none"
                            THEN "position" ELSE Nothing)]

Wires == worker_import_stats @@ SearchWires @@ source_range_wire @@ derived_work_facts_wire
    @@ InspectionWires @@ PositionWires @@ ProofAttemptWires @@ VerificationWires
    @@ ProofStateWires @@ QueryResultWires @@ QueryOutcomeWires @@ module_query_wire
    @@ meta_wire @@ kernel_wire @@ summary_wire @@ elab_failure_wire_with_space

(* -- reading an object -------------------------------------------------- *)

Unreadable == [variant |-> "unreadable", fields |-> [f \in {} |-> f]]
Garbage    == "garbage"    \* bytes that are no field, or part of one

Obj(c, tag) == [tag |-> tag, heap |-> ~Boxed(c), objs |-> c.objs,
                scalars |-> Scalars(c), size |-> ScalarSize(c)]

\* take_ctor_objects, ctor_shape: the tag and the number of slots; a read of
\* the bytes must lie within them.
Fits(r, obj) ==
    /\ r.tag = obj.tag
    /\ r.heap => obj.heap /\ Len(r.objs) = Len(obj.objs)
    /\ \A o \in DOMAIN r.tail : o + r.tail[o][2] <= obj.size

\* uint8, bool, uint64: whatever lies there.
ScalarAt(obj, o, width) ==
    IF o \in DOMAIN obj.scalars /\ obj.scalars[o][2] = width
    THEN obj.scalars[o][1] ELSE Garbage

\* What a reader makes of an object it accepts.
Decoded(r, obj) ==
    [variant |-> r.variant,
     fields  |-> [f \in {r.objs[i] : i \in DOMAIN r.objs} |->
                     obj.objs[CHOOSE i \in DOMAIN r.objs : r.objs[i] = f]] @@
                 [f \in {r.tail[o][1] : o \in DOMAIN r.tail} |->
                     LET o == CHOOSE o \in DOMAIN r.tail : r.tail[o][1] = f
                     IN  ScalarAt(obj, o, r.tail[o][2])]]

(* -- one value under way ------------------------------------------------ *)

VARIABLES
    way,        \* "answer", "request", "choice"; "none" between two values
    kind,       \* its type
    variant,    \* the constructor it left as
    place,      \* a diagnostic's: [holder, position]
    at,         \* where it is: "lean", "host", "object", "parent"
    value       \* what it is there

wireVars == <<way, kind, variant, place, at, value>>

NoPlace == [holder |-> <<Nothing, Nothing>>, position |-> "none"]

WireInit == /\ way = "none" /\ kind = Nothing /\ variant = Nothing
            /\ place = NoPlace /\ at = "lean" /\ value = Nothing

Leaves(w, t, v, p, from, val) ==
    /\ way = "none"
    /\ way' = w /\ kind' = t /\ variant' = v /\ place' = p /\ at' = from /\ value' = val

Moves(to, val) == at' = to /\ value' = val /\ UNCHANGED <<way, kind, variant, place>>

\* The shim returns a constructor of its own.
LeanAnswers(t) ==
    \E i \in DOMAIN Answers[t] :
        LET c == Answers[t][i]
        IN  /\ <<t, c.name>> \notin ShimNeverBuilds
            /\ \E p \in IF t # "Diagnostic" THEN {NoPlace}
                        ELSE [holder : Holders, position : Positions] :
                   Leaves("answer", t, c.name, p, "lean", Obj(c, i - 1))

\* The capability has no such export: the host answers in its stead.
HostSynthesizes(t) ==
    /\ t \in {"DeclarationInspectionResult", "ModuleQueryOutcome", "ModuleQueryBatchOutcome",
              "ModuleQueryBatchCachedOutcome", "ProofAttemptOutcome",
              "DeclarationVerificationOutcome", "DeclarationVerificationBatchOutcome",
              "MetaResponse"}
    /\ Leaves("answer", t, "unsupported", NoPlace, "host",
              [variant |-> "unsupported",
               fields  |-> [f \in HostFields(t, "unsupported") |-> f]])

\* try_from_lean.
HostReads ==
    /\ way = "answer" /\ at = "lean"
    /\ IF \E r \in Readers[kind] : Fits(r, value)
       THEN \E r \in Readers[kind] : Fits(r, value) /\ Moves("host", Decoded(r, value))
       ELSE Moves("host", Unreadable)

\* Some types are the host's own business and end there.
EndsAtHost == value = Unreadable \/ kind \notin DOMAIN Wires \cup {"Diagnostic"}

\* The child puts the host's value on the wire.
ChildAnswers ==
    /\ way = "answer" /\ at = "host" /\ ~EndsAtHost
    /\ LET wire == IF kind = "Diagnostic"
                   THEN diagnostics_with_space(place.position, Space(place.holder)).mk
                   ELSE Wires[kind][value.variant]
       IN  Moves("parent", [variant |-> value.variant,
                            fields  |-> [f \in DOMAIN wire |->
                                IF wire[f] \in DOMAIN value.fields
                                THEN value.fields[wire[f]] ELSE wire[f]]])

\* The parent asks; the child makes it the host's request.
ParentAsks(t) ==
    \E v \in DOMAIN Asks[t] :
        Leaves("request", t, v, NoPlace, "host",
               [variant |-> v, fields |-> AskedOfHost[t][v]])

ParentChooses(choice) ==
    \E v \in Enumerations[choice] :
        Leaves("choice", choice, v, NoPlace, "host", ChoiceOfHost(choice, v))

\* into_lean.
HostBuilds ==
    /\ way = "request" /\ at = "host"
    /\ \E b \in Builders[kind] :
          /\ b.variant = value.variant
          /\ Moves("object", [tag |-> b.tag, heap |-> b.heap,
                              objs |-> [i \in DOMAIN b.objs |-> value.fields[b.objs[i]]]])

HostEncodes == way = "choice" /\ at = "host" /\ Moves("object", Codes[value])

\* The shim's match: a constructor by its tag, then its slots by position;
\* nothing is checked, so an object of another shape is read as it lies.
LeanMatches ==
    /\ way = "request" /\ at = "object"
    /\ LET ctors == Requests[kind]
       IN  IF /\ value.tag < Len(ctors)
              /\ Boxed(ctors[value.tag + 1]) = ~value.heap
              /\ Len(ctors[value.tag + 1].objs) = Len(value.objs)
           THEN LET c == ctors[value.tag + 1]
                IN  Moves("lean", [variant |-> c.name,
                                   fields  |-> [f \in Fields(c) |->
                                       value.objs[CHOOSE i \in DOMAIN c.objs : c.objs[i] = f]]])
           ELSE Moves("lean", Unreadable)

LeanCompares == /\ way = "choice" /\ at = "object"
                /\ Moves("lean", TakenFor(kind, value))

\* The value is consumed where its way ends, and another may set out.
Arrived == \/ way = "answer" /\ at = "parent"
           \/ way = "answer" /\ at = "host" /\ EndsAtHost
           \/ way \in {"request", "choice"} /\ at = "lean"
Consumed == /\ Arrived
            /\ way' = "none" /\ kind' = Nothing /\ variant' = Nothing
            /\ place' = NoPlace /\ at' = "lean" /\ value' = Nothing

WireNext == \/ \E t \in DOMAIN Answers : LeanAnswers(t) \/ HostSynthesizes(t)
            \/ HostReads \/ ChildAnswers
            \/ \E t \in DOMAIN Asks : ParentAsks(t)
            \/ \E c \in DOMAIN Enumerations : ParentChooses(c)
            \/ HostBuilds \/ HostEncodes \/ LeanMatches \/ LeanCompares
            \/ Consumed

WireSpec == WireInit /\ [][WireNext]_wireVars

(* -- properties --------------------------------------------------------- *)

\* The Lean field that a field of the host or of the wire stands for.
StandsFor(f) ==
    CASE f = "verificationStatus" -> {"status"}
      [] f = "statementPretty"    -> {"statementRendering"}
      [] f = "exists"             -> {"existsDecl"}
      [] kind = "KernelOutcome"   -> {"evidence", "failure", Nothing}
      [] f = "resource"           -> {Nothing}
      [] f \in {"line", "column", "endLine", "endColumn", "originalRange"}
         /\ kind = "Diagnostic"   -> {"position", Nothing}
      [] f = "coordinateSpace"    -> {"originalSource", "syntheticBuffer"}
      [] OTHER                    -> {f}

\* The fields of what was sent; a diagnostic without a position lacks it.
SentFields ==
    UNION {Fields(c) : c \in {Answers[kind][i] : i \in {j \in DOMAIN Answers[kind] :
                                                     Answers[kind][j].name = variant}}}
    \ (IF kind = "Diagnostic" /\ place.position = "none" THEN {"position"} ELSE {})

\* Whatever the shim answers, and whatever the host answers in its stead,
\* is read without a conversion error, as the constructor it was, each
\* field of the host and of the wire holding the Lean field it is named
\* for, and no Lean field missing: the tags, slot counts and byte offsets
\* written out in try_from_lean are those of the Lean declarations.
FieldsArrive ==
    way = "answer" /\ at # "lean" =>
        /\ value # Unreadable
        /\ value.variant = variant
        /\ \A f \in DOMAIN value.fields : value.fields[f] \in StandsFor(f)
        /\ SentFields \subseteq {value.fields[f] : f \in DOMAIN value.fields}
        /\ at = "parent" => DOMAIN value.fields = Wire[kind][variant]

\* A diagnostic claims a range in the caller's source exactly when it has a
\* position and Lean elaborated the caller's source, not an overlay of it.
PositionsAreTheCallers ==
    way = "answer" /\ kind = "Diagnostic" /\ at = "parent" =>
        LET own == Elaborated(place.holder) = "source"
        IN  /\ (value.fields.coordinateSpace = "originalSource") <=> own
            /\ (value.fields.originalRange # Nothing) <=> (own /\ place.position # "none")

\* An answer arrives as it was sent, and says whose text it speaks of.
AnswersArrive == FieldsArrive /\ PositionsAreTheCallers

\* What the parent asks is what the shim matches: the constructor, the
\* field in every position, and the meaning of every enumeration or flag
\* that travels as a number.
RequestsArrive ==
    /\ way = "request" /\ at = "lean" =>
          /\ value # Unreadable
          /\ value.variant = variant
          /\ \A f \in DOMAIN value.fields : value.fields[f] = f
          /\ DOMAIN value.fields = Asks[kind][variant]
    /\ way = "choice" /\ at = "lean" => value = variant
=============================================================================
