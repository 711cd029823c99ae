---------------------------- MODULE MCChildSide ----------------------------
(* Small instances of the models of ChildSide.                             *)
EXTENDS ChildSide

CONSTANTS rows, notes, t1, t2, n1, missing

\* Two streams, one of which list_declarations_strings picks, and two threads:
\* Lean's in the serve loop, owners of sessions in the calls.
MCStreams == {rows, notes}
MCThreads == {t1, t2}
Symmetric == Permutations(MCThreads)

\* One declared name and one that is not; batches of none, one, two equal and
\* two different names.
MCBatches == {<<>>, <<n1>>, <<missing>>, <<n1, n1>>, <<n1, missing>>}

\* The one constructor the shim declares and never returns.
MCNeverBuilds == {<<"DeclarationInspectionResult", "unsupported">>}

-----------------------------------------------------------------------------
(* Exports: one per representation and per way to decode an answer.        *)

Export(sort, args, result, io) == [kind |-> sort, args |-> args, result |-> result, io |-> io]
Fn(args, result) == Export("Function", args, result, FALSE)
Io(args, result) == Export("Function", args, result, TRUE)
Const(result)    == Export("Global", <<>>, result, FALSE)

Compiled ==
    {Fn(<<"UInt8">>, "UInt8"), Fn(<<"Char">>, "Bool"), Fn(<<"UInt64", "Int32">>, "UInt32"),
     Fn(<<"String">>, "Structure"), Fn(<<"Nat">>, "Nat"), Fn(<<"USize">>, "Float"),
     Io(<<"UInt8">>, "UInt64"), Const("String"), Const("UInt8")}
    \cup {Io(<<>>, t) : t \in {"Structure", "Nat", "Bool", "UInt32"}}

MCSymbols == {"f", "g"}

\* Every export alone; two of them, stripped or not; and what cannot open.
Dylib(f, g, stripped, initializer, body) ==
    [exports |-> ("f" :> f @@ "g" :> g), stripped |-> stripped,
     initializer |-> initializer, body |-> body]
MCDylibs ==
    {Dylib(e, Absent, FALSE, "modern", "ok") : e \in Compiled} \cup
    {Dylib(Fn(<<"UInt8">>, "UInt8"), Const("String"), b, "legacy", "ok") : b \in BOOLEAN} \cup
    {Dylib(Const("String"), Absent, FALSE, "missing", "ok"),
     Dylib(Const("String"), Absent, FALSE, "modern", "fails")}

\* True declarations of either symbol, and one for every rule of the reader.
Flaws ==
    LET scalar == Describing("f", Fn(<<"UInt8">>, "UInt8"))
        const  == Describing("f", Const("String"))
    IN  {[const EXCEPT !.args = <<ArgAbi("U8", "None")>>],
         [const EXCEPT !.result.convention = "IoResult"],
         [const EXCEPT !.symbol = ""],
         [const EXCEPT !.result.ownership = "None"],
         [scalar EXCEPT !.result.convention = "IoResult"],
         [scalar EXCEPT !.args = <<ArgAbi("U8", "Owned")>>]}
MCDeclarable ==
    {Describing("f", e) : e \in Compiled} \cup Flaws \cup
    {Describing("g", e) : e \in {Const("String"), Fn(<<"UInt8">>, "UInt8")}}

\* Callers that ask for the mirror of an export's types, or for others.
Ask(args, result, io) == [args |-> args, result |-> result, io |-> io]
MCCallers ==
    {Ask(<<"u8">>, t, FALSE) : t \in {"u8", "bool"}} \cup
    {Ask(<<"u64", "i32">>, t, FALSE) : t \in {"u32", "char"}} \cup
    {Ask(<<"char">>, "bool", FALSE), Ask(<<"usize">>, "f64", FALSE),
     Ask(<<"String">>, "Obj", FALSE), Ask(<<"Obj">>, "String", FALSE)} \cup
    {Ask(<<>>, t, FALSE) : t \in {"String", "unit", "u8"}} \cup
    {Ask(<<"u8">>, t, TRUE) : t \in {"u64", "String"}} \cup
    {Ask(<<>>, t, TRUE) : t \in {"u64", "u8", "bool", "f64", "Obj", "char", "u32"}}
=============================================================================
