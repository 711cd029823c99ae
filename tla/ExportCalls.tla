---------------------------- MODULE ExportCalls ----------------------------
(***************************************************************************)
(* Checked calls of a capability's exports.  A build script declares the   *)
(* ABI of what Lake compiles; the manifest carries the declarations to the *)
(* loader, as text; a caller asks for an export under Rust types; and what *)
(* the compiled code returns is decoded into them.  Nothing but the        *)
(* declaration relates the Rust types to the compiled code.                *)
(***************************************************************************)
EXTENDS Naturals, Sequences, FiniteSets

CONSTANTS
    Symbols,      \* names of exports
    Dylibs,       \* what Lake may have built, see Compile
    Declarable,   \* signatures that a build script may declare
    Callers,      \* call shapes: [args: Rust types, result: Rust type, io: LeanIo]
    MaxDeclared   \* bound: signatures declared

ASSUME ExportAssumption == MaxDeclared \in Nat /\ "" \notin Symbols

-----------------------------------------------------------------------------
(* Signatures and their spelling in the manifest.                          *)

\* as_str
ReprSpelling ==
    [LeanObject |-> "lean_object", U8 |-> "u8", U16 |-> "u16", U32 |-> "u32", U64 |-> "u64",
     USize |-> "usize", I8 |-> "i8", I16 |-> "i16", I32 |-> "i32", I64 |-> "i64",
     ISize |-> "isize", F64 |-> "f64"]
KindSpelling       == [Function |-> "function", Global |-> "global"]
OwnershipSpelling  == [None |-> "none", Owned |-> "owned"]
ConventionSpelling == [Pure |-> "pure", IoResult |-> "io_result"]

\* from_str
\* Mutant: two representations of eight bytes mistaken for each other
ReprMisnamed ==
    [lean_object |-> "LeanObject", u8 |-> "U8", u16 |-> "U16", u32 |-> "U32", u64 |-> "USize",
     usize |-> "U64", i8 |-> "I8", i16 |-> "I16", i32 |-> "I32", i64 |-> "I64",
     isize |-> "ISize", f64 |-> "F64"]
ReprNamed ==
    [lean_object |-> "LeanObject", u8 |-> "U8", u16 |-> "U16", u32 |-> "U32", u64 |-> "U64",
     usize |-> "USize", i8 |-> "I8", i16 |-> "I16", i32 |-> "I32", i64 |-> "I64",
     isize |-> "ISize", f64 |-> "F64"]
KindNamed       == [function |-> "Function", global |-> "Global"]
OwnershipNamed  == [none |-> "None", owned |-> "Owned"]
ConventionNamed == [pure |-> "Pure", io_result |-> "IoResult"]

ArgAbi(repr, ownership) == [repr |-> repr, ownership |-> ownership]
ReturnAbi(repr, ownership, convention) ==
    [repr |-> repr, ownership |-> ownership, convention |-> convention]
Signature(sort, symbol, args, result) ==
    [kind |-> sort, symbol |-> symbol, args |-> args, result |-> result]
function(symbol, args, result) == Signature("Function", symbol, args, result)
global(symbol, result)         == Signature("Global", symbol, <<>>, result)

to_json(sig) ==
    [symbol |-> sig.symbol,
     kind   |-> KindSpelling[sig.kind],
     args   |-> [i \in DOMAIN sig.args |->
                    ArgAbi(ReprSpelling[sig.args[i].repr],
                           OwnershipSpelling[sig.args[i].ownership])],
     result |-> ReturnAbi(ReprSpelling[sig.result.repr],
                          OwnershipSpelling[sig.result.ownership],
                          ConventionSpelling[sig.result.convention])]

\* The reader's parse of one entry.
from_json(entry) ==
    LET args   == [i \in DOMAIN entry.args |->
                      ArgAbi(ReprNamed[entry.args[i].repr],
                             OwnershipNamed[entry.args[i].ownership])]
        result == ReturnAbi(ReprNamed[entry.result.repr],
                            OwnershipNamed[entry.result.ownership],
                            ConventionNamed[entry.result.convention])
    IN  IF KindNamed[entry.kind] = "Function" THEN function(entry.symbol, args, result)
        ELSE global(entry.symbol, result)

\* validate_ownership
OwnershipExpected(repr) == IF repr = "LeanObject" THEN "Owned" ELSE "None"
WellOwned(slot) == slot.ownership = OwnershipExpected(slot.repr)

\* export_return_from_manifest, then the rules for globals
EntryAccepted(entry) ==
    LET sig == from_json(entry)
    IN  /\ entry.symbol # ""
        /\ \A i \in DOMAIN sig.args : WellOwned(sig.args[i])
        /\ WellOwned(sig.result)
        /\ sig.result.convention = "IoResult" =>
              sig.result.repr = "LeanObject" /\ sig.result.ownership = "Owned"
        /\ sig.kind = "Global" => entry.args = <<>> /\ sig.result.convention # "IoResult"

\* exports_from_manifest: whether the entries are accepted ...
\* Mutant: duplicates are accepted, of which the table keeps the last
ExportsReadableTwice(entries) == \A i \in DOMAIN entries : EntryAccepted(entries[i])
ExportsReadable(entries) ==
    /\ \A i \in DOMAIN entries : EntryAccepted(entries[i])
    /\ \A i, j \in DOMAIN entries : entries[i].symbol = entries[j].symbol => i = j

\* ... and the loader's table of them
Table(entries) ==
    LET last(s) == CHOOSE i \in DOMAIN entries :
                      /\ entries[i].symbol = s
                      /\ \A j \in DOMAIN entries : entries[j].symbol = s => j <= i
    IN  [s \in {entries[i].symbol : i \in DOMAIN entries} |-> from_json(entries[last(s)])]

-----------------------------------------------------------------------------
(* The Rust types of a call, and their representation.                     *)

\* LeanAbi::CRepr and LeanCReprAbi
CRepr ==
    [unit |-> "LeanObject", bool |-> "U8", u8 |-> "U8", u16 |-> "U16", u32 |-> "U32",
     u64 |-> "U64", usize |-> "USize", i8 |-> "I8", i16 |-> "I16", i32 |-> "I32",
     i64 |-> "I64", isize |-> "ISize", char |-> "U32", f64 |-> "F64",
     String |-> "LeanObject", Obj |-> "LeanObject"]

ownership_for_repr(repr) == IF repr = "LeanObject" THEN "Owned" ELSE "None"
export_abi_args(args) ==
    [i \in DOMAIN args |-> ArgAbi(CRepr[args[i]], ownership_for_repr(CRepr[args[i]]))]
export_abi_return(c) ==
    IF c.io THEN ReturnAbi("LeanObject", "Owned", "IoResult")
    ELSE ReturnAbi(CRepr[c.result], ownership_for_repr(CRepr[c.result]), "Pure")

-----------------------------------------------------------------------------
(* Lean: compiled exports [kind, args, result, io] over Lean types.  A     *)
(* value stands for its bits; a constant without parameters is a global.   *)

Absent == [kind |-> "absent"]

\* The C type Lake emits; signed integers share the bits of the unsigned.
EmittedRepr ==
    [Unit |-> "LeanObject", Bool |-> "U8", UInt8 |-> "U8", UInt16 |-> "U16", UInt32 |-> "U32",
     UInt64 |-> "U64", USize |-> "USize", Int8 |-> "I8", Int16 |-> "I16", Int32 |-> "I32",
     Int64 |-> "I64", ISize |-> "ISize", Char |-> "U32", Float |-> "F64",
     String |-> "LeanObject", Nat |-> "LeanObject", Structure |-> "LeanObject"]

\* What a build script can write down, a caller can ask for and Lake can emit.
Slots      == [repr : DOMAIN ReprSpelling, ownership : DOMAIN OwnershipSpelling]
Results    == [repr : DOMAIN ReprSpelling, ownership : DOMAIN OwnershipSpelling,
               convention : DOMAIN ConventionSpelling]
Signatures == [kind : DOMAIN KindSpelling, symbol : STRING, args : Seq(Slots), result : Results]
Shapes     == [args : Seq(DOMAIN CRepr), result : DOMAIN CRepr, io : BOOLEAN]
Exports    == {e \in [kind : DOMAIN KindSpelling, args : Seq(DOMAIN EmittedRepr),
                      result : DOMAIN EmittedRepr, io : BOOLEAN] :
                 e.kind = "Global" => e.args = <<>> /\ ~e.io}

\* The constants are of the types of the program.
ASSUME ExportTypes ==
    /\ Declarable \subseteq Signatures /\ Callers \subseteq Shapes
    /\ \A d \in Dylibs : \A s \in Symbols : d.exports[s] \in Exports \cup {Absent}

\* The signature that describes a compiled export.
Describing(symbol, e) ==
    LET slot(t) == ArgAbi(EmittedRepr[t], OwnershipExpected(EmittedRepr[t]))
        result  == IF e.io THEN ReturnAbi("LeanObject", "Owned", "IoResult")
                   ELSE ReturnAbi(EmittedRepr[e.result],
                                  OwnershipExpected(EmittedRepr[e.result]), "Pure")
    IN  IF e.kind = "Global" THEN global(symbol, result)
        ELSE function(symbol, [i \in DOMAIN e.args |-> slot(e.args[i])], result)

\* Some values, each with the bits it needs.
BitsOf == [false |-> 1, true |-> 1, two |-> 2, w300 |-> 9, surrogate |-> 16, w2p40 |-> 41,
           w2p70 |-> 71, half |-> 64, text |-> 0, fields |-> 0]
Inhabitants(t) ==
    CASE t = "Unit"                       -> {"false"}
      [] t = "Bool"                       -> {"false", "true"}
      [] t \in {"UInt8", "Int8"}          -> {"true", "two"}
      [] t \in {"UInt16", "Int16"}        -> {"two", "w300"}
      [] t \in {"UInt32", "Int32"}        -> {"w300", "surrogate"}
      [] t \in {"UInt64", "Int64", "USize", "ISize"} -> {"true", "w2p40"}
      [] t = "Char"                       -> {"true", "w300"}
      [] t = "Float"                      -> {"half"}
      [] t = "String"                     -> {"text"}
      [] t = "Nat"                        -> {"true", "w300", "w2p40", "w2p70"}
      [] t = "Structure"                  -> {"fields"}

\* A value as an object: what a type of at most 32 bits boxes to is no
\* constructor, what a wider one boxes to is one.
ShapeOf(t, v) ==
    CASE t \in {"UInt64", "Int64", "USize", "ISize"} -> "word"
      [] t = "Float"     -> "double"
      [] t = "String"    -> "string"
      [] t = "Structure" -> "ctor"
      [] t = "Nat" /\ BitsOf[v] > 63 -> "bignum"
      [] OTHER           -> "scalar"
ObjectOf(t, v) == [shape |-> ShapeOf(t, v), bits |-> v]

-----------------------------------------------------------------------------
(* Decoding.                                                               *)

Outcome(sort, v) == [kind |-> sort, value |-> v]
NoOutcome  == Outcome("none", "none")
Ok(v)      == Outcome("ok", v)
Conversion == Outcome("conversion", "none")
Undefined  == Outcome("undefined", "none")
Checked(test, v) == IF test THEN Ok(v) ELSE Conversion

WidthOf == [u8 |-> 8, i8 |-> 8, u16 |-> 16, i16 |-> 16, u32 |-> 32, i32 |-> 32]
Wide    == {"u64", "usize", "i64", "isize", "f64"}
IsBool(v)    == v \in {"false", "true"}
\* Mutant: any 32 bits are a character
IsCodePoint(v) == BitsOf[v] <= 32
IsUnicode(v)   == BitsOf[v] <= 32 /\ v # "surrogate"

\* require_scalar, require_ctor, require_string
IsScalar(obj) == obj.shape = "scalar"
IsCtor(obj)   == obj.shape \in {"word", "double", "ctor"}
IsString(obj) == obj.shape = "string"

\* lean_unbox_uint64 and its kin read the eight bytes after the header.
FirstWord(t, obj) ==
    IF obj.shape = (IF t = "f64" THEN "double" ELSE "word") THEN obj.bits ELSE "garbage"

\* TryFromLean::try_from_lean
TryFromLean(t, obj) ==
    CASE t = "unit"   -> Checked(IsScalar(obj), "false")
      [] t = "bool"   -> Checked(IsScalar(obj) /\ IsBool(obj.bits), obj.bits)
      [] t = "char"   -> Checked(IsScalar(obj) /\ IsUnicode(obj.bits), obj.bits)
      [] t = "String" -> Checked(IsString(obj), obj.bits)
      [] t = "Obj"    -> Ok(obj.bits)
      [] t \in Wide   -> Checked(IsCtor(obj), FirstWord(t, obj))
      [] OTHER        -> Checked(IsScalar(obj) /\ BitsOf[obj.bits] <= WidthOf[t], obj.bits)

\* LeanAbi::from_c, of a slot that holds what the type expects there.
FromC(t, from, v) ==
    CASE CRepr[t] = "LeanObject" -> TryFromLean(t, ObjectOf(from, v))
      [] t = "bool"              -> Checked(IsBool(v), v)
      [] t = "char"              -> Checked(IsUnicode(v), v)
      [] OTHER                   -> Ok(v)

-----------------------------------------------------------------------------
VARIABLES
    stage,      \* "lake", "script", "built", "open", "refused"
    dylib,      \* [exports, stripped, initializer, body]
    declared,   \* the script's export_signatures
    manifest,   \* its "exports" array
    signed,     \* the capability's export_signatures
    handle,     \* the LeanExported in use, or NoHandle
    outcome,    \* of the last look-up or call
    returned    \* what Lean returned to that call: [raised, value], or NoReturn

exportVars == <<stage, dylib, declared, manifest, signed, handle, outcome, returned>>

NoDylib   == [exports |-> [s \in Symbols |-> Absent], stripped |-> FALSE,
              initializer |-> "missing", body |-> "ok"]
NoTable   == [s \in {} |-> "none"]
NoHandle  == [target |-> "none"]
NoReturn  == [raised |-> FALSE, value |-> "none"]

ExportInit ==
    /\ stage = "lake" /\ dylib = NoDylib /\ declared = <<>> /\ manifest = <<>>
    /\ signed = NoTable /\ handle = NoHandle /\ outcome = NoOutcome /\ returned = NoReturn

Keeps == UNCHANGED <<dylib, declared, manifest>>
AtRest == handle = NoHandle /\ outcome = NoOutcome

\* lake build
Compile(d) == /\ stage = "lake" /\ stage' = "script" /\ dylib' = d
              /\ UNCHANGED <<declared, manifest, signed, handle, outcome, returned>>

\* CargoLeanCapability::export_signature: nothing is checked here.
export_signature(sig) ==
    /\ stage = "script" /\ Len(declared) < MaxDeclared
    /\ declared' = Append(declared, sig)
    /\ UNCHANGED <<stage, dylib, manifest, signed, handle, outcome, returned>>

\* CargoLeanCapability::build
WriteManifest ==
    /\ stage = "script" /\ stage' = "built"
    /\ manifest' = [i \in DOMAIN declared |-> to_json(declared[i])]
    /\ UNCHANGED <<dylib, declared, signed, handle, outcome, returned>>

-----------------------------------------------------------------------------
(* Opening.                                                                *)

\* A descriptor: its sources, a variable being unset or set at run time.
Variable == {"none", "unset", "set"}
Descriptors ==
    [dylib_path : BOOLEAN, env_var : Variable, manifest_path : BOOLEAN,
     manifest_env_var : Variable, named : BOOLEAN]

\* dylib_path, resolved_manifest_path
DylibResolves(spec)    == spec.dylib_path \/ spec.env_var = "set"
ManifestResolves(spec) == spec.manifest_path \/ spec.manifest_env_var = "set"

\* from_lake_names, lookup_initializer: the modern or the older name
HasInitializer == dylib.initializer \in {"modern", "legacy"}

\* call_initializer: neither a panic, nor a null pointer, nor IO.error
InitializerReturns == dylib.body = "ok"

\* LeanLibrary::open_globally, then initialize_module
Initializes == HasInitializer /\ InitializerReturns

\* open_with_dependencies_and_exports: load, initialize, keep the table.
Opens(loadable, table) ==
    /\ stage = "built"
    /\ IF loadable /\ Initializes
       THEN stage' = "open" /\ signed' = table
       ELSE stage' = "refused" /\ UNCHANGED signed
    /\ Keeps /\ UNCHANGED <<handle, outcome, returned>>

\* The preflight finds no initializer under either name (check_initializer).
from_build_manifest(spec) ==
    Opens(ManifestResolves(spec) /\ ExportsReadable(manifest) /\ HasInitializer,
          Table(manifest))
from_build_env(spec) == Opens(DylibResolves(spec) /\ spec.named, NoTable)
open == Opens(TRUE, NoTable)

-----------------------------------------------------------------------------
(* Look-up.                                                                *)

\* classify_globals reads .symtab, which a stripped library does not have.
globals == IF dylib.stripped THEN {}
           ELSE {s \in Symbols : dylib.exports[s].kind = "Global"}
Resolves(s) == dylib.exports[s] # Absent

Refuses(why) == outcome' = Outcome(why, "none") /\ UNCHANGED handle
Hands(target, s, c) ==
    /\ handle' = [target |-> target, name |-> s, call |-> c]
    /\ UNCHANGED outcome

\* LeanModule::exported_unchecked
UncheckedTo(s, c, missing) ==
    IF s \in globals
    THEN IF Len(c.args) > 0 \/ c.io THEN Refuses("not_a_function")
         ELSE Hands("Global", s, c)
    ELSE IF Resolves(s) THEN Hands("Function", s, c) ELSE Refuses(missing)

\* The signature asked for, in terms of the manifest's kind.
Expected(sig, s, c) ==
    IF sig.kind = "Global" /\ Len(c.args) = 0 /\ ~c.io THEN global(s, export_abi_return(c))
    ELSE function(s, export_abi_args(c.args), export_abi_return(c))

ActualKind(s) == IF s \in globals THEN "Global" ELSE "Function"

\* LeanCapability::exported.  (The module's initializer is run once more and
\* returns at once: its body ran.)
\* Mutant: the kind in the library is not asked for
exportedAnyKind(s, c) ==
    /\ stage = "open" /\ AtRest
    /\ IF s \notin DOMAIN signed THEN Refuses("missing_metadata")
       ELSE IF Expected(signed[s], s, c) # signed[s] THEN Refuses("signature_mismatch")
       ELSE UncheckedTo(s, c, "missing_symbol")
    /\ Keeps /\ UNCHANGED <<stage, signed, returned>>
exported(s, c) ==
    /\ stage = "open" /\ AtRest
    /\ IF s \notin DOMAIN signed THEN Refuses("missing_metadata")
       ELSE IF Expected(signed[s], s, c) # signed[s] THEN Refuses("signature_mismatch")
       ELSE IF signed[s].kind # ActualKind(s) THEN Refuses("kind_mismatch")
       ELSE UncheckedTo(s, c, "missing_symbol")
    /\ Keeps /\ UNCHANGED <<stage, signed, returned>>

-----------------------------------------------------------------------------
(* Calls.                                                                  *)

\* The slots the caller's function type has, and those Lake emitted.
Agree(e, c) ==
    /\ [i \in DOMAIN e.args |-> EmittedRepr[e.args[i]]] = [i \in DOMAIN c.args |-> CRepr[c.args[i]]]
    /\ e.io = c.io
    /\ e.io \/ EmittedRepr[e.result] = CRepr[c.result]

\* DecodeCallResult::decode_c; for LeanIo, decode_io and then the payload
Decodes(e, c, ret) ==
    IF c.io THEN IF ret.raised THEN Outcome("exception", "none")
                 ELSE TryFromLean(c.result, ObjectOf(e.result, ret.value))
    ELSE FromC(c.result, e.result, ret.value)

\* LeanExported::call.  A function is entered through the caller's type; a
\* global's slot is read as an object pointer whatever it holds.
call(ret) ==
    LET e == dylib.exports[handle.name]  c == handle.call
    IN  /\ handle # NoHandle /\ outcome = NoOutcome
        /\ ret.value \in Inhabitants(e.result) /\ (ret.raised => e.io)
        /\ outcome' = IF handle.target = "Function"
                      THEN IF e.kind = "Function" /\ Agree(e, c) THEN Decodes(e, c, ret)
                           ELSE Undefined
                      ELSE IF EmittedRepr[e.result] = "LeanObject" /\ CRepr[c.result] = "LeanObject"
                           THEN FromC(c.result, e.result, ret.value)
                           ELSE Undefined
        /\ returned' = ret
        /\ Keeps /\ UNCHANGED <<stage, signed, handle>>

\* The caller drops the handle, or goes on after an error.
Forget == /\ stage = "open" /\ ~AtRest
          /\ handle' = NoHandle /\ outcome' = NoOutcome /\ returned' = NoReturn
          /\ Keeps /\ UNCHANGED <<stage, signed>>

ExportNext ==
    \/ \E d \in Dylibs : Compile(d)
    \/ \E sig \in Declarable : export_signature(sig)
    \/ WriteManifest
    \/ \E spec \in Descriptors : from_build_manifest(spec)
    \/ \E spec \in Descriptors : from_build_env(spec)
    \/ open
    \/ \E s \in Symbols, c \in Callers : exported(s, c)
    \/ \E ret \in [raised : BOOLEAN, value : DOMAIN BitsOf] : call(ret)
    \/ Forget

ExportSpec == ExportInit /\ [][ExportNext]_exportVars

-----------------------------------------------------------------------------
(* Properties.                                                             *)

\* A declaration that can be believed: one entry for each symbol, objects
\* owned and nothing else, globals without arguments and without IO.
Sound(sig) ==
    /\ sig.symbol # ""
    /\ \A slot \in {sig.args[i] : i \in DOMAIN sig.args} \cup {sig.result} :
          slot.ownership = "Owned" <=> slot.repr = "LeanObject"
    /\ sig.result.convention = "IoResult" => sig.kind = "Function" /\ sig.result.repr = "LeanObject"
    /\ sig.kind = "Global" => sig.args = <<>>
Consistent ==
    /\ \A i \in DOMAIN declared : Sound(declared[i])
    /\ \A i, j \in DOMAIN declared : declared[i].symbol = declared[j].symbol => i = j

\* What the build script declared is what the loader checks against, and a
\* contradictory script opens nothing that can be called: the spelling in
\* as_str and from_str, and the reader's rules, lose and admit nothing
\* (loader.rs, manifest_validation.rs).
SignaturesArrive ==
    /\ DOMAIN signed # {} =>
          /\ Consistent
          /\ {signed[s] : s \in DOMAIN signed} = {declared[i] : i \in DOMAIN declared}
    /\ \A s \in DOMAIN signed : signed[s].symbol = s
    /\ stage = "built" => (ExportsReadable(manifest) <=> Consistent)

\* The types that mirror each other on the two sides.
Mirrors ==
    [unit |-> "Unit", bool |-> "Bool", u8 |-> "UInt8", u16 |-> "UInt16", u32 |-> "UInt32",
     u64 |-> "UInt64", usize |-> "USize", i8 |-> "Int8", i16 |-> "Int16", i32 |-> "Int32",
     i64 |-> "Int64", isize |-> "ISize", char |-> "Char", f64 |-> "Float",
     String |-> "String"]

\* A constant of a scalar type is not an object, which the call takes it for.
ScalarGlobal(e) == e.kind = "Global" /\ EmittedRepr[e.result] # "LeanObject"

\* LeanIo of a wide number takes any constructor for a boxed number.
MisreadsPayload(e, c) ==
    /\ c.io /\ c.result \in Wide
    /\ e.result \in {"Structure"} \cup
          IF c.result = "f64" THEN {"UInt64", "Int64", "USize", "ISize"} ELSE {"Float"}

\* Whatever the manifest says, data is never entered as code nor code read
\* as data, if the library has its symbols.  Under a manifest that describes
\* the library, every call has a defined outcome; an answer is the value
\* Lean returned, an exception is one that Lean raised, and a caller that
\* asks for the mirror of the Lean type always gets its value
\* (LeanCapability::exported, LeanExported::call, TryFromLean).
CallsKeepMeaning ==
    handle # NoHandle =>
        LET e == dylib.exports[handle.name]
            c == handle.call
        IN  /\ ~dylib.stripped => handle.target = e.kind
            /\ signed[handle.name] = Describing(handle.name, e) /\ outcome # NoOutcome =>
                  /\ outcome = Undefined => ScalarGlobal(e)
                  /\ outcome.kind = "exception" <=> returned.raised
                  /\ outcome.kind = "ok" =>
                        /\ \/ outcome.value = returned.value \/ c.result = "unit"
                           \/ MisreadsPayload(e, c)
                        /\ c.result = "bool" => outcome.value \in {"false", "true"}
                        /\ c.result = "char" => outcome.value # "surrogate"
                  /\ c.result \in DOMAIN Mirrors /\ Mirrors[c.result] = e.result
                        /\ ~returned.raised /\ ~ScalarGlobal(e) => outcome = Ok(returned.value)

\* A checked call is checked against what was declared, and does what it says.
CheckedCallsHold == SignaturesArrive /\ CallsKeepMeaning
=============================================================================
