--------------------------- MODULE MCSourcePackage ---------------------------
(* Two processes, two toolchain labels that share an entry and one that does *)
(* not; three requests of one owner and label: the second generates one file *)
(* more, the third wants no packages; the sentinel is a generated file.      *)
EXTENDS SourcePackage, TLC

CONSTANTS p1, p2

Req(l, v, g, y) == [label |-> l, version |-> v, generated |-> g, policy |-> y]

Extra == <<<<"Extra.lean", "code">>>>
More  == <<<<"More.lean", "code">>>>

AllRequests ==
    { Req("lean4:v1", "1.0", Extra, "AllowPackages"),
      Req("lean4:v1", "1.0", Extra \o More, "AllowPackages"),
      Req("lean4:v1", "1.0", Extra, "ZeroPackages"),
      Req("lean4_v1", "1.0", Extra, "AllowPackages"),
      Req("lean4:v2", "1.0", Extra, "AllowPackages") }

Names == [l \in {"lean4:v1", "lean4_v1", "lean4:v2"} |->
            IF l = "lean4:v2" THEN "lean4_v2" ELSE "lean4_v1"]

\* requests of two entries, and of one
TwoEntries == {r \in AllRequests : r.label \in {"lean4:v1", "lean4:v2"}}
OneEntry   == {r \in AllRequests : Names[r.label] = "lean4_v1"}

AllLabels == DOMAIN Names
AllEntries == {"lean4_v1", "lean4_v2"}

Includes == <<Manifest, "Shim.lean">>
Generated == {"Extra.lean"}

ProcSymmetry == Permutations({p1, p2})
=============================================================================
