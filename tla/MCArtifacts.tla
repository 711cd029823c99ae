----------------------------- MODULE MCArtifacts -----------------------------
(* Two builders with two export sets, one loader, two file names.           *)
EXTENDS Artifacts, TLC

Opt(e, s, q, x) == [exports |-> e, sysroot |-> s, quiet |-> q, explicit |-> x]

AllOptions ==
    { Opt("first", "ambient", FALSE, {}),
      Opt("first", "other", FALSE, {"initialized"}),
      Opt("second", "ambient", TRUE, {"plain"}) }
=============================================================================
