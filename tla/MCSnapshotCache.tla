--------------------------- MODULE MCSnapshotCache ---------------------------
(* A small instance of SnapshotCache: two environments of different classes, *)
(* one file, a plain source, a source that is a module, and a larger one.    *)
EXTENDS SnapshotCache, TLC
CONSTANTS t1, t2, e1, e2, f1, f2, s1, s2, m1, o1, o2
Req(e, f, s, o) == [env |-> e, file |-> f, src |-> s, opts |-> o]
MCRequests == {Req(e1, f1, s1, o1), Req(e2, f1, s1, o1), Req(e1, f1, s1, o2),
               Req(e1, f1, m1, o1), Req(e1, f2, s2, o1)}
MCClass == [e \in Envs |-> e]
MCIncomplete == {<<e2, s1>>}
MCSize == [s \in Sources |-> CASE s = s1 -> 1 [] s = s2 -> 3 [] OTHER -> 2]
Symmetric == Permutations({t1, t2})
=============================================================================
