--------------------------- MODULE MCHostSessions ---------------------------
(* A small instance of HostSessions. *)
EXTENDS HostSessions
CONSTANTS t1, t2, k1, k2, n1
MCBatches == {<<n1>>}
Symmetric == Permutations({t1, t2})
=============================================================================
