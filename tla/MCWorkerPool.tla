---------------------------- MODULE MCWorkerPool ----------------------------
(* TLC instances of WorkerPool; the values are in the cfg files.            *)
EXTENDS WorkerPool, TLC

CONSTANTS k1, k2, k3

MCKeys == {k1, k2, k3}
Symmetry == Permutations(MCKeys)
=============================================================================
