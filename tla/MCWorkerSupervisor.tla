------------------------- MODULE MCWorkerSupervisor -------------------------
(* TLC instances of WorkerSupervisor; the values are in the cfg files.      *)
EXTENDS WorkerSupervisor, TLC
=============================================================================
