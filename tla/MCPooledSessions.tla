--------------------------- MODULE MCPooledSessions ---------------------------
(* TLC instance of PooledSessions; the bounds are in the cfg file.          *)
EXTENDS PooledSessions, MCWorkerPool

CONSTANTS c1, c2, c3

MCConfigs == {c1, c2, c3}
MCResidue == [c \in MCConfigs |-> IF c = c3 THEN 2 ELSE 1]

\* Equal ends without extensions; a hint longer than the pool with imports
\* that register extensions, and reads of the registry that may fail; a
\* binary that imports on every open.
MCSetups ==
  {[hintCap |-> 2, poolCap |-> 2, pooled |-> TRUE, registers |-> {}, epochFails |-> FALSE],
   [hintCap |-> 3, poolCap |-> 2, pooled |-> TRUE, registers |-> {c2, c3}, epochFails |-> FALSE],
   [hintCap |-> 3, poolCap |-> 2, pooled |-> TRUE, registers |-> {c2, c3}, epochFails |-> TRUE],
   [hintCap |-> 3, poolCap |-> 2, pooled |-> FALSE, registers |-> {}, epochFails |-> FALSE]}
=============================================================================
