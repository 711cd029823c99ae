------------------------------ MODULE ChildSide ------------------------------
(***************************************************************************)
(* What a request meets in the child: the serve loop with its frames       *)
(* (ChildServe), a method of the host session as a program (HostCalls),    *)
(* the typed values that cross between Rust and Lean (ShimWire), and the   *)
(* calls of a capability's own exports (ExportCalls).  Each is a model of  *)
(* its own, whose state the others do not read; one of them runs while the *)
(* others rest.                                                            *)
(***************************************************************************)
EXTENDS ChildServe, HostCalls, ShimWire, ExportCalls

sideVars == <<vars, callVars, wireVars, exportVars>>

SideInit == Init /\ CallsInit /\ WireInit /\ ExportInit

\* Where each of them rests.
LoopRests    == loop = "start" /\ pipeUp
CallsRest    == calls = 0 /\ ~cancelled
WireRests    == way = "none"
ExportsRest  == stage = "lake"

SideNext ==
    \/ CallsRest /\ WireRests /\ ExportsRest
       /\ Next /\ UNCHANGED <<callVars, wireVars, exportVars>>
    \/ LoopRests /\ WireRests /\ ExportsRest
       /\ CallsNext /\ UNCHANGED <<vars, wireVars, exportVars>>
    \/ LoopRests /\ CallsRest /\ ExportsRest
       /\ WireNext /\ UNCHANGED <<vars, callVars, exportVars>>
    \/ LoopRests /\ CallsRest /\ WireRests
       /\ ExportNext /\ UNCHANGED <<vars, callVars, wireVars>>

SideSpec == SideInit /\ [][SideNext]_sideVars
=============================================================================
