----------------------------- MODULE Capabilities -----------------------------
(***************************************************************************)
(* The two lives of a capability: it is built, described by a manifest and  *)
(* opened in the caller's own process (Artifacts), or a worker is built for *)
(* it, opened and called through a handle (WorkerHandles).  What a worker   *)
(* finds on disk is a deployment of its own; one of the two runs while the  *)
(* other has not started.                                                  *)
(***************************************************************************)
EXTENDS WorkerHandles, Artifacts

\* The names of files are alike: it does not matter which is there first.
CapabilitiesInit == HandlesInit /\ ArtifactsInit /\ src[CHOOSE f \in Files : TRUE] = 1

\* Handles do not read the project: one state of it stands for them all.
ArtifactsRest == ArtifactsInit /\ deps = "missing"

CapabilitiesNext ==
  \/ ArtifactsRest /\ HandlesNext /\ UNCHANGED artifactVars
  \/ HandlesInit /\ ArtifactsNext /\ UNCHANGED handlesVars

CapabilitiesSpec ==
  CapabilitiesInit /\ [][CapabilitiesNext]_<<handlesVars, artifactVars>>
=============================================================================
