---------------------------- MODULE WorkerHandles ----------------------------
(***************************************************************************)
(* The parent's whole interface to one worker: a builder is chosen,        *)
(* configured, checked and opened (CapabilityOpen), and sessions are       *)
(* opened and called through the handle that comes of it (SessionCalls).   *)
(***************************************************************************)
EXTENDS SessionCalls, CapabilityOpen

\* A handle's session is that of the shims, or of a capability.
ASSUME HandlesAssumption == {"shims", "capability"} \subseteq Keys

handlesVars == <<vars, bootVars>>

\* There is no child before a handle is there.
HandlesInit ==
  /\ BootInit
  /\ handle = NoHandle /\ child = "exited" /\ gen = 0 /\ current = NoSession
  /\ token = "live" /\ pc = "boot" /\ call = NoCall /\ ops = <<>> /\ rows = <<>>
  /\ decided = <<>> /\ outcome = NoOutcome /\ calls = 0

\* The handle's worker, with the session that the open prepared: of the
\* capability, or of the shims alone.  What led to it is forgotten.
HandOver ==
  /\ pc = "boot" /\ opened = "ok" /\ pooled = NoPool /\ op = "none"
  /\ pc' = "ready" /\ child' = "up"
  /\ current' = IF worker.session = None THEN NoSession
                ELSE [key |-> IF builder.kind = "host" THEN "shims" ELSE "capability", gen |-> gen]
  /\ UNCHANGED <<handle, gen, token, call, ops, rows, decided, outcome, calls>>
  /\ step' = "choose" /\ builder' = NoBuilder /\ settings' = 0
  /\ place' = NoPlace /\ changed' = FALSE /\ checks' = {}
  /\ worker' = NoWorker /\ checked' = "none" /\ opened' = "none"
  /\ UNCHANGED <<op, plan, pooled>>

HandlesNext ==
  \/ pc = "boot" /\ BootNext /\ UNCHANGED vars
  \/ HandOver
  \/ pc # "boot" /\ Next /\ UNCHANGED bootVars

HandlesSpec == HandlesInit /\ [][HandlesNext]_handlesVars

\* The builder's variables keep their types, and once there is a handle
\* those of its calls do.
HandlesTypeOK == BootTypeOK /\ (pc # "boot" => TypeOK)

\* Whatever builder a handle came from and whatever happened to its child,
\* an answer is one that the session it was opened with can have given
\* (WorkerSession's methods on an opened capability); no variable leaves
\* its type.
HandlesAnswer == HandlesTypeOK /\ AnswersFitCalls
=============================================================================
