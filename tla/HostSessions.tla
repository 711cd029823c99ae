---------------------------- MODULE HostSessions ----------------------------
(***************************************************************************)
(* Sessions in one process (lean-rs-host/src/host/pool.rs, session.rs,     *)
(* bracketed.rs): each thread has a SessionPool of its own; imports share  *)
(* Lean's flag that allows initializers, the registry of environment       *)
(* extensions, which only grows, and the lock around all of that.  A       *)
(* thread that holds a session makes calls on it (HostCalls).              *)
(***************************************************************************)
EXTENDS HostCalls

CONSTANTS
  Keys,          \* project, imports and profile of a session
  Registering,   \* the keys whose import registers extensions
  Capacity,      \* of each pool
  FreshImports,  \* max_fresh_imports of each pool
  RssLimited,    \* is max_rss_kib set
  MaxOpens       \* bound: imports and acquires together

NoThread == "nobody"
ASSUME HostSessionsAssumption ==
  /\ Registering \subseteq Keys /\ "none" \notin Keys /\ Capacity \in Nat /\ FreshImports \in Nat \ {0}
  /\ RssLimited \in BOOLEAN /\ MaxOpens \in Nat /\ NoThread \notin Threads

VARIABLES
  lock,       \* SESSION_IMPORT_LOCK
  initFlag,   \* Lean's enableInitializersExecution
  loaded,     \* registering keys imported so far: the registry
  job,        \* per thread: what it is opening
  session,    \* per thread: the session it holds
  pool,       \* per thread: the free list of its SessionPool
  stats,      \* per thread: PoolStats
  opens,
  header,     \* per thread: the header that its call elaborates
  lost,       \* history, per thread: entries dropped because shims did not resolve
  headerCleared \* history: the imports whose initFlag a header's import cleared

headerVars == <<header, headerCleared>>
sessionVars == <<lock, initFlag, loaded, job, session, pool, stats, opens, lost, headerVars>>
vars == <<callVars, sessionVars>>

\* extension_registry_epoch.
Epoch == Cardinality(loaded)

NoEnv == [key |-> "none", stamp |-> 0, width |-> 0]
\* An environment: the stamp recorded for it, and the extensions it has room for.
Env(k, stamp, width) == [key |-> k, stamp |-> stamp, width |-> width]

NoJob == [kind |-> "none", key |-> "none", sink |-> FALSE, at |-> "idle", since |-> 0,
          env |-> NoEnv, bridge |-> 0]

\* Hits are as many as reused; misses and refusals are not counted here.
ZeroStats == [imports |-> 0, reused |-> 0, kept |-> 0, dropped |-> 0, drained |-> 0,
              stale |-> 0, acquired |-> 0]

Init ==
  /\ CallsInit
  /\ lock = NoThread /\ initFlag = FALSE /\ loaded = {}
  /\ job = [t \in Threads |-> NoJob] /\ session = [t \in Threads |-> NoEnv]
  /\ pool = [t \in Threads |-> <<>>] /\ stats = [t \in Threads |-> ZeroStats]
  /\ opens = 0 /\ lost = [t \in Threads |-> 0]
  /\ header = [t \in Threads |-> "none"] /\ headerCleared = {}

Idle(t) == job[t].at = "idle" /\ ~Running(t)
Holds(t) == session[t] # NoEnv
Phase(t, at) == job[t].at = at
To(t, at) == job' = [job EXCEPT ![t].at = at]
Bump(t, f) == stats' = [stats EXCEPT ![t] = f]

-----------------------------------------------------------------------------
(* Acquiring from the pool                                                 *)

Matches(t, k) == {i \in DOMAIN pool[t] : pool[t][i].key = k}
\* take_matching: the last entry of the key.
LastMatch(t, k) == CHOOSE i \in Matches(t, k) : \A j \in Matches(t, k) : j <= i

\* acquire_with_profile up to the lookup; a cancelled one does nothing.
\* A sink may not come back into its session, a thread has one at a time here.
Acquire(t, k, sink) ==
  /\ Idle(t) /\ ~Holds(t) /\ opens < MaxOpens
  /\ opens' = opens + 1
  /\ LET j == [NoJob EXCEPT !.kind = "pooled", !.key = k, !.sink = sink, !.since = Epoch]
     IN IF Matches(t, k) # {}
        THEN /\ job' = [job EXCEPT ![t] = [j EXCEPT !.at = "verify",
                                                    !.env = pool[t][LastMatch(t, k)]]]
             /\ pool' = [pool EXCEPT ![t] = RemoveAt(@, LastMatch(t, k))]
        ELSE job' = [job EXCEPT ![t] = [j EXCEPT !.at = "admit"]] /\ UNCHANGED pool
  /\ UNCHANGED <<callVars, lock, initFlag, loaded, session, stats, lost, headerVars>>

\* sweep_stale: the entries of this stamp, in their order; and what it counts.
Fresh(t, stamp) ==
  LET kept == {i \in DOMAIN pool[t] : pool[t][i].stamp = stamp}
      nth(n) == CHOOSE i \in kept : Cardinality({j \in kept : j <= i}) = n
  IN [n \in 1..Cardinality(kept) |-> pool[t][nth(n)]]
\* Mutant: the lengths are subtracted the other way around.
SweptBackwards(s, t, stamp) == [s EXCEPT !.stale = @ + Len(Fresh(t, stamp)) - Len(pool[t])]
Swept(s, t, stamp) == [s EXCEPT !.stale = @ + Len(pool[t]) - Len(Fresh(t, stamp))]

ReusedBumped(s) == [s EXCEPT !.reused = @ + 1, !.acquired = @ + 1]
StaleBumped(s) == [s EXCEPT !.stale = @ + 1]

\* Mutant: the stamp is trusted.
CurrentTrusted(env) == {TRUE}
\* The live epoch is read; a failing read counts as a different epoch.
Current(env) == {env.stamp = Epoch, FALSE}

\* The environment becomes a session, whose shims may not resolve: then the
\* entry is gone.
Verify(t) ==
  /\ Phase(t, "verify")
  /\ \/ /\ job' = [job EXCEPT ![t] = NoJob] /\ lost' = [lost EXCEPT ![t] = @ + 1]
        /\ UNCHANGED <<session, pool, stats>>
     \/ \E current \in Current(job[t].env) :
          IF current
          THEN /\ session' = [session EXCEPT ![t] = job[t].env]
               /\ pool' = [pool EXCEPT ![t] = Fresh(t, job[t].env.stamp)]
               /\ Bump(t, Swept(ReusedBumped(stats[t]), t, job[t].env.stamp))
               /\ job' = [job EXCEPT ![t].at = "got"] /\ UNCHANGED lost
          ELSE /\ Bump(t, StaleBumped(stats[t]))
               /\ job' = [job EXCEPT ![t].at = "admit", ![t].env = NoEnv]
               /\ UNCHANGED <<session, pool, lost>>
  /\ UNCHANGED <<callVars, lock, initFlag, loaded, opens, headerVars>>

\* Mutant: the limit is looked at after one import too many.
OverLimitByOne(s) == s.imports > FreshImports
OverLimit(s) == s.imports >= FreshImports

\* enforce_before_fresh_import: the imports of this pool, then the RSS, which
\* may be over its limit or unavailable.
Admit(t) ==
  /\ Phase(t, "admit")
  /\ \/ (OverLimit(stats[t]) \/ RssLimited) /\ job' = [job EXCEPT ![t] = NoJob]
     \/ ~OverLimit(stats[t]) /\ To(t, "start")
  /\ UNCHANGED <<callVars, lock, initFlag, loaded, session, pool, stats, opens, lost, headerVars>>

-----------------------------------------------------------------------------
(* Importing                                                               *)

\* session_with_profile and bracketed_import_query outside the pool; a
\* profiling session is a direct one without sink.
Open(t, kind, k, sink) ==
  /\ Idle(t) /\ ~Holds(t) /\ opens < MaxOpens
  /\ opens' = opens + 1
  /\ job' = [job EXCEPT ![t] = [NoJob EXCEPT !.kind = kind, !.key = k, !.sink = sink,
                                             !.at = "start", !.since = Epoch]]
  /\ UNCHANGED <<callVars, lock, initFlag, loaded, session, pool, stats, lost, headerVars>>

\* The only look at the token, which may be cancelled; search paths and the
\* guard against cargo test may fail as well.
Start(t) ==
  /\ Phase(t, "start")
  /\ To(t, "wait") \/ job' = [job EXCEPT ![t] = NoJob]
  /\ UNCHANGED <<callVars, lock, initFlag, loaded, session, pool, stats, opens, lost, headerVars>>

\* Mutant: the bracketed query does not take the lock.
LockFreeForQueries(t) == lock = NoThread \/ job[t].kind = "bracketed"
LockFree(t) == lock = NoThread

\* with_session_import_lock, the shims, which may not resolve, and the bridge
\* of the sink.
TakeLock(t) ==
  /\ Phase(t, "wait") /\ LockFree(t)
  /\ lock' = t
  /\ \/ To(t, "failed") /\ UNCHANGED registryVars
     \/ ~job[t].sink /\ To(t, "begin") /\ UNCHANGED registryVars
     \/ /\ job[t].sink /\ CanRegister /\ Register(t)
        /\ job' = [job EXCEPT ![t].at = "begin", ![t].bridge = Allocated]
  /\ UNCHANGED <<cancelled, frame, calls, initFlag, loaded, session, pool, stats, opens, lost, headerVars>>

\* The sink is called: it returns, or it panics and the import fails.
SinkRuns(t, next) ==
  \/ ~job[t].sink /\ To(t, next)
  \/ job[t].sink /\ Reaches(job[t].bridge, t) /\ (To(t, next) \/ To(t, "failed"))

\* The first tick, and initializers enabled.  A bracketed query ticks later
\* and enables nothing.
Begin(t) ==
  /\ Phase(t, "begin")
  /\ \/ job[t].kind = "bracketed" /\ To(t, "import") /\ UNCHANGED initFlag
     \/ /\ job[t].kind # "bracketed" /\ SinkRuns(t, "import")
        /\ initFlag' = (initFlag \/ job'[t].at = "import")
  /\ headerCleared' = headerCleared \ {t}
  /\ UNCHANGED <<callVars, lock, loaded, session, pool, stats, opens, lost, header>>

\* Lean.importModules: with extensions it needs the flag, and registers the
\* extensions of what it imports even if it fails afterwards; withImporting
\* clears the flag at its end.
Import(t) ==
  /\ Phase(t, "import")
  /\ IF job[t].kind = "bracketed" THEN To(t, "end") /\ UNCHANGED loaded
     ELSE IF ~initFlag THEN To(t, "rejected") /\ UNCHANGED loaded
     ELSE /\ loaded' \in {loaded, loaded \cup ({job[t].key} \cap Registering)}
          /\ \/ To(t, "failed")
             \/ /\ loaded' = loaded \cup ({job[t].key} \cap Registering)
                /\ job' = [job EXCEPT ![t].at = "end",
                             ![t].env = Env(job[t].key, 0, Cardinality(loaded'))]
  /\ initFlag' = FALSE
  /\ UNCHANGED <<callVars, lock, session, pool, stats, opens, lost, headerVars>>

\* Mutant: the stamp is read before the import.
StampBefore(t) == job[t].since
\* The epoch is read after the import and inside the lock.
StampAfter(t) == Epoch

ImportedBumped(s) == [s EXCEPT !.imports = @ + 1, !.acquired = @ + 1]

\* The last tick and the statistics, either of which may fail.
EndImport(t) ==
  /\ Phase(t, "end")
  /\ SinkRuns(t, "stamp") \/ To(t, "failed")
  /\ UNCHANGED <<callVars, lock, initFlag, loaded, session, pool, stats, opens, lost, headerVars>>

DropBridge(t) == IF job[t].bridge # 0 THEN Unregister(job[t].bridge) ELSE UNCHANGED registryVars

\* The stamp is read and the bridge is dropped, then the lock; a pooled session sweeps its pool.
Opened(t) ==
  /\ Phase(t, "stamp")
  /\ lock' = NoThread /\ DropBridge(t)
  /\ IF job[t].kind = "bracketed"
     THEN job' = [job EXCEPT ![t] = NoJob] /\ UNCHANGED <<session, pool, stats>>
     ELSE LET env == [job[t].env EXCEPT !.stamp = StampAfter(t)]
          IN /\ session' = [session EXCEPT ![t] = env]
             /\ job' = [job EXCEPT ![t].at = "got", ![t].bridge = 0, ![t].env = env]
             /\ IF job[t].kind = "pooled"
                THEN /\ pool' = [pool EXCEPT ![t] = Fresh(t, env.stamp)]
                     /\ Bump(t, Swept(ImportedBumped(stats[t]), t, env.stamp))
                ELSE UNCHANGED <<pool, stats>>
  /\ UNCHANGED <<cancelled, frame, calls, initFlag, loaded, opens, lost, headerVars>>

\* Mutant: an import that fails returns with the bridge still registered.
FailedLeaksBridge(t) ==
  /\ Phase(t, "failed") \/ Phase(t, "rejected")
  /\ lock' = NoThread /\ job' = [job EXCEPT ![t] = NoJob]
  /\ UNCHANGED <<callVars, initFlag, loaded, session, pool, stats, opens, lost, headerVars>>

\* An error, out of the lock and its closure.
Failed(t) ==
  /\ Phase(t, "failed") \/ Phase(t, "rejected")
  /\ lock' = NoThread /\ DropBridge(t)
  /\ job' = [job EXCEPT ![t] = NoJob]
  /\ UNCHANGED <<cancelled, frame, calls, initFlag, loaded, session, pool, stats, opens, lost, headerVars>>

-----------------------------------------------------------------------------
(* Using and giving back                                                   *)

Got(t) == Phase(t, "got") /\ ~Running(t)

\* A call on the session; tokens are cancelled in CallsSpec only, so none here.
Call(t, m) ==
  /\ Got(t) /\ StartCall(t, m) /\ ~frame'[t].token
  /\ UNCHANGED sessionVars

\* A query, or a proof that needs a snapshot, elaborates the header of its
\* source; of a source that is a module whose imports are all loaded, it
\* imports them once more: enableInitializersExecution and processHeader, not
\* under the lock.  Nothing new is registered.  A proof attempt does so for each
\* of its candidates.
HeaderMethods == QueryMethods \cup (ProofMethods \ {"clear_module_snapshot_cache"})

HeaderBegins(t) ==
  /\ At(t, "call") /\ frame[t].method \in HeaderMethods
  /\ header[t] = "none" \/ (frame[t].method = "attempt_proof" /\ header[t] # "enabled")
  /\ initFlag' = TRUE
  /\ header' = [header EXCEPT ![t] = "enabled"]
  /\ UNCHANGED <<callVars, lock, loaded, job, session, pool, stats, opens, lost, headerCleared>>

\* Without the flag the call answers with a failure of the header.
HeaderImports(t) ==
  /\ header[t] = "enabled"
  /\ header' = [header EXCEPT ![t] = IF initFlag THEN "imported" ELSE "rejected"]
  /\ initFlag' = FALSE
  /\ headerCleared' = IF initFlag THEN headerCleared \cup {lock} ELSE headerCleared
  /\ UNCHANGED <<callVars, lock, loaded, job, session, pool, stats, opens, lost>>

\* The body, and the answer.
CallSteps(t) ==
  /\ header[t] # "enabled" /\ Steps(t)
  /\ header' = [header EXCEPT ![t] = "none"]
  /\ UNCHANGED <<lock, initFlag, loaded, job, session, pool, stats, opens, lost, headerCleared>>

\* Mutant: the capacity is looked at after the entry is back.
HasRoomAfter(t) == Len(pool[t]) <= Capacity
HasRoom(t) == Len(pool[t]) < Capacity

\* Drop of a PooledSession, with its recorded stamp; a session opened outside
\* the pool is gone.
Release(t) ==
  /\ Got(t)
  /\ IF job[t].kind # "pooled" THEN UNCHANGED <<pool, stats>>
     ELSE IF HasRoom(t)
          THEN /\ pool' = [pool EXCEPT ![t] = Append(@, session[t])]
               /\ Bump(t, [stats[t] EXCEPT !.kept = @ + 1])
          ELSE Bump(t, [stats[t] EXCEPT !.dropped = @ + 1]) /\ UNCHANGED pool
  /\ session' = [session EXCEPT ![t] = NoEnv] /\ job' = [job EXCEPT ![t] = NoJob]
  /\ frame' = [frame EXCEPT ![t] = NoFrame]
  /\ UNCHANGED <<registryVars, cancelled, calls, lock, initFlag, loaded, opens, lost, headerVars>>

Drain(t) ==
  /\ Idle(t) \/ Got(t)
  /\ pool[t] # <<>>
  /\ pool' = [pool EXCEPT ![t] = <<>>]
  /\ Bump(t, [stats[t] EXCEPT !.drained = @ + Len(pool[t])])
  /\ UNCHANGED <<callVars, lock, initFlag, loaded, job, session, opens, lost, headerVars>>

-----------------------------------------------------------------------------

Next ==
  \/ \E t \in Threads :
       \/ \E k \in Keys, sink \in BOOLEAN :
            \/ Acquire(t, k, sink)
            \/ \E kind \in {"direct", "bracketed"} : Open(t, kind, k, sink)
       \/ Verify(t) \/ Admit(t) \/ Start(t) \/ TakeLock(t) \/ Begin(t) \/ Import(t)
       \/ EndImport(t) \/ Opened(t) \/ Failed(t)
       \/ \E m \in Methods : Call(t, m)
       \/ HeaderBegins(t) \/ HeaderImports(t) \/ CallSteps(t) \/ Release(t) \/ Drain(t)

Spec == Init /\ [][Next]_vars

-----------------------------------------------------------------------------
(* Properties                                                              *)

EnvOK(env) == env.key \in Keys \cup {"none"} /\ env.stamp \in Nat /\ env.width \in Nat

TypeOK ==
  /\ CallsTypeOK
  /\ lock \in Threads \cup {NoThread} /\ initFlag \in BOOLEAN /\ loaded \subseteq Registering
  /\ opens \in 0..MaxOpens /\ lost \in [Threads -> Nat]
  /\ header \in [Threads -> {"none", "enabled", "imported", "rejected"}]
  /\ headerCleared \subseteq Threads \cup {NoThread}
  /\ \A t \in Threads :
       /\ job[t].at \in {"idle", "verify", "admit", "start", "wait", "begin", "import",
                         "end", "stamp", "failed", "rejected", "got"}
       /\ job[t].kind \in {"none", "pooled", "direct", "bracketed"}
       /\ EnvOK(job[t].env) /\ EnvOK(session[t])
       /\ \A i \in DOMAIN pool[t] : EnvOK(pool[t][i])
       /\ \A f \in DOMAIN stats[t] : stats[t][f] \in Nat

\* Initializers are enabled for the import that asked for them: of the imports
\* that take the lock (session.rs:568, 643-650, bracketed.rs:98) none disturbs another, whatever its kind; only the import
\* of a header, which takes no lock, does.
LockedImportsSeeTheFlag ==
  \A t \in Threads : job[t].at = "rejected" => t \in headerCleared

\* The stamp of an environment is the number of extensions it was built with,
\* whatever other threads imported meanwhile: else a pool would keep an
\* environment that is too narrow, or throw away one that is not
\* (session.rs:694, pool.rs:488).
StampIsExact ==
  \A t \in Threads : \A env \in {session[t]} \cup {pool[t][i] : i \in DOMAIN pool[t]} :
    env.stamp = env.width

\* A session has room for every extension that was registered when it was
\* asked for, whether it was imported or taken from a pool (pool.rs:480).
SessionsAreWide == \A t \in Threads : Holds(t) => session[t].width >= job[t].since

\* A session is what was asked for: imported with the flag set, with a stamp
\* that can be trusted, and with room for what was registered.
SessionsAreCurrent == LockedImportsSeeTheFlag /\ StampIsExact /\ SessionsAreWide

\* The callback registry holds the bridges of the calls and imports that are
\* inside Lean, each under one id, and nothing else: no way out of an import
\* or a call leaves a handle behind (progress.rs:48, callback.rs:364).
NoLeakedBridges ==
  LET ids(t) == {frame[t].bridge, job[t].bridge} \ {0}
  IN /\ DOMAIN registry = UNION {ids(t) : t \in Threads}
     /\ \A t \in Threads : \A id \in ids(t) : registry[id] = t

\* Every acquired session and every entry is accounted for once: what was
\* acquired was reused or imported, and was given back, dropped or is still
\* out; what was given back is in the pool or left it by one counted way
\* (but for entries whose shims do not resolve).  The pool keeps to its
\* capacity and to its imports (pool.rs: PoolStats, release, sweep_stale).
PoolConserves ==
  \A t \in Threads :
    LET s == stats[t]
        out == IF Holds(t) /\ job[t].kind = "pooled" THEN 1 ELSE 0
        moving == IF job[t].at = "verify" THEN 1 ELSE 0
    IN /\ s.acquired = s.reused + s.imports
       /\ s.acquired = s.kept + s.dropped + out
       /\ s.kept = Len(pool[t]) + s.reused + s.stale + s.drained + lost[t] + moving
       /\ Len(pool[t]) <= Capacity /\ s.imports <= FreshImports

\* Neither a bridge nor a session gets lost or is held for good.
NothingIsLost == NoLeakedBridges /\ PoolConserves
=============================================================================
