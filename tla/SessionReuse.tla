---------------------------- MODULE SessionReuse ----------------------------
(***************************************************************************)
(* Session opens, seen from both ends of the pipe.  The parent             *)
(* (open_worker_session, GenerationBudget and prepare_request of           *)
(* lean-rs-worker-parent/src/supervisor.rs) predicts with an LRU hint      *)
(* whether the child will import, and skips its import bound when it       *)
(* expects a reuse.  The child (open_or_reuse_host_session of              *)
(* lean-rs-worker-child/src/child.rs) keeps a bounded LRU pool of imported *)
(* environments, drops the ones an extension registration made stale, and  *)
(* shares one module snapshot cache between them.                          *)
(*                                                                         *)
(* How a restart proceeds is WorkerSupervisor's subject: here it yields a  *)
(* fresh child or leaves none, and a child may die at any time.            *)
(***************************************************************************)
EXTENDS Naturals, Sequences, FiniteSets

CONSTANTS
  Configs,         \* session configurations (project, mode, imports, profile)
  Residue,         \* non_memory_mapped_region_bytes of importing each key
  Limits,          \* which bounds the policy sets: "imports", "residue", "requests"
  MaxImports, MaxResidue, MaxRequests,
  Setups,          \* the pairings of a parent and a worker binary, see SetupType
  MaxEpoch,        \* bound: extension registrations per child
  MaxTurns         \* bound: opens and requests over the whole run

\* hintCap: reuse_hint_capacity of the parent; poolCap: session_pool_capacity
\* of the child; pooled: FALSE for a binary that imports on every open;
\* registers: importing these keys may register an extension; epochFails:
\* live_extension_registry_epoch may fail.
SetupType == [hintCap : Nat \ {0}, poolCap : Nat \ {0}, pooled : BOOLEAN,
              registers : SUBSET Configs, epochFails : BOOLEAN]

NoConfig == "no_config"

ASSUME ReuseAssumption ==
  /\ NoConfig \notin Configs
  /\ Residue \in [Configs -> Nat]
  /\ Limits \subseteq {"imports", "residue", "requests"}
  /\ MaxImports \in Nat \ {0} /\ MaxResidue \in Nat \ {0} /\ MaxRequests \in Nat \ {0}
  /\ Setups # {} /\ Setups \subseteq SetupType
  /\ MaxEpoch \in Nat /\ MaxTurns \in Nat

VARIABLES
  \* the parent
  budget,      \* GenerationBudget
  keys,        \* open_session_keys, MRU at the back
  hint,        \* reuse_hint_enabled
  observed,    \* reuse_observed
  pending,     \* pending_restart is Some
  alive,       \* ensure_running finds a child
  restarts,    \* stats.restarts
  \* the open in progress: its step, its key, stats.restarts at its start and
  \* whether a reuse is still expected
  openStep, wanted, before, expect,
  \* the child
  setup,       \* which of Setups it is
  current,     \* host_session
  parked,      \* parked, MRU at the back
  epoch,       \* the process-global extension registry
  cache,       \* module snapshots, by key and by the environment that built them
  envs,        \* environments imported so far by this child
  \* history
  past,        \* imports made while a bound was already reached
  turns

parentVars == <<budget, keys, hint, observed, pending, alive, restarts>>
openVars   == <<openStep, wanted, before, expect>>
childVars  == <<setup, current, parked, epoch, cache, envs>>
reuseVars == <<parentVars, openVars, childVars, past, turns>>

NoSession  == [key |-> NoConfig, env |-> 0, stamp |-> 0]
ZeroBudget == [requests |-> 0, imports |-> 0, residue |-> 0]

Elems(s) == {s[i] : i \in 1..Len(s)}
Without(s, i) == SubSeq(s, 1, i - 1) \o SubSeq(s, i + 1, Len(s))
LastN(s, n) == IF Len(s) <= n THEN s ELSE SubSeq(s, Len(s) - n + 1, Len(s))

-----------------------------------------------------------------------------
(* The parent's budget                                                     *)

\* import_limit_reached is Some.
import_limit_reached(b) ==
  \/ "residue" \in Limits /\ b.residue >= MaxResidue
  \/ "imports" \in Limits /\ b.imports >= MaxImports

\* Mutant: the bound is checked with > instead of >=.
request_limit_passed(b) == "requests" \in Limits /\ b.requests > MaxRequests

\* request_limit_reached is Some.
request_limit_reached(b) == "requests" \in Limits /\ b.requests >= MaxRequests

\* Mutant: the residue of an import is credited instead of charged.
record_import_credits(b, k) == [b EXCEPT !.imports = @ + 1, !.residue = @ - Residue[k]]

\* GenerationBudget::record_request and record_import.
record_request(b) == [b EXCEPT !.requests = @ + 1]
record_import(b, k) == [b EXCEPT !.imports = @ + 1, !.residue = @ + Residue[k]]

\* Mutant: a key already listed keeps its place.
note_open_session_key_in_place(ks, k) ==
  IF k \in Elems(ks) THEN ks ELSE LastN(Append(ks, k), setup.hintCap)

\* note_open_session_key.
note_open_session_key(ks, k) ==
  IF k \in Elems(ks)
  THEN Append(Without(ks, CHOOSE i \in 1..Len(ks) : ks[i] = k), k)
  ELSE LastN(Append(ks, k), setup.hintCap)

-----------------------------------------------------------------------------
FreshParent ==
  /\ budget' = ZeroBudget /\ keys' = <<>>
  /\ hint' = TRUE /\ observed' = FALSE /\ pending' = FALSE
FreshChild ==
  /\ current' = NoSession /\ parked' = <<>>
  /\ epoch' = 0 /\ cache' = {} /\ envs' = 0
  /\ past' = 0
  /\ UNCHANGED setup

\* restart_with_reason: a new child, and per-generation state starts over
\* because the supervisor is rebuilt.
Restart ==
  /\ FreshParent /\ FreshChild
  /\ alive' = TRUE
  /\ restarts' = restarts + 1

\* The old child does not stop, the intensity refuses or the spawn fails: no
\* usable child is left, and the parent keeps its fields.  A restart that is
\* refused is not counted and keeps the budget.
RestartFails ==
  /\ alive' = FALSE /\ FreshChild
  /\ \/ UNCHANGED <<budget, restarts>>
     \/ budget' = ZeroBudget /\ restarts' = restarts + 1
  /\ pending' = FALSE
  /\ UNCHANGED <<keys, hint, observed>>

\* The open returns to its caller.
Returns == openStep' = "ready" /\ wanted' = NoConfig /\ before' = 0 /\ expect' = FALSE

ReuseInit ==
  /\ budget = ZeroBudget /\ keys = <<>>
  /\ hint = TRUE /\ observed = FALSE /\ pending = FALSE /\ alive = TRUE /\ restarts = 0
  /\ openStep = "ready" /\ wanted = NoConfig /\ before = 0 /\ expect = FALSE
  /\ setup \in Setups
  /\ current = NoSession /\ parked = <<>> /\ epoch = 0 /\ cache = {} /\ envs = 0
  /\ past = 0 /\ turns = 0

-----------------------------------------------------------------------------
(* open_worker_session                                                     *)

\* A restart that the previous open deferred comes first; it is taken out of
\* pending_restart before it is tried, so a failure loses it.
OpenCall(k) ==
  /\ openStep = "ready" /\ turns < MaxTurns
  /\ turns' = turns + 1
  /\ \/ /\ openStep' = "prepare" /\ wanted' = k /\ before' = restarts /\ expect' = FALSE
        /\ IF pending THEN Restart ELSE UNCHANGED <<parentVars, childVars, past>>
     \/ pending /\ RestartFails /\ UNCHANGED openVars

\* prepare_request(!expect_reuse): at most one policy restart, in this order
\* of causes; RSS and idle time are the environment's choice.
ExpectReuse == hint /\ wanted \in Elems(keys)

PrepareOpen ==
  /\ openStep = "prepare" /\ alive
  /\ openStep' = "send"
  /\ \/ /\ \/ request_limit_reached(budget)
           \/ ~ExpectReuse /\ import_limit_reached(budget)
        /\ Restart
        /\ expect' = FALSE
     \/ /\ ~request_limit_reached(budget)
        /\ ExpectReuse \/ ~import_limit_reached(budget)
        /\ expect' = (ExpectReuse /\ restarts = before)
        /\ UNCHANGED <<parentVars, childVars, past>>
  /\ UNCHANGED <<wanted, before, turns>>

\* The RSS ceiling or the idle bound restarts the child instead.
PrepareOpenRssOrIdle ==
  /\ openStep = "prepare" /\ alive
  /\ ~request_limit_reached(budget)
  /\ ExpectReuse \/ ~import_limit_reached(budget)
  /\ Restart
  /\ openStep' = "send" /\ expect' = FALSE
  /\ UNCHANGED <<wanted, before, turns>>

\* ensure_running finds no child, or the policy's restart fails.
PrepareFails ==
  /\ openStep = "prepare"
  /\ \/ ~alive /\ UNCHANGED <<parentVars, childVars, past>>
     \/ alive /\ RestartFails
  /\ Returns
  /\ UNCHANGED turns

\* The parent reads HostSessionReused.
ParentReused ==
  /\ budget' = record_request(budget)
  /\ observed' = TRUE
  /\ keys' = note_open_session_key(keys, wanted)
  /\ UNCHANGED <<hint, pending, alive, restarts>>

\* Mutant: any mispredicted open disables the hint.
ParentOpenedAnyMiss ==
  LET charged == record_import(record_request(budget), wanted) IN
  /\ budget' = charged
  /\ hint' = (hint /\ ~(expect /\ ~observed))
  /\ pending' = IF expect THEN import_limit_reached(charged) ELSE pending
  /\ keys' = note_open_session_key(keys, wanted)
  /\ UNCHANGED <<observed, alive, restarts>>

\* The parent reads HostSessionOpened.
ParentOpened ==
  LET charged == record_import(record_request(budget), wanted) IN
  /\ budget' = charged
  /\ hint' = (hint /\ ~( /\ expect /\ ~observed
                         /\ keys # <<>> /\ keys[Len(keys)] = wanted))
  /\ pending' = IF expect THEN import_limit_reached(charged) ELSE pending
  /\ keys' = note_open_session_key(keys, wanted)
  /\ UNCHANGED <<observed, alive, restarts>>

\* Mutant: the list of keys survives an open whose outcome is unknown.
ParentFailedKeepsKeys ==
  /\ budget' = record_request(budget)
  /\ UNCHANGED <<keys, hint, observed, pending, alive, restarts>>

\* The parent reads an error response.
ParentFailed ==
  /\ budget' = record_request(budget)
  /\ keys' = <<>>
  /\ UNCHANGED <<hint, observed, pending, alive, restarts>>

-----------------------------------------------------------------------------
(* open_or_reuse_host_session, at openStep = "send"                        *)

\* evict_stale_host_sessions over a pool [cur, rest, snaps], given the
\* registry epoch as it was read: NoStamp when the read failed.
NoStamp == MaxEpoch + 1
Stale(s, live) == s # NoSession /\ s.stamp # live
\* retain: the sessions that are not stale, in their order.
Retained(rest, live) ==
  LET fresh == {i \in 1..Len(rest) : ~Stale(rest[i], live)}
      nth(n) == CHOOSE i \in fresh : Cardinality({j \in fresh : j <= i}) = n
  IN  [n \in 1..Cardinality(fresh) |-> rest[nth(n)]]
\* Mutant: only the current session is looked at.
evict_stale_current(p, live) ==
  IF Stale(p.cur, live)
  THEN [cur |-> NoSession, rest |-> p.rest, snaps |-> {}]
  ELSE p
evict_stale(p, live) ==
  IF Stale(p.cur, live) \/ \E i \in 1..Len(p.rest) : Stale(p.rest[i], live)
  THEN [cur   |-> IF Stale(p.cur, live) THEN NoSession ELSE p.cur,
        rest  |-> Retained(p.rest, live),
        snaps |-> {}]
  ELSE p

ReadEpoch(live) == live = epoch \/ (setup.epochFails /\ live = NoStamp)

Pool == [cur |-> current, rest |-> parked, snaps |-> cache]
SetPool(p) == current' = p.cur /\ parked' = p.rest /\ cache' = p.snaps

\* The outgoing session is parked.
Parked(p) == IF p.cur = NoSession THEN p.rest ELSE Append(p.rest, p.cur)

\* Both reuse paths: the current session, or a parked one that changes places
\* with it.
ChildReuses ==
  /\ openStep = "send" /\ alive /\ setup.pooled
  /\ \E live \in {epoch, NoStamp} :
       /\ ReadEpoch(live)
       /\ LET p == evict_stale(Pool, live) IN
          \/ /\ p.cur.key = wanted
             /\ SetPool(p)
          \/ /\ p.cur.key # wanted
             /\ \E i \in 1..Len(p.rest) :
                  /\ p.rest[i].key = wanted
                  /\ SetPool([p EXCEPT !.cur = p.rest[i],
                                       !.rest = Parked([p EXCEPT !.rest = Without(p.rest, i)])])
  /\ ParentReused
  /\ Returns
  /\ UNCHANGED <<setup, epoch, envs, past, turns>>

\* Mutant: room is made for the parked sessions only.
MissPoolOffByOne(p) ==
  LET out == Parked(p) IN
  [cur   |-> NoSession,
   rest  |-> LastN(out, setup.poolCap),
   snaps |-> IF Len(out) >= setup.poolCap THEN {} ELSE p.snaps]

\* Mutant: an evicted session leaves its module snapshots behind.
MissPoolKeepsCache(p) ==
  [cur   |-> NoSession,
   rest  |-> LastN(Parked(p), setup.poolCap - 1),
   snaps |-> p.snaps]

\* The miss path up to the import: park the outgoing session, then evict from
\* the front until the new one fits, clearing the cache before any drop.
MissPool(p) ==
  LET out == Parked(p) IN
  [cur   |-> NoSession,
   rest  |-> LastN(out, setup.poolCap - 1),
   snaps |-> IF Len(out) >= setup.poolCap THEN {} ELSE p.snaps]

Misses(p) == ~setup.pooled \/ (p.cur.key # wanted /\ wanted \notin {p.rest[i].key : i \in 1..Len(p.rest)})

\* A binary without the pool drops its session and imports.
MissedPool(p) ==
  IF setup.pooled THEN MissPool(p) ELSE [cur |-> NoSession, rest |-> <<>>, snaps |-> {}]

\* The import succeeds; it may register an extension, after which stale
\* sessions are swept once more.  The answer reaches the parent, or is over
\* the frame limit and replaced by an error.
ChildImports ==
  /\ openStep = "send" /\ alive
  /\ \E live \in {epoch, NoStamp} :
       /\ ReadEpoch(live)
       /\ LET p == evict_stale(Pool, live) IN
          /\ Misses(p)
          /\ \E registers \in BOOLEAN, swept \in BOOLEAN :
               /\ registers => wanted \in setup.registers /\ epoch < MaxEpoch
               /\ swept \/ setup.epochFails
               /\ LET now == IF registers THEN epoch + 1 ELSE epoch
                      new == [key |-> wanted, env |-> envs + 1, stamp |-> now]
                  IN /\ epoch' = now
                     /\ SetPool(evict_stale([MissedPool(p) EXCEPT !.cur = new],
                                            IF swept THEN now ELSE NoStamp))
  /\ envs' = envs + 1
  /\ past' = IF import_limit_reached(budget) THEN past + 1 ELSE past
  /\ ParentOpened \/ ParentFailed
  /\ Returns
  /\ UNCHANGED <<setup, turns>>

\* Building the anchor or the import fails: no current session, the parked
\* ones survive.
ChildFails ==
  /\ openStep = "send" /\ alive
  /\ \E live \in {epoch, NoStamp} :
       /\ ReadEpoch(live)
       /\ LET p == evict_stale(Pool, live) IN
          /\ Misses(p)
          /\ SetPool(MissedPool(p))
  /\ ParentFailed
  /\ Returns
  /\ UNCHANGED <<setup, epoch, envs, past, turns>>

\* The child dies, idle or during an open, before or after the request was
\* written.
ChildExits ==
  /\ alive /\ openStep # "prepare"
  /\ alive' = FALSE /\ FreshChild
  /\ \/ openStep = "ready" /\ UNCHANGED <<budget, keys, openVars>>
     \/ openStep = "send" /\ Returns /\ UNCHANGED <<budget, keys>>
     \/ openStep = "send" /\ Returns /\ budget' = record_request(budget) /\ keys' = <<>>
  /\ UNCHANGED <<hint, observed, pending, restarts, turns>>

-----------------------------------------------------------------------------
(* The other requests                                                      *)

\* round_trip of a request that does not import, below the request limit.
\* Served by a current session it may leave a module snapshot.
OtherRequest ==
  /\ openStep = "ready" /\ alive /\ turns < MaxTurns
  /\ ~request_limit_reached(budget)
  /\ budget' = record_request(budget)
  /\ \/ UNCHANGED cache
     \/ /\ current # NoSession
        /\ current.key \notin {c.key : c \in cache}
        /\ cache' = cache \cup {[key |-> current.key, env |-> current.env]}
  /\ turns' = turns + 1
  /\ UNCHANGED <<keys, hint, observed, pending, alive, restarts, openVars,
                 setup, current, parked, epoch, envs, past>>

\* clear_module_snapshot_cache, by request or by the RSS guard.
ClearCache ==
  /\ openStep = "ready" /\ cache # {}
  /\ cache' = {}
  /\ UNCHANGED <<parentVars, openVars, setup, current, parked, epoch, envs,
                 past, turns>>

\* A cycle, a policy restart of another request, or a recovered abort.
Cycle ==
  /\ openStep = "ready" /\ turns < MaxTurns
  /\ Restart \/ RestartFails
  /\ turns' = turns + 1
  /\ UNCHANGED openVars

ReuseNext ==
  \/ \E k \in Configs : OpenCall(k)
  \/ PrepareOpen \/ PrepareOpenRssOrIdle \/ PrepareFails
  \/ ChildReuses \/ ChildImports \/ ChildFails \/ ChildExits
  \/ OtherRequest \/ ClearCache \/ Cycle

ReuseSpec == ReuseInit /\ [][ReuseNext]_reuseVars

-----------------------------------------------------------------------------
(* Properties                                                              *)

SessionType == [key : Configs \cup {NoConfig}, env : Nat, stamp : Nat]

\* Every variable keeps its type.
ReuseTypeOK ==
  /\ budget \in [requests : Nat, imports : Nat, residue : Nat]
  /\ keys \in Seq(Configs)
  /\ {hint, observed, pending, alive} \subseteq BOOLEAN
  /\ restarts \in Nat
  /\ openStep \in {"ready", "prepare", "send"} /\ wanted \in Configs \cup {NoConfig}
  /\ before \in Nat /\ expect \in BOOLEAN /\ setup \in Setups
  /\ current \in SessionType /\ parked \in Seq(SessionType)
  /\ epoch \in Nat /\ cache \subseteq [key : Configs \cup {NoConfig}, env : Nat]
  /\ envs \in Nat /\ past \in Nat /\ turns \in Nat

\* A generation makes at most one import after an import bound was reached,
\* and only when a reuse was predicted: the deferred restart makes the
\* misprediction cost one import, whatever the child's capacity or binary;
\* where the answer was lost, the forgotten keys let the next open restart.
OverrunAtMostOne ==
  /\ past <= 1
  /\ past = 1 => pending \/ keys = <<>>

\* One generation never serves more than max_requests requests.
RequestsWithinLimit == "requests" \in Limits => budget.requests <= MaxRequests

\* The bounds of a generation hold, the requests' exactly and the imports' but
\* for one import that was taken for a reuse.
BudgetsHold == OverrunAtMostOne /\ RequestsWithinLimit

\* The child's sessions in recency order.
PoolOrder == Parked(Pool)
IsSuffix(s, t) ==
  /\ Len(s) <= Len(t)
  /\ \A i \in 1..Len(s) : s[i] = t[Len(t) - Len(s) + i].key

\* When both ends use one capacity and no environment goes stale, the hint
\* lists the most recent sessions of the child, in the child's own order: a
\* predicted reuse never turns into an import.
HintIsSuffix ==
  alive /\ setup.hintCap = setup.poolCap /\ setup.registers = {} /\ setup.pooled
    /\ ~setup.epochFails
    => IsSuffix(keys, PoolOrder)

\* A child that pools sessions is never taken for a binary that does not.
PooledChildKeepsHint == setup.pooled /\ ~setup.epochFails => hint

\* The child never holds more environments than its capacity, and never two
\* of one key.
PoolWithinCapacity ==
  /\ Len(PoolOrder) <= setup.poolCap
  /\ \A i, j \in 1..Len(PoolOrder) : PoolOrder[i].key = PoolOrder[j].key => i = j

\* Between two opens no held environment predates an extension registration:
\* serving a request from one would kill the child.
NoStaleSession ==
  openStep = "ready" => \A i \in 1..Len(PoolOrder) : PoolOrder[i].stamp = epoch

\* A module snapshot belongs to an environment the child still holds, so the
\* snapshot found by key was built by the very environment being asked.
CacheBelongsToPool ==
  \A c \in cache : \E i \in 1..Len(PoolOrder) :
    PoolOrder[i].key = c.key /\ PoolOrder[i].env = c.env

\* Parent and child agree on what the child holds, and the child holds no
\* more than its pool.
PoolsAgree ==
  /\ HintIsSuffix /\ PooledChildKeepsHint
  /\ PoolWithinCapacity /\ CacheBelongsToPool
=============================================================================
