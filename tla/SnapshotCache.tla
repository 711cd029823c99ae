--------------------------- MODULE SnapshotCache ---------------------------
(***************************************************************************)
(* The snapshot cache of the host shims (InfoTree.lean): one reference of  *)
(* the process, read at the start of a module query and written at its     *)
(* end, without a lock, by whichever threads hold sessions.  The child of  *)
(* a worker is the case of one thread; its key and its RSS guard are here. *)
(***************************************************************************)
EXTENDS Integers, FiniteSets, FiniteSetsExt

CONSTANTS
  Threads,
  Envs,         \* environments of open sessions
  Class,        \* per environment, the first of its project, mode, imports and profile
  Files, Sources, Options,
  Requests,     \* what is asked: environment, file label, source, options
  Modules,      \* sources whose header is a module's
  Incomplete,   \* pairs of a class and a source with missing imports
  Size,         \* per source: approxSnapshotBytes
  MaxEntries, MaxBytes, Ttl,
  None, Reimported,  \* no value; the environment of a header, of no session
  MaxAsks, MaxClears, MaxTime   \* bounds

ASSUME CacheAssumption ==
  /\ Class \in [Envs -> Envs] /\ Reimported \notin Envs /\ None \notin Requests
  /\ Requests \subseteq [env : Envs, file : Files, src : Sources, opts : Options]
  /\ Modules \subseteq Sources
  /\ Size \in [Sources -> Nat] /\ MaxEntries \in Nat /\ MaxBytes \in Nat /\ Ttl \in Nat
  /\ {MaxAsks, MaxClears, MaxTime} \subseteq Nat

VARIABLES
  cache,      \* moduleSnapshotCache
  clock,      \* IO.monoMsNow
  job,        \* per thread: the query or clear it is making
  answer,     \* per thread: the last answer
  asks,
  clears,     \* history: how often the cache was cleared
  straddled   \* history: a query that began before the last clear wrote after it

vars == <<cache, clock, job, answer, asks, clears, straddled>>

-----------------------------------------------------------------------------
(* Snapshots                                                               *)

\* Mutant: the mode is left out of the key.
KeyWithoutClass(r) == <<r.file, r.src, r.opts>>
\* module_query_cache_key; the digest tells its inputs apart.
KeyOf(r) == <<Class[r.env], r.file, r.src, r.opts>>

IsMissing(r) == <<Class[r.env], r.src>> \in Incomplete
Reimports(r) == r.src \in Modules /\ ~IsMissing(r)

\* What the commands of r see: the session's imports or those of its header.
World(r) == <<IF Reimports(r) THEN Reimported ELSE Class[r.env], r.opts>>
BaseEnv(r) == IF Reimports(r) THEN Reimported ELSE r.env

\* Mutant: the options of the older build are not compared.
ReusableInAnyOptions(old, r) ==
  old # None /\ old.chain /\ ~Reimports(r) /\ old.base = BaseEnv(r)
\* reusableIncrementalState?: the same environment object, which a header's
\* import never is, and the same options.
Reusable(old, r) ==
  /\ old # None /\ old.chain /\ ~Reimports(r)
  /\ old.base = BaseEnv(r) /\ old.opts = r.opts

\* Mutant: the snapshot carries the time it expires at.
SnapshotWithExpiry(r, old) ==
  [file |-> r.file, key |-> KeyOf(r), src |-> r.src, base |-> BaseEnv(r), opts |-> r.opts,
   missing |-> IsMissing(r), chain |-> ~IsMissing(r), worlds |-> {World(r)},
   bytes |-> Size[r.src], used |-> clock + Ttl, born |-> clears, pos |-> 0]
\* buildModuleSnapshot when it succeeds: no command is elaborated when imports
\* are missing; commands of a reusable chain keep the worlds they were made in.
Snapshot(r, old) ==
  [file |-> r.file, key |-> KeyOf(r), src |-> r.src, base |-> BaseEnv(r), opts |-> r.opts,
   missing |-> IsMissing(r), chain |-> ~IsMissing(r),
   worlds |-> IF IsMissing(r) THEN {}
              ELSE {World(r)} \cup (IF Reusable(old, r) THEN old.worlds ELSE {}),
   bytes |-> Size[r.src], used |-> clock, born |-> clears, pos |-> 0]

-----------------------------------------------------------------------------
(* The entries: the array is a set whose members carry their position      *)

AtLeastOne(n) == IF n = 0 THEN 1 ELSE n
SumOfBytes(S) == MapThenSumSet(LAMBDA e : e.bytes, S)
Holding(S) == [entries |-> S, bytes |-> SumOfBytes(S)]
Empty == Holding({})

Find(S, key) == {e \in S : e.key = key}
OfFile(S, file) == {e \in S : e.file = file}

\* Mutant: what was used last comes first.
BeforeNewestFirst(e, f) == e.used > f.used \/ (e.used = f.used /\ e.pos < f.pos)
\* The order of leaving: the time of the last use, then the position.
Before(e, f) == e.used < f.used \/ (e.used = f.used /\ e.pos < f.pos)

\* newestSameFileSnapshot?: of entries used at the same time, the first.
NewestOf(S) ==
  IF S = {} THEN {None}
  ELSE {e \in S : \A f \in S \ {e} : f.used < e.used \/ (f.used = e.used /\ e.pos < f.pos)}

\* Mutant: an entry of the same key stays.
UpsertBeside(S, e) ==
  S \cup {[e EXCEPT !.pos = 1 + Max({0} \cup {f.pos : f \in S})]}
Upsert(S, e) ==
  LET others == S \ Find(S, e.key)
  IN others \cup {[e EXCEPT !.pos = 1 + Max({0} \cup {f.pos : f \in others})]}

\* Differences of natural numbers stop at zero; a time to live of zero keeps nothing.
Since(now, then) == IF now < then THEN 0 ELSE now - then
Unexpired(S, now) == IF Ttl = 0 THEN {} ELSE {e \in S : Since(now, e.used) < Ttl}

Fits(S) == Cardinality(S) <= AtLeastOne(MaxEntries) /\ SumOfBytes(S) <= AtLeastOne(MaxBytes)
\* S without its n oldest entries.
Without(S, n) == {e \in S : Cardinality({f \in S : Before(f, e)}) >= n}
\* Mutant: only the number of entries is limited.
CountedOnly(S) ==
  Without(S, Min({n \in 0 .. Cardinality(S) :
                    Cardinality(Without(S, n)) <= AtLeastOne(MaxEntries)}))
\* enforceCacheLimits: the oldest goes until the rest fits.
WithinLimits(S) == Without(S, Min({n \in 0 .. Cardinality(S) : Fits(Without(S, n))}))

\* pruneCache.
Pruned(S, now) == WithinLimits(Unexpired(S, now))

-----------------------------------------------------------------------------
NoJob == [at |-> "idle", kind |-> None, req |-> None, now |-> 0, mine |-> Empty,
          old |-> None, built |-> None, status |-> None, since |-> 0]
NoAnswer == [req |-> None, built |-> None, status |-> None]

Init ==
  /\ cache = Empty /\ clock = 0
  /\ job = [t \in Threads |-> NoJob] /\ answer = [t \in Threads |-> NoAnswer]
  /\ asks = 0 /\ clears = 0 /\ straddled = FALSE

At(t, at) == job[t].at = at

Answer(t, built) ==
  /\ answer' = [answer EXCEPT ![t] = [req |-> job[t].req, built |-> built,
                                      status |-> job[t].status]]
  /\ job' = [job EXCEPT ![t] = NoJob]

\* The child's guard may clear before a cached query; the clock is read first
\* of all in the shim.  A one-shot query reads the cache, an uncached one does not.
Ask(t, kind, r) ==
  /\ At(t, "idle") /\ asks < MaxAsks
  /\ asks' = asks + 1 /\ answer' = [answer EXCEPT ![t] = NoAnswer]
  /\ \/ job' = [job EXCEPT ![t] = [NoJob EXCEPT
                  !.at = IF kind = "uncached" THEN "build" ELSE "look",
                  !.kind = kind, !.req = r, !.now = clock, !.since = clears]]
     \/ /\ kind = "cached" /\ clears < MaxClears
        /\ job' = [job EXCEPT ![t] = [NoJob EXCEPT !.at = "clear", !.kind = kind, !.req = r]]
  /\ UNCHANGED <<cache, clock, clears, straddled>>

\* The caller's clear, or that of the child before it drops a session.
AskClear(t) ==
  /\ At(t, "idle") /\ clears < MaxClears
  /\ job' = [job EXCEPT ![t] = [NoJob EXCEPT !.at = "clear", !.kind = "clear"]]
  /\ UNCHANGED <<cache, clock, answer, asks, clears, straddled>>

\* Mutant: the entries stay, their bytes are forgotten.
ClearedBytes(c) == [c EXCEPT !.bytes = 0]
\* clearModuleSnapshotCache; what it read before it only counts.
Cleared(c) == Empty

Clear(t) ==
  /\ At(t, "clear") /\ clears < MaxClears
  /\ cache' = Cleared(cache) /\ clears' = clears + 1 /\ straddled' = FALSE
  /\ job' = [job EXCEPT ![t] = IF @.kind = "clear" THEN NoJob
                               ELSE [@ EXCEPT !.at = "look", !.now = clock, !.since = clears + 1]]
  /\ UNCHANGED <<clock, answer, asks>>

StatusOfMiss(read, kept, r) ==
  IF OfFile(kept, r.file) # {} THEN "rebuilt" ELSE IF kept # read THEN "evicted" ELSE "miss"

\* processModuleQueryBatchCached up to the build, with the time it read before.
Look(t) ==
  /\ At(t, "look") /\ job[t].kind = "cached"
  /\ LET r == job[t].req
         kept == Pruned(cache.entries, job[t].now)
         hits == Find(kept, KeyOf(r))
     IN \/ \E e \in hits :
             job' = [job EXCEPT ![t] =
                       [@ EXCEPT !.at = "hit", !.mine = Holding(kept), !.status = "hit",
                                 !.built = [e EXCEPT !.used = job[t].now]]]
        \/ /\ hits = {}
           /\ \E old \in NewestOf(OfFile(kept, r.file)) :
                job' = [job EXCEPT ![t] =
                          [@ EXCEPT !.at = "build", !.mine = Holding(kept), !.old = old,
                                    !.status = StatusOfMiss(cache.entries, kept, r)]]
  /\ UNCHANGED <<cache, clock, answer, asks, clears, straddled>>

\* A proof attempt or a verification takes the newest build of its file, expired or not.
LookOnce(t) ==
  /\ At(t, "look") /\ job[t].kind = "one_shot"
  /\ \E old \in NewestOf(OfFile(cache.entries, job[t].req.file)) :
       job' = [job EXCEPT ![t].at = "build", ![t].old = old]
  /\ UNCHANGED <<cache, clock, answer, asks, clears, straddled>>

Straddles(t) == straddled' = (straddled \/ job[t].since < clears)

WriteHit(t) ==
  /\ At(t, "hit")
  /\ cache' = [job[t].mine EXCEPT !.entries = Upsert(@, job[t].built)]
  /\ Straddles(t) /\ Answer(t, job[t].built)
  /\ UNCHANGED <<clock, asks, clears>>

\* The header may not parse, its import or the elaboration may throw.
Outcomes(t) == {None, Snapshot(job[t].req, job[t].old)}

Build(t) ==
  /\ At(t, "build") /\ job[t].kind = "cached"
  /\ \E built \in Outcomes(t) :
       job' = [job EXCEPT ![t].at = "write", ![t].built = built, ![t].old = None]
  /\ UNCHANGED <<cache, clock, answer, asks, clears, straddled>>

\* What is built once, for an attempt, a verification or a query without the
\* cache, is only answered.
BuildOnce(t) ==
  /\ At(t, "build") /\ job[t].kind # "cached"
  /\ \E built \in Outcomes(t) : Answer(t, built)
  /\ UNCHANGED <<cache, clock, asks, clears, straddled>>

\* Mutant: a snapshot larger than the cache goes through the limits.
AnyAdded(c, e) == Holding(Upsert(c.entries, e))
\* A snapshot larger than the cache is not put in.
Added(c, e) == IF e.bytes > MaxBytes THEN c ELSE Holding(Upsert(c.entries, e))

\* After the build the cache that was read is written, with the snapshot.
Write(t) ==
  /\ At(t, "write")
  /\ cache' = IF job[t].built = None THEN job[t].mine
              ELSE Holding(Pruned(Added(job[t].mine, job[t].built).entries, clock))
  /\ Straddles(t) /\ Answer(t, job[t].built)
  /\ UNCHANGED <<clock, asks, clears>>

Tick ==
  /\ clock < MaxTime /\ clock' = clock + 1
  /\ UNCHANGED <<cache, job, answer, asks, clears, straddled>>

Next ==
  \/ Tick
  \/ \E t \in Threads :
       \/ \E kind \in {"cached", "one_shot", "uncached"}, r \in Requests : Ask(t, kind, r)
       \/ AskClear(t) \/ Clear(t) \/ Look(t) \/ LookOnce(t)
       \/ WriteHit(t) \/ Build(t) \/ BuildOnce(t) \/ Write(t)

Spec == Init /\ [][Next]_vars

-----------------------------------------------------------------------------
(* Properties                                                              *)

IsSnapshot(e) ==
  /\ e.file \in Files /\ e.src \in Sources /\ e.opts \in Options
  /\ e.base \in Envs \cup {Reimported} /\ {e.missing, e.chain} \subseteq BOOLEAN
  /\ e.bytes \in Nat /\ e.used \in 0 .. MaxTime /\ e.born \in 0 .. MaxClears /\ e.pos \in Nat

TypeOK ==
  /\ \A e \in cache.entries : IsSnapshot(e)
  /\ cache.bytes \in Nat /\ clock \in 0 .. MaxTime
  /\ \A t \in Threads :
       /\ job[t].at \in {"idle", "clear", "look", "hit", "build", "write"}
       /\ job[t].req \in Requests \cup {None} /\ answer[t].req \in Requests \cup {None}
       /\ {job[t].status, answer[t].status} \subseteq {None, "hit", "rebuilt", "evicted", "miss"}
       /\ job[t].old = None \/ IsSnapshot(job[t].old)
       /\ job[t].built = None \/ IsSnapshot(job[t].built)
  /\ asks \in 0 .. MaxAsks /\ clears \in 0 .. MaxClears /\ straddled \in BOOLEAN

\* Is the snapshot what elaborating the request anew would give.
AsIfFresh(e, r) ==
  /\ e.src = r.src /\ e.missing = IsMissing(r)
  /\ e.worlds = IF IsMissing(r) THEN {} ELSE {World(r)}

\* Every query is answered as if its source had been elaborated anew in its own
\* environment, under its own options, however the answer came about: from an
\* entry another session or thread wrote, or on top of an older build's
\* commands (InfoTree.lean:1845-1858; child.rs:2585-2612).
AnswersAreFresh ==
  \A t \in Threads : answer[t].built # None => AsIfFresh(answer[t].built, answer[t].req)

\* Whatever the threads overwrite, the cache has one entry for a key, is
\* within its limits, and knows its own size.
CacheIsConsistent ==
  /\ \A e, f \in cache.entries : e.key = f.key => e = f
  /\ Fits(cache.entries) /\ cache.bytes = SumOfBytes(cache.entries)

\* A clear that no query straddles leaves nothing from before it: no entry keeps
\* an environment of a session dropped after it (child.rs:1099-1114).
ClearIsFinal == straddled \/ \A e \in cache.entries : e.born = clears

\* A query's write drops, of what it read and built and is unexpired, only what is
\* no newer than all it keeps, and no more than the limits ask for; a snapshot
\* larger than the cache costs no other its place (InfoTree.lean:1786-1810, 2784).
EvictsOldestFirst ==
  [][\A t \in Threads :
       At(t, "write") /\ job'[t].at = "idle" /\ job[t].built # None =>
         LET read == job[t].mine.entries
             had == IF job[t].built.bytes > MaxBytes THEN read ELSE Upsert(read, job[t].built)
             gone == Unexpired(had, clock) \ cache'.entries
         IN gone # {} => /\ \E f \in gone : ~Fits(cache'.entries \cup {f})
                         /\ \A f \in gone, e \in cache'.entries : f.used <= e.used]_vars

\* The cache holds what its keys, its limits, its clears and its order say.
CacheHoldsItsOwn == [](CacheIsConsistent /\ ClearIsFinal) /\ EvictsOldestFirst

=============================================================================
