-------------------------- MODULE LeanSide_proofs --------------------------
(***************************************************************************)
(* Proofs about what the Lean side of the host does for a caller.          *)
(*                                                                         *)
(* The snapshot cache of the shims: every module query is answered as if   *)
(* its source had been elaborated anew, and the cache counts its bytes and *)
(* keeps its limits, for any threads, requests and limits.  The inductive  *)
(* invariant says of every snapshot in the cache, or in the hands of a     *)
(* thread, that some request made it: its key, base environment and        *)
(* options are that request's and it is what a fresh build would give.     *)
(*                                                                         *)
(* The checked calls of compiled exports: a call that runs is the call the *)
(* library was compiled for, whatever the manifest beside it says.         *)
(***************************************************************************)
EXTENDS SnapshotCache, ExportCalls, FiniteSetTheorems, SequenceTheorems, WellFoundedInduction, TLAPS


\* A snapshot has these fields and no other.
IsEntry(e) ==
  e = [file |-> e.file, key |-> e.key, src |-> e.src, base |-> e.base, opts |-> e.opts,
       missing |-> e.missing, chain |-> e.chain, worlds |-> e.worlds, bytes |-> e.bytes,
       used |-> e.used, born |-> e.born, pos |-> e.pos]

MadeFor(e, r) ==
  /\ e.key = KeyOf(r) /\ e.base = BaseEnv(r) /\ e.opts = r.opts
  /\ e.chain = ~IsMissing(r) /\ AsIfFresh(e, r)

SoundEntry(e) == IsEntry(e) /\ \E r \in Requests : MadeFor(e, r)
AllSound(S) == \A e \in S : SoundEntry(e)

IsJob(j) ==
  j = [at |-> j.at, kind |-> j.kind, req |-> j.req, now |-> j.now, mine |-> j.mine,
       old |-> j.old, built |-> j.built, status |-> j.status, since |-> j.since]

\* What a thread holds: sound entries, and a snapshot made for what was asked.
JobSound(j) ==
  /\ IsJob(j)
  /\ j.mine = [entries |-> j.mine.entries, bytes |-> j.mine.bytes] /\ AllSound(j.mine.entries)
  /\ j.old = None \/ SoundEntry(j.old)
  /\ j.at = "idle" \/ j.kind = "clear" \/ j.req \in Requests
  /\ j.at \in {"look", "hit", "build", "write"} => j.req \in Requests
  /\ j.built = None \/ (SoundEntry(j.built) /\ j.req \in Requests /\ AsIfFresh(j.built, j.req))
  /\ j.at = "hit" => SoundEntry(j.built) /\ AsIfFresh(j.built, j.req)

AnswerSound(a) == a.built = None \/ AsIfFresh(a.built, a.req)

IInv ==
  /\ AllSound(cache.entries)
  /\ job = [t \in Threads |-> job[t]] /\ \A t \in Threads : JobSound(job[t])
  /\ answer = [t \in Threads |-> answer[t]] /\ \A t \in Threads : AnswerSound(answer[t])

-----------------------------------------------------------------------------
(* Snapshots and sets of entries                                           *)

\* The key tells apart whatever a fresh build would tell apart.
LEMMA KeySeparates ==
  ASSUME NEW r \in Requests, NEW q \in Requests, NEW e, MadeFor(e, q), KeyOf(r) = KeyOf(q)
  PROVE  AsIfFresh(e, r)
<1>1. Class[r.env] = Class[q.env] /\ r.src = q.src /\ r.opts = q.opts
  BY DEF KeyOf
<1>2. IsMissing(r) = IsMissing(q)
  BY <1>1 DEF IsMissing
<1>3. World(r) = World(q)
  BY <1>1, <1>2 DEF World, Reimports
<1>4. QED
  BY <1>1, <1>2, <1>3 DEF MadeFor, AsIfFresh

\* A build gives what a fresh one would, whatever older build it continues.
LEMMA BuildIsFresh ==
  ASSUME NEW r \in Requests, NEW old, old = None \/ SoundEntry(old)
  PROVE  SoundEntry(Snapshot(r, old)) /\ AsIfFresh(Snapshot(r, old), r)
<1> DEFINE s == Snapshot(r, old)
<1>1. IsEntry(s)
  BY DEF Snapshot, IsEntry
<1>2. ASSUME Reusable(old, r), ~IsMissing(r) PROVE old.worlds = {World(r)}
  <2>1. PICK q \in Requests : MadeFor(old, q)
    BY <1>2 DEF Reusable, SoundEntry
  <2>2. q.env \in Envs /\ r.env \in Envs /\ Reimported \notin Envs
    BY CacheAssumption
  <2>3. ~IsMissing(q) /\ q.opts = r.opts /\ BaseEnv(q) = r.env
    BY <1>2, <2>1 DEF Reusable, MadeFor, BaseEnv
  <2>4. ~Reimports(q) /\ q.env = r.env
    BY <2>2, <2>3 DEF BaseEnv
  <2>5. World(q) = World(r)
    BY <1>2, <2>3, <2>4 DEF World, Reusable
  <2>6. QED
    BY <2>1, <2>3, <2>5 DEF MadeFor, AsIfFresh
<1>3. s.worlds = IF IsMissing(r) THEN {} ELSE {World(r)}
  BY <1>2 DEF Snapshot
<1>4. AsIfFresh(s, r) /\ MadeFor(s, r)
  BY <1>3 DEF AsIfFresh, MadeFor, Snapshot
<1>5. QED
  BY <1>1, <1>4 DEF SoundEntry

\* A new position or time of use leaves a snapshot as it is.
LEMMA TouchedIsSound ==
  ASSUME NEW e, NEW x, SoundEntry(e)
  PROVE  /\ SoundEntry([e EXCEPT !.pos = x]) /\ SoundEntry([e EXCEPT !.used = x])
         /\ \A r \in Requests : AsIfFresh(e, r) => AsIfFresh([e EXCEPT !.used = x], r)
<1>1. PICK q \in Requests : MadeFor(e, q)
  BY DEF SoundEntry
<1>2. IsEntry(e)
  BY DEF SoundEntry
<1> DEFINE p == [e EXCEPT !.pos = x]
           u == [e EXCEPT !.used = x]
<1>3. /\ p.key = e.key /\ p.base = e.base /\ p.opts = e.opts /\ p.chain = e.chain
      /\ p.src = e.src /\ p.missing = e.missing /\ p.worlds = e.worlds /\ IsEntry(p)
  BY <1>2 DEF IsEntry
<1>4. /\ u.key = e.key /\ u.base = e.base /\ u.opts = e.opts /\ u.chain = e.chain
      /\ u.src = e.src /\ u.missing = e.missing /\ u.worlds = e.worlds /\ IsEntry(u)
  BY <1>2 DEF IsEntry
<1>5. MadeFor(p, q) /\ MadeFor(u, q)
  BY <1>1, <1>3, <1>4 DEF MadeFor, AsIfFresh
<1>6. \A r \in Requests : AsIfFresh(e, r) => AsIfFresh(u, r)
  BY <1>4 DEF AsIfFresh
<1>7. QED
  BY <1>3, <1>4, <1>5, <1>6 DEF SoundEntry

\* Pruning only takes entries away.
LEMMA PrunedIsSubset ==
  ASSUME NEW S, NEW now
  PROVE  Pruned(S, now) \subseteq S
<1>1. Unexpired(S, now) \subseteq S
  BY DEF Unexpired
<1>2. \A R, n : Without(R, n) \subseteq R
  BY DEF Without
<1>3. QED
  BY <1>1, <1>2 DEF Pruned, WithinLimits

\* Putting a sound snapshot in keeps the entries sound.
LEMMA UpsertIsSound ==
  ASSUME NEW S, NEW e, AllSound(S), SoundEntry(e)
  PROVE  AllSound(Upsert(S, e))
BY TouchedIsSound DEF AllSound, Upsert, Find

-----------------------------------------------------------------------------
(* The invariant                                                           *)

LEMMA EmptyIsSound ==
  AllSound({}) /\ Empty.entries = {} /\ Empty = [entries |-> {}, bytes |-> Empty.bytes]
BY DEF AllSound, Empty, Holding

LEMMA NoJobSound == JobSound(NoJob) /\ IsJob(NoJob)
BY EmptyIsSound DEF JobSound, NoJob, IsJob

LEMMA InitIInv == Init => IInv
<1> SUFFICES ASSUME Init PROVE IInv
  OBVIOUS
<1>1. AllSound({}) /\ Empty.entries = {} /\ Empty = [entries |-> {}, bytes |-> Empty.bytes]
  BY EmptyIsSound
<1>2. JobSound(NoJob)
  BY NoJobSound
<1>3. AnswerSound(NoAnswer)
  BY DEF AnswerSound, NoAnswer
<1>4. QED
  BY <1>1, <1>2, <1>3 DEF Init, IInv

\* A thread's answer is as fresh as what it built.
LEMMA AnswerKeeps ==
  ASSUME IInv, NEW t \in Threads, NEW built, Answer(t, built),
         built = None \/ AsIfFresh(built, job[t].req), AllSound(cache'.entries)
  PROVE  IInv'
<1>1. AllSound({}) /\ Empty.entries = {} /\ Empty = [entries |-> {}, bytes |-> Empty.bytes]
  BY EmptyIsSound
<1>2. JobSound(NoJob)
  BY NoJobSound
<1>3. \A u \in Threads : job'[u] = IF u = t THEN NoJob ELSE job[u]
  BY DEF IInv, Answer
<1>4. \A u \in Threads :
        answer'[u] = IF u = t THEN [req |-> job[t].req, built |-> built, status |-> job[t].status]
                     ELSE answer[u]
  BY DEF IInv, Answer
<1>5. job' = [u \in Threads |-> job'[u]] /\ answer' = [u \in Threads |-> answer'[u]]
  BY DEF IInv, Answer
<1>6. \A u \in Threads : JobSound(job'[u])
  BY <1>2, <1>3 DEF IInv
<1>7. \A u \in Threads : AnswerSound(answer'[u])
  BY <1>4 DEF IInv, AnswerSound
<1>8. QED
  BY <1>5, <1>6, <1>7 DEF IInv

\* A step that changes one thread's job, to a sound one, and no answer but its own.
LEMMA JobKeeps ==
  ASSUME IInv, NEW t \in Threads, NEW j, job' = [job EXCEPT ![t] = j], JobSound(j),
         AllSound(cache'.entries),
         answer' = answer \/ answer' = [answer EXCEPT ![t] = NoAnswer]
  PROVE  IInv'
<1>1. AnswerSound(NoAnswer)
  BY DEF AnswerSound, NoAnswer
<1>2. \A u \in Threads : JobSound(job'[u])
  BY DEF IInv
<1>3. \A u \in Threads : AnswerSound(answer'[u])
  BY <1>1 DEF IInv
<1>4. QED
  BY <1>2, <1>3 DEF IInv

\* A job is sound when its parts are.
LEMMA PartsMakeJob ==
  ASSUME NEW at, NEW kind, NEW req, NEW now, NEW mine, NEW old, NEW built, NEW status,
         NEW since, mine = [entries |-> mine.entries, bytes |-> mine.bytes], AllSound(mine.entries), old = None \/ SoundEntry(old), req \in Requests,
         built = None \/ (SoundEntry(built) /\ AsIfFresh(built, req)),
         at = "hit" => SoundEntry(built) /\ AsIfFresh(built, req)
  PROVE  JobSound([at |-> at, kind |-> kind, req |-> req, now |-> now,
                   mine |-> mine, old |-> old, built |-> built,
                   status |-> status, since |-> since])
BY DEF JobSound, IsJob

LEMMA AskKeeps ==
  ASSUME IInv, NEW t \in Threads, NEW kind \in {"cached", "one_shot", "uncached"},
         NEW r \in Requests, Ask(t, kind, r)
  PROVE  IInv'
<1> DEFINE asked == [NoJob EXCEPT !.at = IF kind = "uncached" THEN "build" ELSE "look",
                                  !.kind = kind, !.req = r, !.now = clock, !.since = clears]
           cleared == [NoJob EXCEPT !.at = "clear", !.kind = kind, !.req = r]
<1>1. AllSound({}) /\ Empty.entries = {} /\ Empty = [entries |-> {}, bytes |-> Empty.bytes]
  BY EmptyIsSound
<1>2. JobSound(asked)
  <2>1. asked = [at |-> asked.at, kind |-> kind, req |-> r, now |-> clock,
                 mine |-> Empty, old |-> None,
                 built |-> None, status |-> None, since |-> clears]
    <3>1. PICK x : x = asked
      OBVIOUS
    <3>2. x = [at |-> x.at, kind |-> kind, req |-> r, now |-> clock,
                 mine |-> Empty, old |-> None,
                 built |-> None, status |-> None, since |-> clears]
      BY <3>1 DEF NoJob
    <3>3. QED
      BY <3>1, <3>2
  <2>2. asked.at # "hit"
    BY DEF NoJob
  <2>3. QED
    BY <1>1, <2>1, <2>2, PartsMakeJob
<1>3. JobSound(cleared)
  <2>1. cleared = [at |-> "clear", kind |-> kind, req |-> r, now |-> 0,
                   mine |-> Empty, old |-> None,
                   built |-> None, status |-> None, since |-> 0]
    <3>1. PICK x : x = cleared
      OBVIOUS
    <3>2. x = [at |-> "clear", kind |-> kind, req |-> r, now |-> 0,
                   mine |-> Empty, old |-> None,
                   built |-> None, status |-> None, since |-> 0]
      BY <3>1 DEF NoJob
    <3>3. QED
      BY <3>1, <3>2
  <2>2. QED
    BY <1>1, <2>1, PartsMakeJob
<1>4. AllSound(cache'.entries)
  BY DEF IInv, Ask
<1>5. job' = [job EXCEPT ![t] = asked] \/ job' = [job EXCEPT ![t] = cleared]
  BY DEF Ask
<1>6. QED
  BY <1>2, <1>3, <1>4, <1>5, JobKeeps DEF Ask

LEMMA AskClearKeeps ==
  ASSUME IInv, NEW t \in Threads, AskClear(t)
  PROVE  IInv'
<1> DEFINE j == [NoJob EXCEPT !.at = "clear", !.kind = "clear"]
<1>1. AllSound({}) /\ Empty.entries = {} /\ Empty = [entries |-> {}, bytes |-> Empty.bytes]
  BY EmptyIsSound
<1>2. JobSound(j)
  <2>1. j = [at |-> "clear", kind |-> "clear", req |-> None, now |-> 0,
             mine |-> Empty, old |-> None,
             built |-> None, status |-> None, since |-> 0]
    <3>1. PICK x : x = j
      OBVIOUS
    <3>2. x = [at |-> "clear", kind |-> "clear", req |-> None, now |-> 0,
             mine |-> Empty, old |-> None,
             built |-> None, status |-> None, since |-> 0]
      BY <3>1 DEF NoJob
    <3>3. QED
      BY <3>1, <3>2
  <2>2. QED
    BY <1>1, <2>1 DEF JobSound, IsJob
<1>3. AllSound(cache'.entries)
  BY DEF IInv, AskClear
<1>4. QED
  BY <1>2, <1>3, JobKeeps DEF AskClear

LEMMA ClearKeeps ==
  ASSUME IInv, NEW t \in Threads, Clear(t)
  PROVE  IInv'
<1> DEFINE j == IF job[t].kind = "clear" THEN NoJob
                ELSE [job[t] EXCEPT !.at = "look", !.now = clock, !.since = clears + 1]
<1>1. AllSound(cache'.entries)
  BY DEF Clear, Cleared, Empty, Holding, AllSound
<1>2. job' = [job EXCEPT ![t] = j]
  BY DEF Clear
<1>3. JobSound(job[t]) /\ job[t].at = "clear"
  BY DEF IInv, Clear, At
<1>4. JobSound(j)
  BY <1>3, NoJobSound DEF JobSound, IsJob
<1>5. QED
  BY <1>1, <1>2, <1>4, JobKeeps DEF Clear

LEMMA LookKeeps ==
  ASSUME IInv, NEW t \in Threads, Look(t)
  PROVE  IInv'
<1> DEFINE r == job[t].req
           kept == Pruned(cache.entries, job[t].now)
           hits == Find(kept, KeyOf(r))
           hit(e) == [job[t] EXCEPT !.at = "hit", !.mine = Holding(kept), !.status = "hit",
                                    !.built = [e EXCEPT !.used = job[t].now]]
           build(old) == [job[t] EXCEPT !.at = "build", !.mine = Holding(kept), !.old = old,
                                        !.status = StatusOfMiss(cache.entries, kept, r)]
<1>1. JobSound(job[t]) /\ job[t].at = "look" /\ r \in Requests
  BY DEF IInv, Look, At, JobSound
<1>2. AllSound(kept)
  BY PrunedIsSubset DEF IInv, AllSound
<1>3. /\ Holding(kept) = [entries |-> kept, bytes |-> Holding(kept).bytes]
      /\ Holding(kept).entries = kept
  BY DEF Holding
<1>4. ASSUME NEW e \in hits PROVE JobSound(hit(e))
  <2> DEFINE b == [e EXCEPT !.used = job[t].now]
  <2>1. e \in kept /\ e.key = KeyOf(r)
    BY <1>4 DEF Find
  <2>2. SoundEntry(e)
    BY <1>2, <2>1 DEF AllSound
  <2>3. PICK q \in Requests : MadeFor(e, q)
    BY <2>2 DEF SoundEntry
  <2>4. AsIfFresh(e, r)
    BY <1>1, <2>1, <2>3, KeySeparates DEF MadeFor
  <2>5. SoundEntry(b) /\ AsIfFresh(b, r)
    BY <1>1, <2>2, <2>4, TouchedIsSound
  <2>6. hit(e) = [at |-> "hit", kind |-> job[t].kind, req |-> r, now |-> job[t].now,
                  mine |-> Holding(kept),
                  old |-> job[t].old, built |-> b, status |-> "hit", since |-> job[t].since]
    <3>1. PICK x : x = hit(e)
      OBVIOUS
    <3>2. x = [at |-> "hit", kind |-> job[t].kind, req |-> r, now |-> job[t].now,
                  mine |-> Holding(kept),
                  old |-> job[t].old, built |-> b, status |-> "hit", since |-> job[t].since]
      BY <3>1, <1>1 DEF JobSound, IsJob
    <3>3. QED
      BY <3>1, <3>2
  <2>7. job[t].old = None \/ SoundEntry(job[t].old)
    BY <1>1 DEF JobSound
  <2>8. QED
    BY <1>1, <1>2, <1>3, <2>5, <2>6, <2>7, PartsMakeJob
<1>5. ASSUME NEW old \in NewestOf(OfFile(kept, r.file)) PROVE JobSound(build(old))
  <2>1. old = None \/ old \in kept
    BY <1>5 DEF NewestOf, OfFile
  <2>2. old = None \/ SoundEntry(old)
    BY <1>2, <2>1 DEF AllSound
  <2>3. build(old) = [at |-> "build", kind |-> job[t].kind, req |-> r, now |-> job[t].now,
                      mine |-> Holding(kept),
                      old |-> old, built |-> job[t].built,
                      status |-> StatusOfMiss(cache.entries, kept, r), since |-> job[t].since]
    <3>1. PICK x : x = build(old)
      OBVIOUS
    <3>2. x = [at |-> "build", kind |-> job[t].kind, req |-> r, now |-> job[t].now,
                      mine |-> Holding(kept),
                      old |-> old, built |-> job[t].built,
                      status |-> StatusOfMiss(cache.entries, kept, r), since |-> job[t].since]
      BY <3>1, <1>1 DEF JobSound, IsJob
    <3>3. QED
      BY <3>1, <3>2
  <2>4. job[t].built = None \/ (SoundEntry(job[t].built) /\ AsIfFresh(job[t].built, r))
    BY <1>1 DEF JobSound
  <2>5. QED
    BY <1>1, <1>2, <1>3, <2>2, <2>3, <2>4, PartsMakeJob
<1>6. AllSound(cache'.entries) /\ answer' = answer
  BY DEF IInv, Look
<1>7. \/ \E e \in hits : job' = [job EXCEPT ![t] = hit(e)]
      \/ \E old \in NewestOf(OfFile(kept, r.file)) : job' = [job EXCEPT ![t] = build(old)]
  BY DEF Look
<1>8. QED
  BY <1>4, <1>5, <1>6, <1>7, JobKeeps

LEMMA LookOnceKeeps ==
  ASSUME IInv, NEW t \in Threads, LookOnce(t)
  PROVE  IInv'
<1>1. JobSound(job[t]) /\ job[t].at = "look" /\ job[t].req \in Requests
  BY DEF IInv, LookOnce, At, JobSound
<1>2. PICK old \in NewestOf(OfFile(cache.entries, job[t].req.file)) :
        job' = [job EXCEPT ![t].at = "build", ![t].old = old]
  BY DEF LookOnce
<1> DEFINE j == [job[t] EXCEPT !.at = "build", !.old = old]
<1>3. old = None \/ SoundEntry(old)
  BY <1>2 DEF NewestOf, OfFile, IInv, AllSound
<1>4. j = [at |-> "build", kind |-> job[t].kind, req |-> job[t].req, now |-> job[t].now,
           mine |-> job[t].mine, old |-> old, built |-> job[t].built,
           status |-> job[t].status, since |-> job[t].since]
  <2>1. PICK x : x = j
    OBVIOUS
  <2>2. x = [at |-> "build", kind |-> job[t].kind, req |-> job[t].req, now |-> job[t].now,
             mine |-> job[t].mine, old |-> old, built |-> job[t].built,
             status |-> job[t].status, since |-> job[t].since]
    BY <1>1, <2>1 DEF JobSound, IsJob
  <2>3. QED
    BY <2>1, <2>2
<1>5. /\ job[t].mine = [entries |-> job[t].mine.entries, bytes |-> job[t].mine.bytes]
      /\ AllSound(job[t].mine.entries)
      /\ job[t].built = None \/ (SoundEntry(job[t].built) /\ AsIfFresh(job[t].built, job[t].req))
  BY <1>1 DEF JobSound
<1>6. JobSound(j)
  BY <1>1, <1>3, <1>4, <1>5, PartsMakeJob
<1>7. job' = [job EXCEPT ![t] = j] /\ answer' = answer /\ AllSound(cache'.entries)
  BY <1>2 DEF LookOnce, IInv
<1>8. QED
  BY <1>6, <1>7, JobKeeps

LEMMA WriteHitKeeps ==
  ASSUME IInv, NEW t \in Threads, WriteHit(t)
  PROVE  IInv'
<1>1. JobSound(job[t]) /\ job[t].at = "hit"
  BY DEF IInv, WriteHit, At
<1>2. SoundEntry(job[t].built) /\ AsIfFresh(job[t].built, job[t].req)
  BY <1>1 DEF JobSound
<1>3. AllSound(Upsert(job[t].mine.entries, job[t].built))
  BY <1>1, <1>2, UpsertIsSound DEF JobSound
<1>4. cache'.entries = Upsert(job[t].mine.entries, job[t].built)
  BY <1>1 DEF WriteHit, JobSound
<1>5. QED
  BY <1>2, <1>3, <1>4, AnswerKeeps DEF WriteHit

\* Either way of building gives nothing, or what a fresh build would.
LEMMA OutcomesAreFresh ==
  ASSUME IInv, NEW t \in Threads, job[t].at = "build", NEW built \in Outcomes(t)
  PROVE  /\ JobSound(job[t]) /\ job[t].req \in Requests
         /\ built = None \/ (SoundEntry(built) /\ AsIfFresh(built, job[t].req))
<1>1. JobSound(job[t]) /\ job[t].req \in Requests
  BY DEF IInv, JobSound
<1>2. job[t].old = None \/ SoundEntry(job[t].old)
  BY <1>1 DEF JobSound
<1>3. QED
  BY <1>1, <1>2, BuildIsFresh DEF Outcomes

LEMMA BuildKeeps ==
  ASSUME IInv, NEW t \in Threads, Build(t)
  PROVE  IInv'
<1>1. PICK built \in Outcomes(t) :
        job' = [job EXCEPT ![t].at = "write", ![t].built = built, ![t].old = None]
  BY DEF Build
<1>2. /\ JobSound(job[t]) /\ job[t].req \in Requests
      /\ built = None \/ (SoundEntry(built) /\ AsIfFresh(built, job[t].req))
  BY OutcomesAreFresh DEF Build, At
<1> DEFINE j == [job[t] EXCEPT !.at = "write", !.built = built, !.old = None]
<1>3. j = [at |-> "write", kind |-> job[t].kind, req |-> job[t].req, now |-> job[t].now,
           mine |-> job[t].mine, old |-> None, built |-> built, status |-> job[t].status,
           since |-> job[t].since]
  <2>1. PICK x : x = j
    OBVIOUS
  <2>2. x = [at |-> "write", kind |-> job[t].kind, req |-> job[t].req, now |-> job[t].now,
             mine |-> job[t].mine, old |-> None, built |-> built, status |-> job[t].status,
             since |-> job[t].since]
    BY <1>2, <2>1 DEF JobSound, IsJob
  <2>3. QED
    BY <2>1, <2>2
<1>4. /\ job[t].mine = [entries |-> job[t].mine.entries, bytes |-> job[t].mine.bytes]
      /\ AllSound(job[t].mine.entries)
  BY <1>2 DEF JobSound
<1>5. JobSound(j)
  BY <1>2, <1>3, <1>4, PartsMakeJob
<1>6. job' = [job EXCEPT ![t] = j] /\ answer' = answer /\ AllSound(cache'.entries)
  BY <1>1 DEF Build, IInv
<1>7. QED
  BY <1>5, <1>6, JobKeeps

LEMMA BuildOnceKeeps ==
  ASSUME IInv, NEW t \in Threads, BuildOnce(t)
  PROVE  IInv'
<1>1. PICK built \in Outcomes(t) : Answer(t, built)
  BY DEF BuildOnce
<1>2. built = None \/ AsIfFresh(built, job[t].req)
  BY OutcomesAreFresh DEF BuildOnce, At
<1>3. AllSound(cache'.entries)
  BY DEF BuildOnce, IInv
<1>4. QED
  BY <1>1, <1>2, <1>3, AnswerKeeps

LEMMA WriteKeeps ==
  ASSUME IInv, NEW t \in Threads, Write(t)
  PROVE  IInv'
<1>1. JobSound(job[t]) /\ job[t].at = "write"
  BY DEF IInv, Write, At
<1>2. AllSound(job[t].mine.entries)
  BY <1>1 DEF JobSound
<1>3. job[t].built = None \/ (SoundEntry(job[t].built) /\ AsIfFresh(job[t].built, job[t].req))
  BY <1>1 DEF JobSound
<1>4. CASE job[t].built = None
  BY <1>2, <1>3, <1>4, AnswerKeeps DEF Write
<1>5. CASE job[t].built # None
  <2> DEFINE with == Added(job[t].mine, job[t].built)
  <2>1. AllSound(with.entries)
    BY <1>2, <1>3, <1>5, UpsertIsSound DEF Added, Holding
  <2>2. cache'.entries = Pruned(with.entries, clock)
    BY <1>5 DEF Write, Holding
  <2>3. AllSound(cache'.entries)
    BY <2>1, <2>2, PrunedIsSubset DEF AllSound
  <2>4. QED
    BY <1>3, <2>3, AnswerKeeps DEF Write
<1>6. QED
  BY <1>4, <1>5

LEMMA NextIInv == IInv /\ [Next]_vars => IInv'
<1> SUFFICES ASSUME IInv, [Next]_vars PROVE IInv'
  OBVIOUS
<1>1. CASE UNCHANGED vars
  BY <1>1 DEF IInv, vars
<1>2. CASE Tick
  BY <1>2 DEF IInv, Tick
<1>3. ASSUME NEW t \in Threads,
             \/ \E kind \in {"cached", "one_shot", "uncached"}, r \in Requests : Ask(t, kind, r)
             \/ AskClear(t) \/ Clear(t) \/ Look(t) \/ LookOnce(t)
             \/ WriteHit(t) \/ Build(t) \/ BuildOnce(t) \/ Write(t)
      PROVE  IInv'
  BY <1>3, AskKeeps, AskClearKeeps, ClearKeeps, LookKeeps, LookOnceKeeps,
     WriteHitKeeps, BuildKeeps, BuildOnceKeeps, WriteKeeps
<1>4. QED
  BY <1>1, <1>2, <1>3 DEF Next

\* Whatever sessions, threads, limits and files there are, and however their
\* queries overlap, a module query answers as a fresh elaboration would
\* (processModuleQueryBatchCached, attemptProof, verifyDeclaration).
THEOREM AnswersHold == Spec => []AnswersAreFresh
<1>1. IInv => AnswersAreFresh
  BY DEF IInv, AnswerSound, AnswersAreFresh
<1>2. QED
  BY <1>1, InitIInv, NextIInv, PTL DEF Spec

-----------------------------------------------------------------------------
(* Clears, and one entry for a key                                         *)

BornNow(S) == \A e \in S : e.born = clears
OnePerKey(S) == \A e, f \in S : e.key = f.key => e = f

\* What a thread holds has one entry for a key; when its query began after the
\* last clear, and no query straddled that, it is all from after it.
JobClear(j) ==
  /\ OnePerKey(j.mine.entries)
  /\ j.at = "clear" => j.mine.entries = {} /\ j.built = None
  /\ j.at \in {"look", "hit", "build", "write"} =>
       /\ j.since \in Nat /\ j.since <= clears
       /\ j.since = clears /\ ~straddled =>
            BornNow(j.mine.entries)
            /\ ((j.built = None /\ j.at # "hit") \/ j.built.born = clears)

ClearInv ==
  /\ IInv /\ clears \in Nat /\ OnePerKey(cache.entries)
  /\ straddled \/ BornNow(cache.entries)
  /\ \A t \in Threads : JobClear(job[t])

\* A snapshot put in is alone with its key, and as old as it was.
LEMMA UpsertKeeps ==
  ASSUME NEW S, NEW e, AllSound(S), SoundEntry(e)
  PROVE  /\ OnePerKey(S) => OnePerKey(Upsert(S, e))
         /\ BornNow(S) /\ e.born = clears => BornNow(Upsert(S, e))
<1> DEFINE others == S \ Find(S, e.key)
<1>1. PICK p : Upsert(S, e) = others \cup {[e EXCEPT !.pos = p]}
  BY DEF Upsert
<1> DEFINE put == [e EXCEPT !.pos = p]
<1>2. IsEntry(e)
  BY DEF SoundEntry
<1>3. put.key = e.key /\ put.born = e.born
  BY <1>2 DEF IsEntry
<1>4. \A f \in others : f \in S /\ f.key # e.key
  BY DEF Find
<1> HIDE DEF others, put
<1>5. OnePerKey(S) => OnePerKey(Upsert(S, e))
  BY <1>1, <1>3, <1>4 DEF OnePerKey, put
<1>6. BornNow(S) /\ e.born = clears => BornNow(Upsert(S, e))
  BY <1>1, <1>3, <1>4 DEF BornNow, put
<1>7. QED
  BY <1>5, <1>6

LEMMA InitClearInv == Init => ClearInv
<1> SUFFICES ASSUME Init PROVE ClearInv
  OBVIOUS
<1>1. Empty.entries = {}
  BY EmptyIsSound
<1>2. JobClear(NoJob)
  BY <1>1 DEF JobClear, NoJob, OnePerKey
<1>3. OnePerKey({}) /\ BornNow({})
  BY DEF OnePerKey, BornNow
<1>4. QED
  BY <1>1, <1>2, <1>3, InitIInv DEF Init, ClearInv

\* A step that leaves the clears alone and changes one thread's job, at most.
LEMMA OneJobClear ==
  ASSUME ClearInv, IInv', NEW t \in Threads, clears' = clears, straddled => straddled',
         \A u \in Threads \ {t} : job'[u] = job[u], JobClear(job[t])',
         OnePerKey(cache'.entries), straddled' \/ BornNow(cache'.entries)
  PROVE  ClearInv'
<1>1. ASSUME NEW u \in Threads \ {t} PROVE JobClear(job[u])'
  <2>1. JobClear(job[u]) /\ job'[u] = job[u]
    BY DEF ClearInv
  <2>2. QED
    BY <2>1 DEF JobClear, BornNow, OnePerKey
<1>2. (BornNow(cache.entries))' <=> BornNow(cache'.entries)
  BY DEF BornNow
<1>3. QED
  BY <1>1, <1>2 DEF ClearInv, BornNow, OnePerKey

LEMMA NoJobClear == JobClear(NoJob) /\ (JobClear(NoJob))'
<1>1. Empty.entries = {}
  BY EmptyIsSound
<1>2. NoJob.mine.entries = {} /\ NoJob.at = "idle"
  BY <1>1 DEF NoJob
<1>3. QED
  BY <1>2 DEF JobClear, OnePerKey

\* An answered query leaves nothing with the thread.
LEMMA AnsweredClear ==
  ASSUME ClearInv, IInv', NEW t \in Threads, NEW built, Answer(t, built), clears' = clears,
         straddled => straddled',
         OnePerKey(cache'.entries), straddled' \/ BornNow(cache'.entries)
  PROVE  ClearInv'
<1>1. \A u \in Threads : job'[u] = IF u = t THEN NoJob ELSE job[u]
  BY DEF ClearInv, IInv, Answer
<1>2. JobClear(job[t])'
  <2>1. job'[t] = NoJob
    BY <1>1
  <2>2. Empty.entries = {}
    BY EmptyIsSound
  <2>3. job'[t].mine.entries = {} /\ job'[t].at = "idle"
    BY <2>1, <2>2 DEF NoJob
  <2>4. QED
    BY <2>3 DEF JobClear, OnePerKey
<1>3. QED
  BY <1>1, <1>2, OneJobClear

\* A step of one thread that leaves the cache and the clears alone.
LEMMA ReadClear ==
  ASSUME ClearInv, IInv', NEW t \in Threads, NEW j, job' = [job EXCEPT ![t] = j], JobClear(j),
         UNCHANGED <<cache, clears, straddled>>
  PROVE  ClearInv'
<1>1. \A u \in Threads : job'[u] = IF u = t THEN j ELSE job[u]
  BY DEF ClearInv, IInv
<1>2. JobClear(job[t])'
  <2>1. job'[t] = j
    BY <1>1
  <2>2. QED
    BY <2>1 DEF JobClear, OnePerKey, BornNow
<1>3. OnePerKey(cache'.entries) /\ (straddled' \/ BornNow(cache'.entries))
  BY DEF ClearInv
<1>4. QED
  BY <1>1, <1>2, <1>3, OneJobClear

LEMMA AskClears ==
  ASSUME ClearInv, IInv', NEW t \in Threads, NEW kind, NEW r, Ask(t, kind, r)
  PROVE  ClearInv'
<1> DEFINE asked == [NoJob EXCEPT !.at = IF kind = "uncached" THEN "build" ELSE "look",
                                  !.kind = kind, !.req = r, !.now = clock, !.since = clears]
           cleared == [NoJob EXCEPT !.at = "clear", !.kind = kind, !.req = r]
<1>1. Empty.entries = {}
  BY EmptyIsSound
<1>2. /\ asked.mine.entries = {} /\ asked.built = None /\ asked.since = clears
      /\ asked.at \in {"build", "look"}
  BY <1>1 DEF NoJob
<1>3. cleared.mine.entries = {} /\ cleared.built = None /\ cleared.at = "clear"
  BY <1>1 DEF NoJob
<1>4. job' = [job EXCEPT ![t] = asked] \/ job' = [job EXCEPT ![t] = cleared]
  BY DEF Ask
<1>5. UNCHANGED <<cache, clears, straddled>> /\ clears \in Nat
  BY DEF Ask, ClearInv
<1> HIDE DEF asked, cleared
<1>6. JobClear(asked)
  BY <1>2, <1>5 DEF JobClear, OnePerKey, BornNow
<1>7. JobClear(cleared)
  BY <1>3 DEF JobClear, OnePerKey
<1>8. QED
  BY <1>4, <1>5, <1>6, <1>7, ReadClear

LEMMA AskClearClears ==
  ASSUME ClearInv, IInv', NEW t \in Threads, AskClear(t)
  PROVE  ClearInv'
<1> DEFINE j == [NoJob EXCEPT !.at = "clear", !.kind = "clear"]
<1>1. j.mine.entries = {} /\ j.built = None /\ j.at = "clear"
  BY EmptyIsSound DEF NoJob
<1>2. job' = [job EXCEPT ![t] = j] /\ UNCHANGED <<cache, clears, straddled>>
  BY DEF AskClear
<1> HIDE DEF j
<1>3. JobClear(j)
  BY <1>1 DEF JobClear, OnePerKey
<1>4. QED
  BY <1>2, <1>3, ReadClear

\* A clear empties the cache, and every query under way began before it.
LEMMA ClearClears ==
  ASSUME ClearInv, IInv', NEW t \in Threads, Clear(t)
  PROVE  ClearInv'
<1> DEFINE j == IF job[t].kind = "clear" THEN NoJob
                ELSE [job[t] EXCEPT !.at = "look", !.now = clock, !.since = clears + 1]
<1>1. cache' = Empty /\ Empty.entries = {} /\ clears' = clears + 1 /\ clears \in Nat
  BY EmptyIsSound DEF Clear, Cleared, ClearInv
<1>2. job' = [job EXCEPT ![t] = j]
  BY DEF Clear
<1>3. IsJob(job[t]) /\ job[t].at = "clear" /\ JobClear(job[t])
  BY DEF ClearInv, IInv, JobSound, Clear, At
<1>4. job[t].mine.entries = {} /\ job[t].built = None
  BY <1>3 DEF JobClear
<1>5. j.mine.entries = {} /\ j.built = None /\ (j.at = "idle" \/ j.since = clears + 1)
      /\ j.at \notin {"clear", "hit"}
  <2>1. CASE job[t].kind = "clear"
    BY <1>1, <2>1 DEF NoJob
  <2>2. CASE job[t].kind # "clear"
    <3> DEFINE k == [job[t] EXCEPT !.at = "look", !.now = clock, !.since = clears + 1]
    <3>1. k.mine = job[t].mine /\ k.built = job[t].built /\ k.since = clears + 1 /\ k.at = "look"
      BY <1>3 DEF IsJob
    <3>2. j = k
      BY <2>2
    <3>3. QED
      BY <1>4, <3>1, <3>2
  <2>3. QED
    BY <2>1, <2>2
<1> HIDE DEF j
<1>6. \A u \in Threads : job'[u] = IF u = t THEN j ELSE job[u]
  BY <1>2 DEF ClearInv, IInv
<1>7. JobClear(job[t])'
  <2>1. job'[t] = j
    BY <1>6
  <2>2. QED
    BY <1>1, <1>5, <2>1 DEF JobClear, OnePerKey, BornNow
<1>8. ASSUME NEW u \in Threads \ {t} PROVE JobClear(job[u])'
  <2>1. JobClear(job[u]) /\ job'[u] = job[u]
    BY <1>6 DEF ClearInv
  <2>2. job[u].at \in {"look", "hit", "build", "write"} =>
          job[u].since \in Nat /\ job[u].since <= clears' /\ job[u].since # clears'
    BY <1>1, <2>1 DEF JobClear
  <2>3. QED
    BY <2>1, <2>2 DEF JobClear, OnePerKey
<1>9. QED
  BY <1>1, <1>7, <1>8 DEF ClearInv, OnePerKey, BornNow

LEMMA LookClears ==
  ASSUME ClearInv, IInv', NEW t \in Threads, Look(t)
  PROVE  ClearInv'
<1> DEFINE r == job[t].req
           kept == Pruned(cache.entries, job[t].now)
           hits == Find(kept, KeyOf(r))
           hit(e) == [job[t] EXCEPT !.at = "hit", !.mine = Holding(kept), !.status = "hit",
                                    !.built = [e EXCEPT !.used = job[t].now]]
           build(old) == [job[t] EXCEPT !.at = "build", !.mine = Holding(kept), !.old = old,
                                        !.status = StatusOfMiss(cache.entries, kept, r)]
<1>1. IsJob(job[t]) /\ job[t].at = "look" /\ JobClear(job[t])
  BY DEF ClearInv, IInv, JobSound, Look, At
<1>2. kept \subseteq cache.entries /\ Holding(kept).entries = kept
  BY PrunedIsSubset DEF Holding
<1>3. OnePerKey(kept) /\ (straddled \/ BornNow(kept)) /\ AllSound(kept)
  BY <1>2 DEF ClearInv, OnePerKey, BornNow, IInv, AllSound
<1>4. /\ job[t].since \in Nat /\ job[t].since <= clears
      /\ job[t].since = clears /\ ~straddled => job[t].built = None \/ job[t].built.born = clears
  BY <1>1 DEF JobClear
<1>5. UNCHANGED <<cache, clears, straddled>>
  BY DEF Look
<1>6. ASSUME NEW e \in hits PROVE JobClear(hit(e))
  <2>1. e \in kept /\ IsEntry(e)
    BY <1>3, <1>6 DEF Find, AllSound, SoundEntry
  <2>2. PICK b : b = [e EXCEPT !.used = job[t].now]
    OBVIOUS
  <2>3. b.born = e.born
    BY <2>1, <2>2 DEF IsEntry
  <2>4. hit(e).at = "hit" /\ hit(e).mine = Holding(kept) /\ hit(e).since = job[t].since
        /\ hit(e).built = b
    <3>1. PICK x : x = hit(e)
      OBVIOUS
    <3>2. x.at = "hit" /\ x.mine = Holding(kept) /\ x.since = job[t].since /\ x.built = b
      BY <1>1, <2>2, <3>1 DEF IsJob
    <3>3. QED
      BY <3>1, <3>2
  <2> HIDE DEF hit, kept
  <2>5. ~straddled => b.born = clears
    BY <1>3, <2>1, <2>3 DEF BornNow
  <2>6. QED
    BY <1>2, <1>3, <1>4, <2>4, <2>5 DEF JobClear
<1>7. ASSUME NEW old PROVE JobClear(build(old))
  <2>1. /\ build(old).at = "build" /\ build(old).mine = Holding(kept)
        /\ build(old).since = job[t].since /\ build(old).built = job[t].built
    <3>1. PICK x : x = build(old)
      OBVIOUS
    <3>2. /\ x.at = "build" /\ x.mine = Holding(kept)
          /\ x.since = job[t].since /\ x.built = job[t].built
      BY <1>1, <3>1 DEF IsJob
    <3>3. QED
      BY <3>1, <3>2
  <2> HIDE DEF build, kept
  <2>2. QED
    BY <1>2, <1>3, <1>4, <2>1 DEF JobClear
<1>8. \/ \E e \in hits : job' = [job EXCEPT ![t] = hit(e)]
      \/ \E old \in NewestOf(OfFile(kept, r.file)) : job' = [job EXCEPT ![t] = build(old)]
  BY DEF Look
<1> HIDE DEF hit, build, hits, kept, r
<1>9. QED
  BY <1>5, <1>6, <1>7, <1>8, ReadClear

LEMMA LookOnceClears ==
  ASSUME ClearInv, IInv', NEW t \in Threads, LookOnce(t)
  PROVE  ClearInv'
<1>1. PICK old : job' = [job EXCEPT ![t].at = "build", ![t].old = old]
  BY DEF LookOnce
<1> DEFINE j == [job[t] EXCEPT !.at = "build", !.old = old]
<1>2. IsJob(job[t]) /\ job[t].at = "look" /\ JobClear(job[t])
  BY DEF ClearInv, IInv, JobSound, LookOnce, At
<1>3. j.at = "build" /\ j.mine = job[t].mine /\ j.since = job[t].since /\ j.built = job[t].built
  BY <1>2 DEF IsJob
<1>4. job' = [job EXCEPT ![t] = j] /\ UNCHANGED <<cache, clears, straddled>>
  BY <1>1 DEF LookOnce
<1> HIDE DEF j
<1>5. JobClear(j)
  BY <1>2, <1>3 DEF JobClear
<1>6. QED
  BY <1>4, <1>5, ReadClear

LEMMA BuildClears ==
  ASSUME ClearInv, IInv', NEW t \in Threads, Build(t)
  PROVE  ClearInv'
<1>1. PICK built \in Outcomes(t) :
        job' = [job EXCEPT ![t].at = "write", ![t].built = built, ![t].old = None]
  BY DEF Build
<1> DEFINE j == [job[t] EXCEPT !.at = "write", !.built = built, !.old = None]
<1>2. IsJob(job[t]) /\ job[t].at = "build" /\ JobClear(job[t])
  BY DEF ClearInv, IInv, JobSound, Build, At
<1>3. j.at = "write" /\ j.mine = job[t].mine /\ j.since = job[t].since /\ j.built = built
  BY <1>2 DEF IsJob
<1>4. built = None \/ built.born = clears
  BY <1>1 DEF Outcomes, Snapshot
<1>5. job' = [job EXCEPT ![t] = j] /\ UNCHANGED <<cache, clears, straddled>>
  BY <1>1 DEF Build
<1> HIDE DEF j
<1>6. JobClear(j)
  BY <1>2, <1>3, <1>4 DEF JobClear
<1>7. QED
  BY <1>5, <1>6, ReadClear

LEMMA BuildOnceClears ==
  ASSUME ClearInv, IInv', NEW t \in Threads, BuildOnce(t)
  PROVE  ClearInv'
BY AnsweredClear DEF BuildOnce, ClearInv

\* What is written is what was read, less some, and what was built or found.
LEMMA WriteClears ==
  ASSUME ClearInv, IInv', NEW t \in Threads, WriteHit(t) \/ Write(t)
  PROVE  ClearInv'
<1>1. /\ JobSound(job[t]) /\ JobClear(job[t]) /\ job[t].at \in {"hit", "write"}
      /\ clears \in Nat
  BY DEF ClearInv, IInv, WriteHit, Write, At
<1> DEFINE mine == job[t].mine.entries
           built == job[t].built
<1>2. OnePerKey(mine) /\ AllSound(mine) /\ (built = None \/ SoundEntry(built))
  BY <1>1 DEF JobClear, JobSound
<1>3. straddled' = (straddled \/ job[t].since < clears) /\ clears' = clears
      /\ Answer(t, built)
  BY DEF WriteHit, Write, Straddles
<1> DEFINE late == job[t].since < clears
<1>4. ~late => job[t].since = clears
  BY <1>1 DEF JobClear
<1> HIDE DEF late
<1>5. ~straddled' => /\ BornNow(mine)
                     /\ (built = None /\ job[t].at # "hit") \/ built.born = clears
  <2>1. ~straddled' => ~straddled /\ job[t].since = clears
    BY <1>3, <1>4, Zenon DEF late
  <2>2. QED
    BY <1>1, <2>1, Zenon DEF JobClear
<1>6. \/ cache'.entries \subseteq mine
      \/ /\ SoundEntry(built) /\ (built # None \/ job[t].at = "hit")
         /\ cache'.entries \subseteq Upsert(mine, built)
  <2>1. CASE WriteHit(t)
    <3>1. cache'.entries = Upsert(mine, built)
      BY <1>1, <2>1 DEF WriteHit, JobSound
    <3>2. SoundEntry(built) /\ job[t].at = "hit"
      BY <1>1, <2>1 DEF JobSound, WriteHit, At
    <3>3. QED
      BY <3>1, <3>2
  <2>2. CASE Write(t) /\ built = None
    BY <2>2 DEF Write
  <2>3. CASE Write(t) /\ built # None
    <3>1. cache'.entries = Pruned(Added(job[t].mine, built).entries, clock)
      BY <2>3 DEF Write, Holding
    <3>2. cache'.entries \subseteq Added(job[t].mine, built).entries
      BY <3>1, PrunedIsSubset
    <3>3. Added(job[t].mine, built).entries \in {mine, Upsert(mine, built)}
      BY DEF Added, Holding
    <3>4. QED
      BY <1>2, <2>3, <3>2, <3>3
  <2>4. QED
    BY <2>1, <2>2, <2>3
<1> HIDE DEF mine, built
<1>7. OnePerKey(cache'.entries)
  <2>1. SoundEntry(built) => OnePerKey(Upsert(mine, built))
    BY <1>2, UpsertKeeps
  <2>2. QED
    BY <1>2, <1>6, <2>1 DEF OnePerKey
<1>8. straddled' \/ BornNow(cache'.entries)
  <2>1. SoundEntry(built) /\ BornNow(mine) /\ built.born = clears => BornNow(Upsert(mine, built))
    BY <1>2, UpsertKeeps
  <2>2. QED
    BY <1>5, <1>6, <2>1 DEF BornNow
<1>9. straddled => straddled'
  BY <1>3
<1>10. QED
  BY <1>3, <1>7, <1>8, <1>9, AnsweredClear

LEMMA NextClearInv == ClearInv /\ [Next]_vars => ClearInv'
<1> SUFFICES ASSUME ClearInv, [Next]_vars PROVE ClearInv'
  OBVIOUS
<1>1. IInv'
  BY NextIInv DEF ClearInv
<1>2. CASE UNCHANGED vars \/ Tick
  <2>1. UNCHANGED <<cache, job, clears, straddled>>
    BY <1>2 DEF vars, Tick
  <2>2. QED
    BY <1>1, <2>1 DEF ClearInv, JobClear, OnePerKey, BornNow
<1>3. ASSUME NEW t \in Threads,
             \/ \E kind \in {"cached", "one_shot", "uncached"}, r \in Requests : Ask(t, kind, r)
             \/ AskClear(t) \/ Clear(t) \/ Look(t) \/ LookOnce(t)
             \/ WriteHit(t) \/ Build(t) \/ BuildOnce(t) \/ Write(t)
      PROVE  ClearInv'
  BY <1>1, <1>3, AskClears, AskClearClears, ClearClears, LookClears, LookOnceClears,
     BuildClears, BuildOnceClears, WriteClears
<1>4. QED
  BY <1>2, <1>3 DEF Next

\* However the threads overwrite each other's writes, the cache has one entry for
\* a key (cacheUpsertEntry, InfoTree.lean).
THEOREM OneEntryForAKey == Spec => []OnePerKey(cache.entries)
<1>1. ClearInv => OnePerKey(cache.entries)
  BY DEF ClearInv
<1>2. QED
  BY <1>1, InitClearInv, NextClearInv, PTL DEF Spec

\* A clear that no query straddles leaves nothing from before it, for any threads,
\* limits and times (clearModuleSnapshotCache, child.rs:1099-1114).
THEOREM ClearsHold == Spec => []ClearIsFinal
<1>1. ClearInv => ClearIsFinal
  BY DEF ClearInv, BornNow, ClearIsFinal
<1>2. QED
  BY <1>1, InitClearInv, NextClearInv, PTL DEF Spec

-----------------------------------------------------------------------------
(* The sum of the bytes, and the least and the greatest of the numbers     *)

LEMMA LeastNatural ==
  ASSUME NEW S \in SUBSET Nat, S # {}
  PROVE  \E m \in S : \A k \in S : m <= k
<1> DEFINE T == {1..n : n \in S}
           R == StrictSubsetOrdering(Nat)
<1>1. T \subseteq FiniteSubsetsOf(Nat) /\ T # {}
  <2>1. \A n \in S : 1..n \in FiniteSubsetsOf(Nat)
    BY FS_Interval DEF FiniteSubsetsOf
  <2>2. QED
    BY <2>1
<1>2. PICK x \in T : \A y \in T : ~(<<y, x>> \in R)
  <2>1. IsWellFoundedOn(R, FiniteSubsetsOf(Nat))
    BY FS_StrictSubsetOrderingWellFounded
  <2> HIDE DEF T, R
  <2>2. QED
    BY <1>1, <2>1, WFMin
<1>3. PICK m \in S : x = 1..m
  BY <1>2
<1>4. ASSUME NEW k \in S, k < m PROVE FALSE
  <2>1. 1..k \in T /\ x = 1..m
    BY <1>3
  <2>2. 1..k \in SUBSET Nat /\ 1..m \in SUBSET Nat
    OBVIOUS
  <2>3. 1..k \subseteq 1..m /\ 1..k # 1..m
    <3>1. m \in 1..m /\ m \notin 1..k
      BY <1>4
    <3>2. QED
      BY <1>4, <3>1
  <2>4. <<1..k, 1..m>> \in R
    BY <2>2, <2>3 DEF StrictSubsetOrdering
  <2> HIDE DEF T, R
  <2>5. QED
    BY <1>2, <2>1, <2>4
<1>5. \A k \in S : ~(k < m)
  BY <1>4
<1>6. QED
  BY <1>3, <1>5

LEMMA MinIsLeast ==
  ASSUME NEW S \in SUBSET Nat, S # {}
  PROVE  Min(S) \in S /\ \A k \in S : Min(S) <= k
BY LeastNatural DEF Min

\* Finitely many numbers have a greatest: a least bound is one of them.
LEMMA MaxIsGreatest ==
  ASSUME NEW S \in SUBSET Nat, IsFiniteSet(S), S # {}
  PROVE  Max(S) \in S /\ \A k \in S : k <= Max(S)
<1> DEFINE unbounded(n) == \E T \in SUBSET S : /\ IsFiniteSet(T) /\ Cardinality(T) = n
                                                /\ ~\E b \in Nat : \A k \in T : k <= b
           counts == {n \in Nat : unbounded(n)}
           bounds == {b \in Nat : \A k \in S : k <= b}
<1>1. counts = {}
  <2>1. SUFFICES ASSUME counts # {} PROVE FALSE
    OBVIOUS
  <2>2. PICK n \in counts : \A m \in counts : n <= m
    BY <2>1, LeastNatural
  <2>3. PICK T \in SUBSET S : /\ IsFiniteSet(T) /\ Cardinality(T) = n
                              /\ ~\E b \in Nat : \A k \in T : k <= b
    BY <2>2
  <2>4. PICK x \in T : TRUE
    BY <2>3
  <2>5. IsFiniteSet(T \ {x}) /\ Cardinality(T \ {x}) = n - 1 /\ T \ {x} \in SUBSET S
        /\ n \in Nat /\ x \in Nat
    BY <2>3, <2>4, FS_RemoveElement
  <2>6. n - 1 \in Nat
    BY <2>5, FS_CardinalityType
  <2>7. n - 1 \notin counts
    BY <2>2, <2>5, <2>6
  <2>8. PICK b \in Nat : \A k \in T \ {x} : k <= b
    BY <2>5, <2>6, <2>7
  <2>9. \A k \in T : k <= b + x
    <3>1. \A k \in T : k \in Nat /\ (k = x \/ k <= b)
      BY <2>8
    <3>2. QED
      BY <2>5, <2>8, <3>1
  <2>10. b + x \in Nat
    BY <2>5, <2>8
  <2>11. QED
    BY <2>3, <2>9, <2>10
<1>2. Cardinality(S) \in Nat /\ S \in SUBSET S
  BY FS_CardinalityType
<1>3. bounds # {}
  BY <1>1, <1>2
<1>4. PICK b \in bounds : \A c \in bounds : b <= c
  BY <1>3, LeastNatural
<1>5. b \in S
  <2>1. SUFFICES ASSUME b \notin S PROVE FALSE
    OBVIOUS
  <2>2. \A k \in S : k < b
    <3>1. \A k \in S : k \in Nat /\ k <= b /\ k # b /\ b \in Nat
      BY <1>4, <2>1
    <3>2. QED
      BY <3>1
  <2>3. b - 1 \in Nat /\ b \in Nat
    <3>1. PICK k \in S : TRUE
      OBVIOUS
    <3>2. QED
      BY <1>4, <2>2, <3>1
  <2>4. b - 1 \in bounds
    BY <2>2, <2>3
  <2>5. QED
    BY <1>4, <2>3, <2>4
<1>6. \E m \in S : \A k \in S : m >= k
  BY <1>4, <1>5
<1>7. Max(S) \in S /\ \A k \in S : Max(S) >= k
  BY <1>6 DEF Max
<1>8. QED
  BY <1>7

LEMMA UpTo ==
  ASSUME NEW n \in Nat
  PROVE  IsFiniteSet(1 .. n) /\ Cardinality(1 .. n) = n
<1>1. 1 \in Int /\ n \in Int
  OBVIOUS
<1>2. IsFiniteSet(1 .. n) /\ Cardinality(1 .. n) = IF 1 > n THEN 0 ELSE n - 1 + 1
  BY <1>1, FS_Interval, Zenon
<1>3. QED
  BY <1>2

\* What an entry takes, unit by unit, told apart from what the others take.
Units(S) == UNION {{e} \X (1 .. e.bytes) : e \in S}
Sized(S) == IsFiniteSet(S) /\ \A e \in S : e.bytes \in Nat

LEMMA UnitsAdd ==
  ASSUME NEW S, Sized(S), NEW x \in S
  PROVE  /\ Sized(S \ {x}) /\ IsFiniteSet(Units(S)) /\ IsFiniteSet(Units(S \ {x}))
         /\ Cardinality(Units(S)) = x.bytes + Cardinality(Units(S \ {x}))
<1>1. Sized(S \ {x})
  BY FS_RemoveElement DEF Sized
<1>2. \A T : Sized(T) => IsFiniteSet(Units(T))
  <2>1. SUFFICES ASSUME NEW T, Sized(T) PROVE IsFiniteSet(Units(T))
    OBVIOUS
  <2> DEFINE parts == {{e} \X (1 .. e.bytes) : e \in T}
  <2>2. IsFiniteSet(parts)
    <3> DEFINE f == [e \in T |-> {e} \X (1 .. e.bytes)]
    <3>1. f \in Surjection(T, parts)
      BY DEF Surjection
    <3> HIDE DEF f, parts
    <3>2. QED
      BY <2>1, <3>1, FS_Surjection DEF Sized
  <2>3. \A p \in parts : IsFiniteSet(p)
    <3>1. SUFFICES ASSUME NEW e \in T PROVE IsFiniteSet({e} \X (1 .. e.bytes))
      OBVIOUS
    <3>2. IsFiniteSet({e}) /\ IsFiniteSet(1 .. e.bytes)
      BY <2>1, FS_Singleton, UpTo DEF Sized
    <3>3. QED
      BY <3>2, FS_Product
  <2>4. IsFiniteSet(UNION parts)
    <3> HIDE DEF parts
    <3>1. QED
      BY <2>2, <2>3, FS_UNION
  <2>5. QED
    BY <2>4 DEF Units
<1> DEFINE own == {x} \X (1 .. x.bytes)
           rest == Units(S \ {x})
<1>3. Units(S) = own \cup rest
  BY DEF Units
<1>4. own \cap rest = {}
  BY DEF Units
<1>5. IsFiniteSet(own) /\ Cardinality(own) = x.bytes
  <2>1. x.bytes \in Nat
    BY DEF Sized
  <2>2. IsFiniteSet({x}) /\ Cardinality({x}) = 1
    BY FS_Singleton
  <2>3. IsFiniteSet(1 .. x.bytes) /\ Cardinality(1 .. x.bytes) = x.bytes
    BY <2>1, UpTo
  <2>4. IsFiniteSet(own) /\ Cardinality(own) = 1 * x.bytes
    BY <2>2, <2>3, FS_Product, Zenon
  <2>5. QED
    BY <2>1, <2>4
<1>6. IsFiniteSet(rest)
  BY <1>1, <1>2
<1>7. Cardinality(Units(S)) = Cardinality(own) + Cardinality(rest) - Cardinality({})
  <2> HIDE DEF own, rest
  <2>1. QED
    BY <1>3, <1>4, <1>5, <1>6, FS_Union
<1>8. Cardinality({}) = 0 /\ Cardinality(rest) \in Nat /\ x.bytes \in Nat
  BY <1>6, FS_EmptySet, FS_CardinalityType DEF Sized
<1>9. QED
  BY <1>1, <1>2, <1>5, <1>6, <1>7, <1>8

\* The sum does not depend on the order the entries are taken in: it is the
\* number of units.
LEMMA SumIsUnits ==
  ASSUME NEW S, Sized(S)
  PROVE  SumOfBytes(S) = Cardinality(Units(S)) /\ SumOfBytes(S) \in Nat
<1> DEFINE first(s) == CHOOSE x \in s : TRUE
           IsSum(f) == f = [s \in SUBSET S |->
                              IF s = {} THEN 0 ELSE first(s).bytes + f[s \ {first(s)}]]
           count == [s \in SUBSET S |-> Cardinality(Units(s))]
           sum == CHOOSE f : IsSum(f)
<1>1. SumOfBytes(S) = sum[S]
  BY DEF SumOfBytes, MapThenSumSet, MapThenFoldSet
<1>2. \A s \in SUBSET S : Sized(s)
  BY FS_Subset DEF Sized
<1>3. \A s \in SUBSET S : s # {} => first(s) \in s
  OBVIOUS
<1>4. Units({}) = {} /\ Cardinality(Units({})) = 0
  BY FS_EmptySet DEF Units
<1>5. IsSum(count)
  <2>1. ASSUME NEW s \in SUBSET S
        PROVE  count[s] = IF s = {} THEN 0 ELSE first(s).bytes + count[s \ {first(s)}]
    <3>1. CASE s = {}
      BY <1>4, <3>1
    <3>2. CASE s # {}
      <4>1. first(s) \in s /\ Sized(s) /\ s \ {first(s)} \in SUBSET S
        BY <1>2, <1>3, <3>2
      <4> HIDE DEF first
      <4>2. Cardinality(Units(s)) = first(s).bytes + Cardinality(Units(s \ {first(s)}))
        BY <4>1, UnitsAdd
      <4>3. QED
        BY <3>2, <4>1, <4>2
    <3>3. QED
      BY <3>1, <3>2
  <2> HIDE DEF first
  <2>2. QED
    BY <2>1
<1>6. IsSum(sum)
  <2> HIDE DEF IsSum, count
  <2>1. QED
    BY <1>5
<1> HIDE DEF sum
<1>7. \A s \in SUBSET S : sum[s] = IF s = {} THEN 0 ELSE first(s).bytes + sum[s \ {first(s)}]
  <2> HIDE DEF first
  <2>1. QED
    BY <1>6
<1> DEFINE wrong == {s \in SUBSET S : sum[s] # Cardinality(Units(s))}
           sizes == {Cardinality(s) : s \in wrong}
<1> HIDE DEF first
<1>8. wrong = {}
  <2>1. SUFFICES ASSUME wrong # {} PROVE FALSE
    OBVIOUS
  <2>2. sizes \in SUBSET Nat /\ sizes # {}
    <3>1. \A s \in SUBSET S : Cardinality(s) \in Nat
      BY <1>2, FS_CardinalityType DEF Sized
    <3>2. QED
      BY <2>1, <3>1
  <2>3. PICK n \in sizes : \A m \in sizes : n <= m
    BY <2>2, LeastNatural
  <2>4. PICK s \in wrong : Cardinality(s) = n
    BY <2>3
  <2>5. s \in SUBSET S /\ s # {} /\ Sized(s)
    BY <1>2, <1>4, <1>7, <2>4
  <2> DEFINE x == first(s)
  <2>6. x \in s
    BY <1>3, <2>5
  <2> HIDE DEF x
  <2>7. Cardinality(s \ {x}) = n - 1 /\ n \in Nat
    BY <2>2, <2>4, <2>5, <2>6, FS_RemoveElement DEF Sized
  <2>8. s \ {x} \in SUBSET S /\ s \ {x} \notin wrong
    <3>1. s \ {x} \in wrong => Cardinality(s \ {x}) \in sizes
      OBVIOUS
    <3>2. QED
      BY <2>3, <2>5, <2>7, <3>1
  <2>9. sum[s \ {x}] = Cardinality(Units(s \ {x}))
    BY <2>8
  <2>10. sum[s] = x.bytes + sum[s \ {x}]
    BY <1>7, <2>5 DEF x
  <2>11. Cardinality(Units(s)) = x.bytes + Cardinality(Units(s \ {x}))
    BY <2>5, <2>6, UnitsAdd
  <2>12. QED
    BY <2>4, <2>9, <2>10, <2>11
<1>9. sum[S] = Cardinality(Units(S))
  BY <1>8
<1>10. Cardinality(Units(S)) \in Nat
  <2>1. CASE S = {}
    BY <1>4, <2>1
  <2>2. CASE S # {}
    <3>1. PICK x \in S : TRUE
      BY <2>2
    <3>2. QED
      BY <3>1, UnitsAdd, FS_CardinalityType
  <2>3. QED
    BY <2>1, <2>2
<1>11. QED
  BY <1>1, <1>9, <1>10

LEMMA SumOfNone == SumOfBytes({}) = 0
<1>1. Sized({}) /\ Cardinality(Units({})) = 0
  BY FS_EmptySet DEF Sized, Units
<1>2. QED
  BY <1>1, SumIsUnits

LEMMA SumWithout ==
  ASSUME NEW S, Sized(S), NEW x \in S
  PROVE  /\ Sized(S \ {x}) /\ SumOfBytes(S \ {x}) \in Nat
         /\ SumOfBytes(S) = x.bytes + SumOfBytes(S \ {x})
BY UnitsAdd, SumIsUnits

\* Fewer entries take no more.
LEMMA SumOfFewer ==
  ASSUME NEW S, Sized(S), NEW T \in SUBSET S
  PROVE  Sized(T) /\ SumOfBytes(T) <= SumOfBytes(S)
<1>1. Sized(T)
  BY FS_Subset DEF Sized
<1>2. Units(T) \in SUBSET Units(S)
  BY DEF Units
<1>3. IsFiniteSet(Units(S))
  <2>1. CASE S = {}
    BY <2>1, FS_EmptySet DEF Units
  <2>2. CASE S # {}
    BY <2>2, UnitsAdd
  <2>3. QED
    BY <2>1, <2>2
<1>4. Cardinality(Units(T)) <= Cardinality(Units(S))
  BY <1>2, <1>3, FS_Subset
<1>5. QED
  BY <1>1, <1>4, SumIsUnits
-----------------------------------------------------------------------------
(* Sets of entries within the limits                                       *)

IsEntryOf(e) == IsSnapshot(e) /\ e.bytes = Size[e.src]
Placed(S) == \A e, f \in S : e.pos = f.pos => e = f

\* Finitely many entries of the size of their source, each at a place of its own.
Proper(S) == IsFiniteSet(S) /\ Placed(S) /\ \A e \in S : IsEntryOf(e)

Limited(c) == c = Holding(c.entries) /\ Proper(c.entries) /\ Fits(c.entries)

\* A thread holds a cache within the limits, and on a hit the entry it found in it.
JobLimited(j) ==
  /\ Limited(j.mine) /\ j.now \in 0 .. MaxTime
  /\ j.at \in {"idle", "clear", "look", "hit", "build", "write"}
  /\ j.req \in Requests \cup {None} /\ j.status \in {None, "hit", "rebuilt", "evicted", "miss"}
  /\ j.old = None \/ IsEntryOf(j.old)
  /\ j.built = None \/ IsEntryOf(j.built)
  /\ j.at = "hit" => IsEntryOf(j.built) /\ \E e \in j.mine.entries : e.key = j.built.key

AnswerTyped(a) ==
  a.req \in Requests \cup {None} /\ a.status \in {None, "hit", "rebuilt", "evicted", "miss"}

LimitInv ==
  /\ ClearInv /\ Limited(cache) /\ clock \in 0 .. MaxTime
  /\ \A t \in Threads : JobLimited(job[t]) /\ AnswerTyped(answer[t])
  /\ asks \in 0 .. MaxAsks /\ clears \in 0 .. MaxClears /\ straddled \in BOOLEAN

LEMMA ProperIsSized == ASSUME NEW S, Proper(S) PROVE Sized(S)
BY DEF Proper, IsEntryOf, IsSnapshot, Sized

LEMMA ProperSubset ==
  ASSUME NEW S, Proper(S), NEW T \in SUBSET S
  PROVE  Proper(T) /\ (Fits(S) => Fits(T))
<1>1. Proper(T)
  BY FS_Subset DEF Proper, Placed
<1>2. SumOfBytes(T) <= SumOfBytes(S) /\ SumOfBytes(T) \in Nat /\ SumOfBytes(S) \in Nat
  BY <1>1, ProperIsSized, SumOfFewer, SumIsUnits
<1>3. Cardinality(T) <= Cardinality(S) /\ Cardinality(T) \in Nat /\ Cardinality(S) \in Nat
  BY <1>1, FS_Subset, FS_CardinalityType DEF Proper
<1>4. AtLeastOne(MaxEntries) \in Nat /\ AtLeastOne(MaxBytes) \in Nat
  BY CacheAssumption DEF AtLeastOne
<1>5. QED
  BY <1>1, <1>2, <1>3, <1>4 DEF Fits

LEMMA NoneIsProper == Proper({}) /\ Fits({}) /\ Limited(Empty)
<1>1. Proper({})
  BY FS_EmptySet DEF Proper, Placed
<1>2. AtLeastOne(MaxEntries) >= 0 /\ AtLeastOne(MaxBytes) >= 0
  BY CacheAssumption DEF AtLeastOne
<1>3. Fits({})
  BY <1>2, SumOfNone, FS_EmptySet DEF Fits
<1>4. QED
  BY <1>1, <1>3 DEF Limited, Empty, Holding

LEMMA HoldingIsLimited ==
  ASSUME NEW S, Proper(S), Fits(S)
  PROVE  Limited(Holding(S)) /\ Holding(S).entries = S
BY DEF Limited, Holding

\* The order of leaving is a strict total order of the entries.
LEMMA BeforeIsOrder ==
  ASSUME NEW S, Proper(S), NEW e \in S, NEW f \in S
  PROVE  /\ ~Before(e, e)
         /\ e # f => Before(e, f) \/ Before(f, e)
         /\ \A g \in S : Before(g, e) /\ Before(e, f) => Before(g, f)
<1>1. \A g \in S : g.used \in Nat /\ g.pos \in Nat
  BY CacheAssumption DEF Proper, IsEntryOf, IsSnapshot
<1>2. e.pos = f.pos => e = f
  BY DEF Proper, Placed
<1>3. QED
  BY <1>1, <1>2 DEF Before

Older(S, e) == {f \in S : Before(f, e)}

LEMMA OlderCount ==
  ASSUME NEW S, Proper(S), NEW e \in S
  PROVE  /\ IsFiniteSet(Older(S, e)) /\ Cardinality(Older(S, e)) \in Nat
         /\ Cardinality(S) \in Nat /\ Cardinality(Older(S, e)) < Cardinality(S)
         /\ \A f \in S : Before(e, f) => Cardinality(Older(S, e)) < Cardinality(Older(S, f))
<1>1. \A f \in S : /\ IsFiniteSet(Older(S, f)) /\ Cardinality(Older(S, f)) \in Nat
  BY FS_Subset, FS_CardinalityType DEF Proper, Older
<1>2. e \notin Older(S, e) /\ Older(S, e) \in SUBSET S
  BY BeforeIsOrder DEF Older
<1>3. IsFiniteSet(S) /\ Cardinality(S) \in Nat
  BY FS_CardinalityType DEF Proper
<1>4. Cardinality(Older(S, e) \cup {e}) = Cardinality(Older(S, e)) + 1
  BY <1>1, <1>2, FS_AddElement
<1>5. Cardinality(Older(S, e) \cup {e}) <= Cardinality(S)
  BY <1>2, <1>3, FS_Subset
<1>6. ASSUME NEW f \in S, Before(e, f)
      PROVE  Cardinality(Older(S, e)) < Cardinality(Older(S, f))
  <2>1. Older(S, e) \cup {e} \in SUBSET Older(S, f)
    BY <1>6, BeforeIsOrder DEF Older
  <2>2. Cardinality(Older(S, e) \cup {e}) <= Cardinality(Older(S, f))
    BY <1>1, <2>1, FS_Subset
  <2>3. QED
    BY <1>1, <1>4, <2>2
<1>7. QED
  BY <1>1, <1>3, <1>4, <1>5, <1>6

LEMMA WithoutIs ==
  ASSUME NEW S, Proper(S)
  PROVE  /\ Without(S, 0) = S /\ Without(S, Cardinality(S)) = {}
         /\ \A n : Without(S, n) \in SUBSET S
         /\ \A n : Without(S, n) = {e \in S : Cardinality(Older(S, e)) >= n}
<1>1. \A n : Without(S, n) = {e \in S : Cardinality(Older(S, e)) >= n}
  BY DEF Without, Older
<1>2. \A e \in S : Cardinality(Older(S, e)) \in Nat /\ Cardinality(S) \in Nat
                   /\ Cardinality(Older(S, e)) < Cardinality(S)
  BY OlderCount
<1>3. \A e \in S : Cardinality(Older(S, e)) >= 0 /\ ~(Cardinality(Older(S, e)) >= Cardinality(S))
  BY <1>2
<1>4. QED
  BY <1>1, <1>3

\* The limits take the least number of entries away that makes the rest fit.
LEMMA LimitsTakeFewest ==
  ASSUME NEW S, Proper(S)
  PROVE  \E n \in 0 .. Cardinality(S) :
           /\ WithinLimits(S) = Without(S, n) /\ Fits(Without(S, n))
           /\ \A k \in 0 .. Cardinality(S) : Fits(Without(S, k)) => n <= k
<1> DEFINE enough == {n \in 0 .. Cardinality(S) : Fits(Without(S, n))}
<1>1. Cardinality(S) \in Nat
  BY FS_CardinalityType DEF Proper
<1>2. Cardinality(S) \in enough
  BY <1>1, WithoutIs, NoneIsProper
<1>3. enough \in SUBSET Nat /\ enough # {}
  BY <1>1, <1>2
<1>4. PICK n : n = Min(enough)
  OBVIOUS
<1>5. n \in enough /\ \A k \in enough : n <= k
  <2> HIDE DEF enough
  <2>1. QED
    BY <1>3, <1>4, MinIsLeast
<1>6. WithinLimits(S) = Without(S, n)
  BY <1>4 DEF WithinLimits
<1>7. QED
  BY <1>5, <1>6

LEMMA LimitsHold ==
  ASSUME NEW S, Proper(S)
  PROVE  WithinLimits(S) \in SUBSET S /\ Proper(WithinLimits(S)) /\ Fits(WithinLimits(S))
<1>1. Fits(WithinLimits(S)) /\ WithinLimits(S) \in SUBSET S
  BY LimitsTakeFewest, WithoutIs
<1>2. QED
  BY <1>1, ProperSubset

LEMMA PrunedHolds ==
  ASSUME NEW S, Proper(S), NEW now
  PROVE  Pruned(S, now) \in SUBSET S /\ Proper(Pruned(S, now)) /\ Fits(Pruned(S, now))
<1>1. Unexpired(S, now) \in SUBSET S
  BY DEF Unexpired
<1>2. Proper(Unexpired(S, now))
  BY <1>1, ProperSubset
<1>3. QED
  BY <1>1, <1>2, LimitsHold DEF Pruned

\* The limits take the oldest, and the last they take did not fit beside the rest.
LEMMA LimitsTakeOldest ==
  ASSUME NEW S, Proper(S), NEW gone, gone = S \ WithinLimits(S), gone # {}
  PROVE  /\ \E f \in gone : ~Fits(WithinLimits(S) \cup {f})
         /\ \A f \in gone, e \in WithinLimits(S) : f.used <= e.used
<1>1. PICK n \in 0 .. Cardinality(S) :
           /\ WithinLimits(S) = Without(S, n) /\ Fits(Without(S, n))
           /\ \A k \in 0 .. Cardinality(S) : Fits(Without(S, k)) => n <= k
  BY LimitsTakeFewest
<1> DEFINE rank(e) == Cardinality(Older(S, e))
<1>2. \A e \in S : rank(e) \in Nat
  BY OlderCount
<1>3. \A e, f \in S : Before(e, f) => rank(e) < rank(f)
  BY OlderCount
<1>4. Cardinality(S) \in Nat /\ n \in Nat /\ n # 0
  <2>1. n # 0
    BY <1>1, WithoutIs
  <2>2. Cardinality(S) \in Nat
    BY FS_CardinalityType DEF Proper
  <2>3. QED
    BY <2>1, <2>2
<1>5. n - 1 \in 0 .. Cardinality(S) /\ ~(n <= n - 1)
  BY <1>4
<1>6. ~Fits(Without(S, n - 1))
  BY <1>1, <1>5
<1>7. \A k : Without(S, k) = {e \in S : rank(e) >= k}
  BY WithoutIs
<1>8. ASSUME NEW f \in S, f \notin Without(S, n), NEW e \in Without(S, n)
      PROVE  f.used <= e.used
  <2>1. e \in S /\ rank(e) >= n /\ ~(rank(f) >= n) /\ rank(e) \in Nat /\ rank(f) \in Nat
    BY <1>2, <1>7, <1>8
  <2>2. ~(rank(e) < rank(f))
    <3> HIDE DEF rank
    <3>1. QED
      BY <1>4, <2>1
  <2>3. ~Before(e, f)
    BY <1>3, <2>1, <2>2
  <2>4. e.used \in Nat /\ f.used \in Nat
    BY <2>1, CacheAssumption DEF Proper, IsEntryOf, IsSnapshot
  <2>5. QED
    BY <2>3, <2>4 DEF Before
<1>9. PICK f \in S : f \in Without(S, n - 1) /\ f \notin Without(S, n)
  <2>1. Without(S, n) \subseteq Without(S, n - 1)
    <3>1. \A e \in S : rank(e) >= n => rank(e) >= n - 1
      <4> HIDE DEF rank
      <4>1. QED
        BY <1>2, <1>4
    <3>2. QED
      BY <1>7, <3>1
  <2>2. Without(S, n) # Without(S, n - 1)
    BY <1>1, <1>6
  <2>3. QED
    BY <1>7, <2>1, <2>2
<1>10. Without(S, n - 1) = Without(S, n) \cup {f}
  <2>1. rank(f) = n - 1
    <3>1. rank(f) >= n - 1 /\ ~(rank(f) >= n) /\ rank(f) \in Nat
      BY <1>2, <1>7, <1>9
    <3> HIDE DEF rank
    <3>2. QED
      BY <1>4, <3>1
  <2>2. ASSUME NEW g \in S, rank(g) = n - 1 PROVE g = f
    <3>1. ~(rank(f) < rank(g)) /\ ~(rank(g) < rank(f))
      <4> HIDE DEF rank
      <4>1. QED
        BY <1>4, <2>1, <2>2
    <3>2. ~Before(f, g) /\ ~Before(g, f)
      BY <1>3, <3>1
    <3>3. QED
      BY <3>2, BeforeIsOrder
  <2>3. \A g \in S : rank(g) >= n - 1 <=> rank(g) >= n \/ rank(g) = n - 1
    <3> HIDE DEF rank
    <3>1. QED
      BY <1>2, <1>4
  <2>4. QED
    BY <1>7, <2>1, <2>2, <2>3
<1>11. f \in gone
  BY <1>1, <1>9
<1>12. QED
  BY <1>1, <1>6, <1>8, <1>10, <1>11
-----------------------------------------------------------------------------
(* Putting a snapshot in                                                   *)

\* A snapshot put in takes the place after those of all others.
LEMMA UpsertIs ==
  ASSUME NEW S, Proper(S), NEW e, IsEntry(e), IsEntryOf(e)
  PROVE  \E put : /\ Upsert(S, e) = (S \ Find(S, e.key)) \cup {put}
                  /\ put.key = e.key /\ put.bytes = e.bytes /\ IsEntryOf(put)
                  /\ \A f \in S \ Find(S, e.key) : f.pos # put.pos
<1> DEFINE others == S \ Find(S, e.key)
           places == {0} \cup {f.pos : f \in others}
<1>1. IsFiniteSet(others) /\ \A f \in others : f.pos \in Nat
  BY FS_Difference DEF Proper, IsEntryOf, IsSnapshot
<1>2. places \in SUBSET Nat /\ places # {}
  BY <1>1
<1>3. IsFiniteSet(places)
  <2> DEFINE at == [f \in others |-> f.pos]
             taken == {f.pos : f \in others}
  <2>1. at \in Surjection(others, taken)
    BY DEF Surjection
  <2>2. IsFiniteSet(taken)
    <3> HIDE DEF at, taken, others
    <3>1. QED
      BY <1>1, <2>1, FS_Surjection
  <2>3. IsFiniteSet({0})
    BY FS_Singleton
  <2>4. places = {0} \cup taken
    OBVIOUS
  <2> HIDE DEF places, taken
  <2>5. QED
    BY <2>2, <2>3, <2>4, FS_Union
<1>4. PICK m : m = Max(places)
  OBVIOUS
<1>5. m \in places /\ \A k \in places : k <= m
  <2> HIDE DEF places
  <2>1. QED
    BY <1>2, <1>3, <1>4, MaxIsGreatest
<1>6. m \in Nat /\ \A f \in others : f.pos \in Nat /\ f.pos <= m
  BY <1>1, <1>2, <1>5
<1>7. PICK put : put = [e EXCEPT !.pos = 1 + m]
  OBVIOUS
<1>8. Upsert(S, e) = others \cup {put}
  BY <1>4, <1>7 DEF Upsert
<1>9. /\ put.key = e.key /\ put.bytes = e.bytes /\ put.pos = 1 + m
      /\ put.file = e.file /\ put.src = e.src /\ put.opts = e.opts /\ put.base = e.base
      /\ put.missing = e.missing /\ put.chain = e.chain
      /\ put.used = e.used /\ put.born = e.born
  BY <1>7 DEF IsEntry
<1>10. 1 + m \in Nat /\ \A f \in others : f.pos # 1 + m
  BY <1>6
<1>11. IsEntryOf(put)
  BY <1>9, <1>10 DEF IsEntryOf, IsSnapshot
<1>12. QED
  BY <1>8, <1>9, <1>10, <1>11

LEMMA UpsertIsProper ==
  ASSUME NEW S, Proper(S), NEW e, IsEntry(e), IsEntryOf(e)
  PROVE  Proper(Upsert(S, e))
<1> DEFINE others == S \ Find(S, e.key)
<1>1. PICK put : /\ Upsert(S, e) = others \cup {put}
                 /\ put.key = e.key /\ put.bytes = e.bytes /\ IsEntryOf(put)
                 /\ \A f \in others : f.pos # put.pos
  BY UpsertIs
<1>2. others \in SUBSET S
  OBVIOUS
<1>3. Proper(others)
  BY <1>2, ProperSubset
<1> HIDE DEF others
<1>4. IsFiniteSet(others \cup {put})
  BY <1>3, FS_AddElement DEF Proper
<1>5. Placed(others \cup {put})
  BY <1>1, <1>3 DEF Proper, Placed
<1>6. QED
  BY <1>1, <1>3, <1>4, <1>5 DEF Proper

\* The entry of the same key makes room for as many bytes as are put in.
LEMMA UpsertReplaces ==
  ASSUME NEW S, Proper(S), OnePerKey(S), AllSound(S), Fits(S),
         NEW e, SoundEntry(e), IsEntryOf(e), \E f \in S : f.key = e.key
  PROVE  Fits(Upsert(S, e)) /\ SumOfBytes(Upsert(S, e)) = SumOfBytes(S)
<1> DEFINE others == S \ Find(S, e.key)
           new == Upsert(S, e)
<1>1. PICK put : /\ new = others \cup {put}
                 /\ put.key = e.key /\ put.bytes = e.bytes /\ IsEntryOf(put)
                 /\ \A f \in others : f.pos # put.pos
  BY UpsertIs DEF SoundEntry
<1>2. PICK f \in S : f.key = e.key
  OBVIOUS
<1>3. Find(S, e.key) = {f}
  BY <1>2 DEF Find, OnePerKey
<1>4. others = S \ {f}
  BY <1>3
<1>5. put \notin others
  BY <1>1 DEF Find
<1>6. e.src = f.src
  <2>1. SoundEntry(f)
    BY <1>2 DEF AllSound
  <2>2. PICK q \in Requests : MadeFor(e, q)
    BY DEF SoundEntry
  <2>3. PICK r \in Requests : MadeFor(f, r)
    BY <2>1 DEF SoundEntry
  <2>4. KeyOf(q) = KeyOf(r)
    BY <1>2, <2>2, <2>3 DEF MadeFor
  <2>5. q.src = r.src
    BY <2>4 DEF KeyOf
  <2>6. QED
    BY <2>2, <2>3, <2>5 DEF MadeFor, AsIfFresh
<1>7. put.bytes = f.bytes /\ f.bytes \in Nat
  BY <1>1, <1>2, <1>6 DEF Proper, IsEntryOf, IsSnapshot
<1>8. Sized(new) /\ Proper(new) /\ Sized(S)
  BY UpsertIsProper, ProperIsSized DEF SoundEntry
<1>9. SumOfBytes(S) = f.bytes + SumOfBytes(others)
  BY <1>2, <1>4, <1>8, SumWithout
<1>10. SumOfBytes(new) = put.bytes + SumOfBytes(others)
  <2>1. put \in new /\ new \ {put} = others
    BY <1>1, <1>5
  <2> HIDE DEF new, others
  <2>2. QED
    BY <1>8, <2>1, SumWithout
<1>11. Cardinality(new) = Cardinality(S)
  <2>1. IsFiniteSet(S) /\ IsFiniteSet(others) /\ Cardinality(others) = Cardinality(S) - 1
    BY <1>2, <1>4, FS_RemoveElement DEF Proper
  <2>2. Cardinality(S) \in Nat
    BY <2>1, FS_CardinalityType
  <2>3. Cardinality(others \cup {put}) = Cardinality(others) + 1
    <3> HIDE DEF others
    <3>1. QED
      BY <1>5, <2>1, FS_AddElement
  <2>4. QED
    BY <1>1, <2>1, <2>2, <2>3
<1>12. SumOfBytes(new) = SumOfBytes(S)
  BY <1>7, <1>9, <1>10
<1> HIDE DEF new
<1>13. Fits(new)
  BY <1>11, <1>12 DEF Fits
<1>14. QED
  BY <1>12, <1>13 DEF new
-----------------------------------------------------------------------------
(* The invariant of the limits                                             *)

LEMMA NoJobLimited == JobLimited(NoJob) /\ AnswerTyped(NoAnswer)
<1>1. /\ NoJob.mine = Empty /\ NoJob.now = 0 /\ NoJob.at = "idle" /\ NoJob.req = None
      /\ NoJob.status = None /\ NoJob.old = None /\ NoJob.built = None
  BY DEF NoJob
<1>2. 0 \in 0 .. MaxTime
  BY CacheAssumption
<1>3. JobLimited(NoJob)
  BY <1>1, <1>2, NoneIsProper DEF JobLimited
<1>4. QED
  BY <1>3 DEF AnswerTyped, NoAnswer

LEMMA InitLimitInv == Init => LimitInv
<1> SUFFICES ASSUME Init PROVE LimitInv
  OBVIOUS
<1>1. ClearInv
  BY InitClearInv
<1>2. Limited(cache)
  BY NoneIsProper DEF Init
<1>3. \A t \in Threads : JobLimited(job[t]) /\ AnswerTyped(answer[t])
  BY NoJobLimited DEF Init
<1>4. 0 \in 0 .. MaxTime /\ 0 \in 0 .. MaxAsks /\ 0 \in 0 .. MaxClears
  BY CacheAssumption
<1>5. QED
  BY <1>1, <1>2, <1>3, <1>4, InitClearInv DEF Init, LimitInv

\* A step of one thread at most.
LEMMA OneThreadLimited ==
  ASSUME LimitInv, ClearInv', NEW t \in Threads,
         \A u \in Threads \ {t} : job'[u] = job[u] /\ answer'[u] = answer[u],
         JobLimited(job'[t]), AnswerTyped(answer'[t]), Limited(cache'),
         clock' \in 0 .. MaxTime, asks' \in 0 .. MaxAsks, clears' \in 0 .. MaxClears,
         straddled' \in BOOLEAN
  PROVE  LimitInv'
<1>1. \A u \in Threads : JobLimited(job'[u]) /\ AnswerTyped(answer'[u])
  BY DEF LimitInv
<1>2. QED
  BY <1>1 DEF LimitInv

\* A thread that answers holds the empty cache again.
LEMMA AnsweredLimited ==
  ASSUME LimitInv, ClearInv', NEW t \in Threads, NEW built, Answer(t, built), Limited(cache'),
         UNCHANGED <<clock, asks, clears>>, straddled' \in BOOLEAN
  PROVE  LimitInv'
<1>1. \A u \in Threads : job'[u] = IF u = t THEN NoJob ELSE job[u]
  BY DEF LimitInv, ClearInv, IInv, Answer
<1>2. \A u \in Threads :
        answer'[u] = IF u = t THEN [req |-> job[t].req, built |-> built, status |-> job[t].status]
                     ELSE answer[u]
  BY DEF LimitInv, ClearInv, IInv, Answer
<1>3. JobLimited(job[t])
  BY DEF LimitInv
<1>4. AnswerTyped(answer'[t])
  BY <1>2, <1>3 DEF JobLimited, AnswerTyped
<1>5. JobLimited(job'[t])
  BY <1>1, NoJobLimited
<1>6. QED
  BY <1>1, <1>2, <1>4, <1>5, OneThreadLimited DEF LimitInv

\* A thread that goes on with a job within the limits, and answers nothing new.
LEMMA GoesOnLimited ==
  ASSUME LimitInv, ClearInv', NEW t \in Threads, NEW j, job' = [job EXCEPT ![t] = j],
         JobLimited(j), answer' = answer \/ answer' = [answer EXCEPT ![t] = NoAnswer],
         asks' \in 0 .. MaxAsks, UNCHANGED <<cache, clock, clears, straddled>>
  PROVE  LimitInv'
<1>1. \A u \in Threads : job'[u] = IF u = t THEN j ELSE job[u]
  BY DEF LimitInv, ClearInv, IInv
<1>2. \A u \in Threads : answer'[u] = answer[u] \/ (u = t /\ answer'[u] = NoAnswer)
  BY DEF LimitInv, ClearInv, IInv
<1>3. JobLimited(job'[t]) /\ AnswerTyped(answer'[t])
  BY <1>1, <1>2, NoJobLimited DEF LimitInv
<1>4. Limited(cache')
  BY DEF LimitInv
<1>5. QED
  BY <1>1, <1>2, <1>3, <1>4, OneThreadLimited DEF LimitInv

LEMMA AskLimited ==
  ASSUME LimitInv, ClearInv', NEW t \in Threads, NEW kind, NEW r \in Requests, Ask(t, kind, r)
  PROVE  LimitInv'
<1> DEFINE asked == [NoJob EXCEPT !.at = IF kind = "uncached" THEN "build" ELSE "look",
                                  !.kind = kind, !.req = r, !.now = clock, !.since = clears]
           cleared == [NoJob EXCEPT !.at = "clear", !.kind = kind, !.req = r]
<1>1. /\ asked.mine = Empty /\ asked.built = None /\ asked.old = None /\ asked.now = clock
      /\ asked.at \in {"build", "look"} /\ asked.req = r /\ asked.status = None
  BY DEF NoJob
<1>2. /\ cleared.mine = Empty /\ cleared.built = None /\ cleared.old = None /\ cleared.now = 0
      /\ cleared.at = "clear" /\ cleared.req = r /\ cleared.status = None
  BY DEF NoJob
<1>3. job' = [job EXCEPT ![t] = asked] \/ job' = [job EXCEPT ![t] = cleared]
  BY DEF Ask
<1>4. /\ UNCHANGED <<cache, clock, clears, straddled>> /\ asks' \in 0 .. MaxAsks
      /\ answer' = [answer EXCEPT ![t] = NoAnswer]
  <2>1. asks \in 0 .. MaxAsks /\ asks < MaxAsks /\ asks' = asks + 1 /\ MaxAsks \in Nat
    BY CacheAssumption DEF Ask, LimitInv
  <2>2. asks' \in 0 .. MaxAsks
    BY <2>1
  <2>3. QED
    BY <2>2 DEF Ask
<1>5. clock \in 0 .. MaxTime /\ 0 \in 0 .. MaxTime
  BY CacheAssumption DEF LimitInv
<1> HIDE DEF asked, cleared
<1>6. JobLimited(asked) /\ JobLimited(cleared)
  BY <1>1, <1>2, <1>5, NoneIsProper DEF JobLimited
<1>7. QED
  BY <1>3, <1>4, <1>6, GoesOnLimited

LEMMA AskClearLimited ==
  ASSUME LimitInv, ClearInv', NEW t \in Threads, AskClear(t)
  PROVE  LimitInv'
<1> DEFINE j == [NoJob EXCEPT !.at = "clear", !.kind = "clear"]
<1>1. /\ j.mine = Empty /\ j.built = None /\ j.old = None /\ j.now = 0
      /\ j.at = "clear" /\ j.req = None /\ j.status = None
  BY DEF NoJob
<1>2. job' = [job EXCEPT ![t] = j] /\ UNCHANGED <<cache, clock, clears, straddled, answer, asks>>
  BY DEF AskClear
<1>3. 0 \in 0 .. MaxTime
  BY CacheAssumption
<1> HIDE DEF j
<1>4. JobLimited(j)
  BY <1>1, <1>3, NoneIsProper DEF JobLimited
<1>5. QED
  BY <1>2, <1>4, GoesOnLimited DEF LimitInv

LEMMA ClearLimited ==
  ASSUME LimitInv, ClearInv', NEW t \in Threads, Clear(t)
  PROVE  LimitInv'
<1> DEFINE j == IF job[t].kind = "clear" THEN NoJob
                ELSE [job[t] EXCEPT !.at = "look", !.now = clock, !.since = clears + 1]
<1>1. job' = [job EXCEPT ![t] = j] /\ UNCHANGED <<clock, answer, asks>> /\ straddled' = FALSE
      /\ cache' = Empty /\ clears' = clears + 1 /\ clears < MaxClears
  BY DEF Clear, Cleared
<1>2. IsJob(job[t]) /\ JobLimited(job[t]) /\ clock \in 0 .. MaxTime
  BY DEF LimitInv, ClearInv, IInv, JobSound
<1>3. JobLimited(j)
  <2>1. CASE job[t].kind = "clear"
    BY <2>1, NoJobLimited
  <2>2. CASE job[t].kind # "clear"
    <3> DEFINE k == [job[t] EXCEPT !.at = "look", !.now = clock, !.since = clears + 1]
    <3>1. /\ k.mine = job[t].mine /\ k.built = job[t].built /\ k.old = job[t].old
          /\ k.now = clock /\ k.at = "look" /\ k.req = job[t].req /\ k.status = job[t].status
      BY <1>2 DEF IsJob
    <3>2. j = k
      BY <2>2
    <3> HIDE DEF j, k
    <3>3. QED
      BY <1>2, <3>1, <3>2 DEF JobLimited
  <2>3. QED
    BY <2>1, <2>2
<1> HIDE DEF j
<1>4. \A u \in Threads : job'[u] = IF u = t THEN j ELSE job[u]
  BY <1>1 DEF LimitInv, ClearInv, IInv
<1>5. clears' \in 0 .. MaxClears
  <2>1. clears \in 0 .. MaxClears /\ MaxClears \in Nat
    BY CacheAssumption DEF LimitInv
  <2>2. QED
    BY <1>1, <2>1
<1>6. QED
  BY <1>1, <1>3, <1>4, <1>5, NoneIsProper, OneThreadLimited DEF LimitInv
LEMMA LookLimited ==
  ASSUME LimitInv, ClearInv', NEW t \in Threads, Look(t)
  PROVE  LimitInv'
<1> DEFINE r == job[t].req
           kept == Pruned(cache.entries, job[t].now)
           hits == Find(kept, KeyOf(r))
           hit(e) == [job[t] EXCEPT !.at = "hit", !.mine = Holding(kept), !.status = "hit",
                                    !.built = [e EXCEPT !.used = job[t].now]]
           build(old) == [job[t] EXCEPT !.at = "build", !.mine = Holding(kept), !.old = old,
                                        !.status = StatusOfMiss(cache.entries, kept, r)]
<1>1. /\ IsJob(job[t]) /\ JobLimited(job[t]) /\ AllSound(cache.entries) /\ Proper(cache.entries)
  BY DEF LimitInv, ClearInv, IInv, JobSound, Limited
<1>2. kept \in SUBSET cache.entries /\ Proper(kept) /\ Fits(kept)
  BY <1>1, PrunedHolds
<1>3. Limited(Holding(kept)) /\ Holding(kept).entries = kept
  <2> HIDE DEF kept
  <2>1. QED
    BY <1>2, HoldingIsLimited
<1>4. UNCHANGED <<cache, clock, clears, straddled, answer, asks>> /\ asks \in 0 .. MaxAsks
  BY DEF Look, LimitInv
<1>5. ASSUME NEW e \in hits PROVE JobLimited(hit(e))
  <2>1. e \in kept
    BY <1>5 DEF Find
  <2>2. IsEntry(e) /\ IsEntryOf(e)
    <3>1. SoundEntry(e)
      BY <1>1, <1>2, <2>1 DEF AllSound
    <3> HIDE DEF kept
    <3>2. QED
      BY <1>2, <2>1, <3>1 DEF SoundEntry, Proper
  <2>3. PICK b : b = [e EXCEPT !.used = job[t].now]
    OBVIOUS
  <2>4. /\ b.key = e.key /\ b.bytes = e.bytes /\ b.pos = e.pos
        /\ b.file = e.file /\ b.src = e.src /\ b.opts = e.opts /\ b.base = e.base
        /\ b.missing = e.missing /\ b.chain = e.chain
        /\ b.used = job[t].now /\ b.born = e.born
    BY <2>2, <2>3 DEF IsEntry
  <2>5. IsEntryOf(b)
    BY <1>1, <2>2, <2>4 DEF IsEntryOf, IsSnapshot, JobLimited
  <2>6. /\ hit(e).at = "hit" /\ hit(e).mine = Holding(kept) /\ hit(e).now = job[t].now
        /\ hit(e).built = b /\ hit(e).old = job[t].old /\ hit(e).req = job[t].req
        /\ hit(e).status = "hit"
    <3>1. PICK x : x = hit(e)
      OBVIOUS
    <3>2. /\ x.at = "hit" /\ x.mine = Holding(kept) /\ x.now = job[t].now
          /\ x.built = b /\ x.old = job[t].old /\ x.req = job[t].req /\ x.status = "hit"
      BY <1>1, <2>3, <3>1 DEF IsJob
    <3>3. QED
      BY <3>1, <3>2
  <2> HIDE DEF hit, kept
  <2>7. QED
    BY <1>1, <1>3, <2>1, <2>4, <2>5, <2>6 DEF JobLimited
<1>6. ASSUME NEW old \in NewestOf(OfFile(kept, r.file)) PROVE JobLimited(build(old))
  <2>1. old = None \/ old \in kept
    BY <1>6 DEF NewestOf, OfFile
  <2>2. old = None \/ IsEntryOf(old)
    <3> HIDE DEF kept
    <3>1. QED
      BY <1>2, <2>1 DEF Proper
  <2>3. PICK st : st = StatusOfMiss(cache.entries, kept, r)
    OBVIOUS
  <2>4. st \in {"rebuilt", "evicted", "miss"}
    BY <2>3 DEF StatusOfMiss
  <2>5. /\ build(old).at = "build" /\ build(old).mine = Holding(kept)
        /\ build(old).now = job[t].now /\ build(old).built = job[t].built
        /\ build(old).old = old /\ build(old).req = job[t].req /\ build(old).status = st
    <3>1. PICK x : x = build(old)
      OBVIOUS
    <3>2. /\ x.at = "build" /\ x.mine = Holding(kept) /\ x.now = job[t].now
          /\ x.built = job[t].built /\ x.old = old /\ x.req = job[t].req /\ x.status = st
      BY <1>1, <2>3, <3>1 DEF IsJob
    <3>3. QED
      BY <3>1, <3>2
  <2> HIDE DEF build, kept
  <2>6. QED
    BY <1>1, <1>3, <2>2, <2>4, <2>5 DEF JobLimited
<1>7. \/ \E e \in hits : job' = [job EXCEPT ![t] = hit(e)]
      \/ \E old \in NewestOf(OfFile(kept, r.file)) : job' = [job EXCEPT ![t] = build(old)]
  BY DEF Look
<1> HIDE DEF hit, build, hits, kept, r
<1>8. QED
  BY <1>4, <1>5, <1>6, <1>7, GoesOnLimited

LEMMA LookOnceLimited ==
  ASSUME LimitInv, ClearInv', NEW t \in Threads, LookOnce(t)
  PROVE  LimitInv'
<1>1. PICK old \in NewestOf(OfFile(cache.entries, job[t].req.file)) :
        job' = [job EXCEPT ![t].at = "build", ![t].old = old]
  BY DEF LookOnce
<1> DEFINE j == [job[t] EXCEPT !.at = "build", !.old = old]
<1>2. IsJob(job[t]) /\ JobLimited(job[t]) /\ Proper(cache.entries)
  BY DEF LimitInv, ClearInv, IInv, JobSound, Limited
<1>3. old = None \/ IsEntryOf(old)
  BY <1>1, <1>2 DEF NewestOf, OfFile, Proper
<1>4. /\ j.at = "build" /\ j.mine = job[t].mine /\ j.now = job[t].now /\ j.built = job[t].built
      /\ j.old = old /\ j.req = job[t].req /\ j.status = job[t].status
  BY <1>2 DEF IsJob
<1>5. job' = [job EXCEPT ![t] = j]
      /\ UNCHANGED <<cache, clock, clears, straddled, answer, asks>> /\ asks \in 0 .. MaxAsks
  BY <1>1 DEF LookOnce, LimitInv
<1> HIDE DEF j
<1>6. JobLimited(j)
  BY <1>2, <1>3, <1>4 DEF JobLimited
<1>7. QED
  BY <1>5, <1>6, GoesOnLimited

\* What a build gives has the size of its source and the time it was made at.
LEMMA OutcomeIsEntry ==
  ASSUME LimitInv, NEW t \in Threads, job[t].req \in Requests, NEW built \in Outcomes(t)
  PROVE  built = None \/ IsEntryOf(built)
<1> DEFINE r == job[t].req
<1>1. CASE built = None
  BY <1>1
<1>2. CASE built = Snapshot(r, job[t].old)
  <2>1. /\ built.file = r.file /\ built.src = r.src /\ built.base = BaseEnv(r)
        /\ built.opts = r.opts /\ built.missing = IsMissing(r) /\ built.chain = ~IsMissing(r)
        /\ built.bytes = Size[r.src] /\ built.used = clock /\ built.born = clears
        /\ built.pos = 0
    BY <1>2 DEF Snapshot
  <2>2. r.file \in Files /\ r.src \in Sources /\ r.opts \in Options /\ r.env \in Envs
    BY CacheAssumption
  <2>3. Size[r.src] \in Nat /\ BaseEnv(r) \in Envs \cup {Reimported}
    BY <2>2, CacheAssumption DEF BaseEnv
  <2>4. clock \in 0 .. MaxTime /\ clears \in 0 .. MaxClears
    BY DEF LimitInv
  <2>5. IsMissing(r) \in BOOLEAN
    BY DEF IsMissing
  <2>6. built.missing \in BOOLEAN /\ built.chain \in BOOLEAN
    BY <2>1, <2>5, Zenon
  <2> HIDE DEF r
  <2>7. built.bytes \in Nat /\ built.pos \in Nat /\ built.bytes = Size[built.src]
    BY <2>1, <2>3
  <2>8. QED
    BY <2>1, <2>2, <2>3, <2>4, <2>6, <2>7 DEF IsEntryOf, IsSnapshot
<1>3. QED
  BY <1>1, <1>2 DEF Outcomes

LEMMA BuildLimited ==
  ASSUME LimitInv, ClearInv', NEW t \in Threads, Build(t)
  PROVE  LimitInv'
<1>1. PICK built \in Outcomes(t) :
        job' = [job EXCEPT ![t].at = "write", ![t].built = built, ![t].old = None]
  BY DEF Build
<1> DEFINE j == [job[t] EXCEPT !.at = "write", !.built = built, !.old = None]
<1>2. /\ IsJob(job[t]) /\ JobLimited(job[t]) /\ job[t].req \in Requests
  BY DEF LimitInv, ClearInv, IInv, JobSound, Build, At
<1>3. built = None \/ IsEntryOf(built)
  BY <1>1, <1>2, OutcomeIsEntry
<1>4. /\ j.at = "write" /\ j.mine = job[t].mine /\ j.now = job[t].now /\ j.built = built
      /\ j.old = None /\ j.req = job[t].req /\ j.status = job[t].status
  BY <1>2 DEF IsJob
<1>5. job' = [job EXCEPT ![t] = j]
      /\ UNCHANGED <<cache, clock, clears, straddled, answer, asks>> /\ asks \in 0 .. MaxAsks
  BY <1>1 DEF Build, LimitInv
<1> HIDE DEF j
<1>6. JobLimited(j)
  BY <1>2, <1>3, <1>4 DEF JobLimited
<1>7. QED
  BY <1>5, <1>6, GoesOnLimited

LEMMA BuildOnceLimited ==
  ASSUME LimitInv, ClearInv', NEW t \in Threads, BuildOnce(t)
  PROVE  LimitInv'
<1>1. Limited(cache') /\ straddled' \in BOOLEAN
  BY DEF BuildOnce, LimitInv
<1>2. QED
  BY <1>1, AnsweredLimited DEF BuildOnce

LEMMA StraddlesIsBoolean ==
  ASSUME NEW t, Straddles(t) PROVE straddled' \in BOOLEAN
BY DEF Straddles

\* The hit's write puts the entry back with a new time, and nothing is too much.
LEMMA WriteHitLimited ==
  ASSUME LimitInv, ClearInv', NEW t \in Threads, WriteHit(t)
  PROVE  LimitInv'
<1> DEFINE mine == job[t].mine
           built == job[t].built
<1>1. JobSound(job[t]) /\ JobClear(job[t]) /\ JobLimited(job[t]) /\ job[t].at = "hit"
  BY DEF LimitInv, ClearInv, IInv, WriteHit, At
<1>2. Limited(mine) /\ IsEntryOf(built) /\ \E e \in mine.entries : e.key = built.key
  BY <1>1 DEF JobLimited
<1>3. OnePerKey(mine.entries) /\ AllSound(mine.entries) /\ SoundEntry(built)
  BY <1>1 DEF JobClear, JobSound
<1> DEFINE new == Upsert(mine.entries, built)
<1>4. Fits(new) /\ SumOfBytes(new) = SumOfBytes(mine.entries) /\ Proper(new)
  BY <1>2, <1>3, UpsertReplaces, UpsertIsProper DEF Limited, SoundEntry
<1>5. cache' = [entries |-> new, bytes |-> SumOfBytes(new)]
  <2>1. mine = [entries |-> mine.entries, bytes |-> SumOfBytes(mine.entries)]
    BY <1>2 DEF Limited, Holding
  <2>2. cache' = [mine EXCEPT !.entries = Upsert(@, built)]
    BY DEF WriteHit
  <2> HIDE DEF mine
  <2>3. cache' = [entries |-> new, bytes |-> SumOfBytes(mine.entries)]
    BY <2>1, <2>2
  <2>4. QED
    BY <1>4, <2>3
<1>6. Limited(cache')
  <2> HIDE DEF new
  <2>1. cache' = Holding(new)
    BY <1>5 DEF Holding
  <2>2. QED
    BY <1>4, <2>1, HoldingIsLimited
<1>7. QED
  BY <1>6, AnsweredLimited, StraddlesIsBoolean DEF WriteHit

\* What a write prunes: what the thread read, with the snapshot unless it is too large.
WrittenFrom(j) ==
  IF j.built.bytes > MaxBytes THEN j.mine.entries ELSE Upsert(j.mine.entries, j.built)

LEMMA WrittenIsProper ==
  ASSUME LimitInv, NEW t \in Threads, Write(t), job[t].built # None
  PROVE  /\ Proper(WrittenFrom(job[t]))
         /\ cache' = Holding(Pruned(WrittenFrom(job[t]), clock))
<1>1. JobSound(job[t]) /\ JobLimited(job[t])
  BY DEF LimitInv, ClearInv, IInv
<1>2. Proper(job[t].mine.entries) /\ IsEntryOf(job[t].built) /\ IsEntry(job[t].built)
  BY <1>1 DEF JobLimited, JobSound, Limited, SoundEntry
<1>3. Proper(WrittenFrom(job[t]))
  BY <1>2, UpsertIsProper DEF WrittenFrom
<1>4. Added(job[t].mine, job[t].built).entries = WrittenFrom(job[t])
  BY DEF Added, Holding, WrittenFrom
<1>5. QED
  BY <1>3, <1>4 DEF Write

LEMMA WriteLimited ==
  ASSUME LimitInv, ClearInv', NEW t \in Threads, Write(t)
  PROVE  LimitInv'
<1>1. Limited(cache')
  <2>1. CASE job[t].built = None
    <3>1. Limited(job[t].mine)
      BY DEF LimitInv, JobLimited
    <3>2. cache' = job[t].mine
      BY <2>1 DEF Write
    <3>3. QED
      BY <3>1, <3>2
  <2>2. CASE job[t].built # None
    BY <2>2, WrittenIsProper, PrunedHolds, HoldingIsLimited
  <2>3. QED
    BY <2>1, <2>2
<1>2. QED
  BY <1>1, AnsweredLimited, StraddlesIsBoolean DEF Write

LEMMA NextLimitInv == LimitInv /\ [Next]_vars => LimitInv'
<1> SUFFICES ASSUME LimitInv, [Next]_vars PROVE LimitInv'
  OBVIOUS
<1>1. ClearInv'
  BY NextClearInv DEF LimitInv
<1>2. CASE UNCHANGED vars \/ Tick
  <2>1. UNCHANGED <<cache, job, answer, asks, clears, straddled>>
    BY <1>2 DEF vars, Tick
  <2>2. clock' \in 0 .. MaxTime
    <3>1. clock \in 0 .. MaxTime /\ MaxTime \in Nat
      BY CacheAssumption DEF LimitInv
    <3>2. clock' = clock \/ (clock < MaxTime /\ clock' = clock + 1)
      BY <1>2 DEF vars, Tick
    <3>3. QED
      BY <3>1, <3>2
  <2>3. Limited(cache') /\ \A t \in Threads : JobLimited(job'[t]) /\ AnswerTyped(answer'[t])
    BY <2>1 DEF LimitInv
  <2>4. QED
    BY <1>1, <2>1, <2>2, <2>3 DEF LimitInv
<1>3. ASSUME NEW t \in Threads,
             \/ \E kind \in {"cached", "one_shot", "uncached"}, r \in Requests : Ask(t, kind, r)
             \/ AskClear(t) \/ Clear(t) \/ Look(t) \/ LookOnce(t)
             \/ WriteHit(t) \/ Build(t) \/ BuildOnce(t) \/ Write(t)
      PROVE  LimitInv'
  BY <1>1, <1>3, AskLimited, AskClearLimited, ClearLimited, LookLimited, LookOnceLimited,
     WriteHitLimited, BuildLimited, BuildOnceLimited, WriteLimited
<1>4. QED
  BY <1>2, <1>3 DEF Next
-----------------------------------------------------------------------------
(* What follows                                                            *)

\* Whatever the threads, requests and limits, the cache, the jobs and the answers are
\* of their types: no entry has a size, an age or a place out of its range.
THEOREM TypesHold == Spec => []TypeOK
<1>1. LimitInv => TypeOK
  <2> SUFFICES ASSUME LimitInv PROVE TypeOK
    OBVIOUS
  <2>1. \A e \in cache.entries : IsSnapshot(e)
    BY DEF LimitInv, Limited, Proper, IsEntryOf
  <2>2. cache.bytes \in Nat
    <3>1. Sized(cache.entries) /\ cache = Holding(cache.entries)
      BY ProperIsSized DEF LimitInv, Limited
    <3>2. SumOfBytes(cache.entries) \in Nat
      BY <3>1, SumIsUnits
    <3>3. \A S : Holding(S).bytes = SumOfBytes(S)
      BY DEF Holding
    <3>4. QED
      BY <3>1, <3>2, <3>3
  <2>3. QED
    BY <2>1, <2>2 DEF LimitInv, JobLimited, AnswerTyped, IsEntryOf, TypeOK
<1>2. QED
  BY <1>1, InitLimitInv, NextLimitInv, PTL DEF Spec

LEMMA LimitInvIsConsistent == LimitInv => CacheIsConsistent
BY DEF LimitInv, ClearInv, Limited, Holding, OnePerKey, CacheIsConsistent

\* A query's write drops the oldest, and no more than the limits ask for.
DropsOldest(t) ==
  At(t, "write") /\ job'[t].at = "idle" /\ job[t].built # None =>
    LET read == job[t].mine.entries
        had == IF job[t].built.bytes > MaxBytes THEN read ELSE Upsert(read, job[t].built)
        gone == Unexpired(had, clock) \ cache'.entries
    IN gone # {} => /\ \E f \in gone : ~Fits(cache'.entries \cup {f})
                    /\ \A f \in gone, e \in cache'.entries : f.used <= e.used

\* Every step of a thread changes no job but its own.
LEMMA EachChangesOne ==
  ASSUME NEW u \in Threads,
         \/ \E kind \in {"cached", "one_shot", "uncached"}, r \in Requests : Ask(u, kind, r)
         \/ AskClear(u) \/ Clear(u) \/ Look(u) \/ LookOnce(u)
         \/ WriteHit(u) \/ Build(u) \/ BuildOnce(u) \/ Write(u)
  PROVE  \A v \in Threads \ {u} : job = [w \in Threads |-> job[w]] => job'[v] = job[v]
BY DEF Ask, AskClear, Clear, Look, LookOnce, WriteHit, Build, BuildOnce, Write, Answer

LEMMA OnlyAWriteAnswers ==
  ASSUME LimitInv, [Next]_vars, NEW t \in Threads, At(t, "write"), job'[t].at = "idle"
  PROVE  Write(t)
<1>1. job = [u \in Threads |-> job[u]]
  BY DEF LimitInv, ClearInv, IInv
<1>2. job' # job
  BY DEF At
<1>3. PICK u \in Threads :
             \/ \E kind \in {"cached", "one_shot", "uncached"}, r \in Requests : Ask(u, kind, r)
             \/ AskClear(u) \/ Clear(u) \/ Look(u) \/ LookOnce(u)
             \/ WriteHit(u) \/ Build(u) \/ BuildOnce(u) \/ Write(u)
  BY <1>2 DEF Next, vars, Tick
<1>4. \A v \in Threads \ {u} : job'[v] = job[v]
  BY <1>1, <1>3, EachChangesOne
<1>5. u = t
  BY <1>4 DEF At
<1>6. QED
  BY <1>3, <1>5 DEF At, Ask, AskClear, Clear, Look, LookOnce, WriteHit, Build, BuildOnce

LEMMA WriteDropsOldest ==
  ASSUME LimitInv, NEW t \in Threads, Write(t)
  PROVE  DropsOldest(t)
<1> DEFINE had == WrittenFrom(job[t])
           fresh == Unexpired(had, clock)
           gone == fresh \ cache'.entries
<1>1. SUFFICES ASSUME job[t].built # None, gone # {}
               PROVE  /\ \E f \in gone : ~Fits(cache'.entries \cup {f})
                      /\ \A f \in gone, e \in cache'.entries : f.used <= e.used
  BY Zenon DEF DropsOldest, WrittenFrom
<1>2. Proper(had) /\ cache' = Holding(Pruned(had, clock))
  BY <1>1, WrittenIsProper
<1>3. fresh \in SUBSET had
  BY DEF Unexpired
<1>4. Proper(fresh)
  BY <1>2, <1>3, ProperSubset
<1>5. cache'.entries = WithinLimits(fresh)
  BY <1>2 DEF Holding, Pruned
<1> HIDE DEF fresh
<1>6. QED
  BY <1>1, <1>4, <1>5, LimitsTakeOldest

LEMMA StepDropsOldest == LimitInv /\ [Next]_vars => \A t \in Threads : DropsOldest(t)
<1> SUFFICES ASSUME LimitInv, [Next]_vars, NEW t \in Threads PROVE DropsOldest(t)
  OBVIOUS
<1>1. CASE At(t, "write") /\ job'[t].at = "idle"
  BY <1>1, OnlyAWriteAnswers, WriteDropsOldest
<1>2. CASE ~(At(t, "write") /\ job'[t].at = "idle")
  BY <1>2 DEF DropsOldest
<1>3. QED
  BY <1>1, <1>2

\* However the threads overwrite each other, the cache has one entry for a key, stays
\* within its limits, knows its own size and keeps nothing a clear took; and what a
\* write drops is the oldest, no more than the limits ask for (cacheUpsertEntry,
\* enforceCacheLimits, pruneCache, clearModuleSnapshotCache in InfoTree.lean).
THEOREM CacheHolds == Spec => CacheHoldsItsOwn
<1>1. LimitInv => CacheIsConsistent /\ ClearIsFinal
  BY LimitInvIsConsistent DEF LimitInv, ClearInv, BornNow, ClearIsFinal
<1>2. LimitInv /\ [Next]_vars => [\A t \in Threads : DropsOldest(t)]_vars
  BY StepDropsOldest
<1>3. EvictsOldestFirst <=> [][\A t \in Threads : DropsOldest(t)]_vars
  BY DEF EvictsOldestFirst, DropsOldest
<1>4. QED
  BY <1>1, <1>2, <1>3, InitLimitInv, NextLimitInv, PTL DEF Spec, CacheHoldsItsOwn

-----------------------------------------------------------------------------
(* Signatures and their spelling                                           *)

\* Every name is spelled so that the reader finds it again.
LEMMA SpellingIsRead ==
  /\ \A r \in DOMAIN ReprSpelling : ReprNamed[ReprSpelling[r]] = r
  /\ \A k \in DOMAIN KindSpelling : KindNamed[KindSpelling[k]] = k
  /\ \A o \in DOMAIN OwnershipSpelling : OwnershipNamed[OwnershipSpelling[o]] = o
  /\ \A c \in DOMAIN ConventionSpelling : ConventionNamed[ConventionSpelling[c]] = c
<1>1. \A r \in DOMAIN ReprSpelling : ReprNamed[ReprSpelling[r]] = r
  BY DEF ReprSpelling, ReprNamed
<1>2. \A k \in DOMAIN KindSpelling : KindNamed[KindSpelling[k]] = k
  BY DEF KindSpelling, KindNamed
<1>3. \A o \in DOMAIN OwnershipSpelling : OwnershipNamed[OwnershipSpelling[o]] = o
  BY DEF OwnershipSpelling, OwnershipNamed
<1>4. \A c \in DOMAIN ConventionSpelling : ConventionNamed[ConventionSpelling[c]] = c
  BY DEF ConventionSpelling, ConventionNamed
<1>5. QED
  BY <1>1, <1>2, <1>3, <1>4

LEMMA NamesAre ==
  /\ DOMAIN KindSpelling = {"Function", "Global"}
  /\ DOMAIN OwnershipSpelling = {"None", "Owned"}
  /\ DOMAIN ConventionSpelling = {"Pure", "IoResult"}
BY DEF KindSpelling, OwnershipSpelling, ConventionSpelling

\* A signature comes back as it was written, but for the arguments of a global.
LEMMA RoundTrip ==
  ASSUME NEW sig \in Signatures
  PROVE  /\ to_json(sig).symbol = sig.symbol
         /\ DOMAIN to_json(sig).args = DOMAIN sig.args
         /\ sig.kind = "Function" => from_json(to_json(sig)) = sig
         /\ sig.kind = "Global" =>
              from_json(to_json(sig)) = global(sig.symbol, sig.result)
<1> DEFINE entry == to_json(sig)
           args == [i \in DOMAIN entry.args |->
                      ArgAbi(ReprNamed[entry.args[i].repr],
                             OwnershipNamed[entry.args[i].ownership])]
           result == ReturnAbi(ReprNamed[entry.result.repr],
                               OwnershipNamed[entry.result.ownership],
                               ConventionNamed[entry.result.convention])
<1>1. /\ entry.symbol = sig.symbol /\ DOMAIN entry.args = DOMAIN sig.args
      /\ entry.kind = KindSpelling[sig.kind]
      /\ \A i \in DOMAIN sig.args : /\ entry.args[i].repr = ReprSpelling[sig.args[i].repr]
                                    /\ entry.args[i].ownership = OwnershipSpelling[sig.args[i].ownership]
      /\ entry.result.repr = ReprSpelling[sig.result.repr]
      /\ entry.result.ownership = OwnershipSpelling[sig.result.ownership]
      /\ entry.result.convention = ConventionSpelling[sig.result.convention]
  BY DEF to_json, ArgAbi, ReturnAbi
<1>2. /\ sig = [kind |-> sig.kind, symbol |-> sig.symbol, args |-> sig.args, result |-> sig.result]
      /\ sig.kind \in DOMAIN KindSpelling /\ sig.args \in Seq(Slots) /\ sig.result \in Results
  BY DEF Signatures
<1>3. /\ sig.args = [i \in DOMAIN sig.args |-> sig.args[i]]
      /\ \A i \in DOMAIN sig.args : sig.args[i] \in Slots
  BY <1>2
<1>4. \A slot \in Slots : /\ slot = ArgAbi(slot.repr, slot.ownership)
                          /\ slot.repr \in DOMAIN ReprSpelling
                          /\ slot.ownership \in DOMAIN OwnershipSpelling
  BY DEF Slots, ArgAbi
<1>5. /\ sig.result = ReturnAbi(sig.result.repr, sig.result.ownership, sig.result.convention)
      /\ sig.result.repr \in DOMAIN ReprSpelling
      /\ sig.result.ownership \in DOMAIN OwnershipSpelling
      /\ sig.result.convention \in DOMAIN ConventionSpelling
  BY <1>2 DEF Results, ReturnAbi
<1>6. result = sig.result
  BY <1>1, <1>5, SpellingIsRead
<1>7. args = sig.args
  <2>1. \A i \in DOMAIN sig.args :
          ArgAbi(ReprNamed[entry.args[i].repr], OwnershipNamed[entry.args[i].ownership]) = sig.args[i]
    BY <1>1, <1>3, <1>4, SpellingIsRead
  <2> HIDE DEF entry
  <2>2. QED
    BY <1>1, <1>3, <2>1
<1>8. KindNamed[entry.kind] = sig.kind
  BY <1>1, <1>2, SpellingIsRead
<1>9. from_json(entry) = IF KindNamed[entry.kind] = "Function" THEN function(entry.symbol, args, result)
                         ELSE global(entry.symbol, result)
  BY DEF from_json
<1> HIDE DEF entry, args, result
<1>10. from_json(entry) = IF sig.kind = "Function" THEN function(sig.symbol, sig.args, sig.result)
                          ELSE global(sig.symbol, sig.result)
  BY <1>1, <1>6, <1>7, <1>8, <1>9
<1>11. sig.kind = "Function" => function(sig.symbol, sig.args, sig.result) = sig
  BY <1>2 DEF function, Signature
<1>12. QED
  BY <1>1, <1>10, <1>11 DEF entry

LEMMA OwnedIffObject ==
  ASSUME NEW slot, slot.ownership \in {"None", "Owned"}
  PROVE  WellOwned(slot) <=> (slot.ownership = "Owned" <=> slot.repr = "LeanObject")
BY DEF WellOwned, OwnershipExpected

\* The reader accepts an entry just when what it declares can be believed.
LEMMA AcceptedIffSound ==
  ASSUME NEW sig \in Signatures
  PROVE  /\ EntryAccepted(to_json(sig)) <=> Sound(sig)
         /\ Sound(sig) => from_json(to_json(sig)) = sig
<1> DEFINE entry == to_json(sig)
           read == from_json(entry)
<1>1. /\ sig = [kind |-> sig.kind, symbol |-> sig.symbol, args |-> sig.args, result |-> sig.result]
      /\ sig.kind \in {"Function", "Global"} /\ sig.args \in Seq(Slots) /\ sig.result \in Results
  BY NamesAre DEF Signatures
<1>2. /\ \A i \in DOMAIN sig.args : sig.args[i].ownership \in {"None", "Owned"}
      /\ sig.result.ownership \in {"None", "Owned"}
  <2>1. \A i \in DOMAIN sig.args : sig.args[i] \in Slots
    BY <1>1
  <2>2. \A slot \in Slots : slot.ownership \in {"None", "Owned"}
    BY NamesAre DEF Slots
  <2>3. sig.result.ownership \in {"None", "Owned"}
    BY <1>1, NamesAre DEF Results
  <2>4. QED
    BY <2>1, <2>2, <2>3
<1>3. /\ entry.symbol = sig.symbol /\ DOMAIN entry.args = DOMAIN sig.args
      /\ sig.kind = "Function" => read = sig
      /\ sig.kind = "Global" => read = global(sig.symbol, sig.result)
  BY RoundTrip
<1>4. entry.args = <<>> <=> sig.args = <<>>
  <2>1. entry.args = [i \in DOMAIN sig.args |-> entry.args[i]]
    BY DEF to_json
  <2>2. sig.args = [i \in DOMAIN sig.args |-> sig.args[i]]
    BY <1>1
  <2>3. \A f : f = [i \in DOMAIN f |-> f[i]] => (f = <<>> <=> DOMAIN f = {})
    OBVIOUS
  <2> HIDE DEF entry
  <2>4. QED
    BY <1>3, <2>1, <2>2, <2>3
<1>5. EntryAccepted(entry) <=>
        /\ entry.symbol # ""
        /\ \A i \in DOMAIN read.args : WellOwned(read.args[i])
        /\ WellOwned(read.result)
        /\ read.result.convention = "IoResult" =>
              read.result.repr = "LeanObject" /\ read.result.ownership = "Owned"
        /\ read.kind = "Global" => entry.args = <<>> /\ read.result.convention # "IoResult"
  BY DEF EntryAccepted
<1>6. Sound(sig) <=>
        /\ sig.symbol # ""
        /\ \A i \in DOMAIN sig.args : WellOwned(sig.args[i])
        /\ WellOwned(sig.result)
        /\ sig.result.convention = "IoResult" => sig.kind = "Function" /\ sig.result.repr = "LeanObject"
        /\ sig.kind = "Global" => sig.args = <<>>
  <2> DEFINE owned(slot) == slot.ownership = "Owned" <=> slot.repr = "LeanObject"
  <2>1. \A i \in DOMAIN sig.args : WellOwned(sig.args[i]) <=> owned(sig.args[i])
    BY <1>2, OwnedIffObject
  <2>2. WellOwned(sig.result) <=> owned(sig.result)
    BY <1>2, OwnedIffObject
  <2> DEFINE slots == {sig.args[i] : i \in DOMAIN sig.args} \cup {sig.result}
  <2>3. Sound(sig) <=>
        /\ sig.symbol # ""
        /\ \A slot \in slots : owned(slot)
        /\ sig.result.convention = "IoResult" => sig.kind = "Function" /\ sig.result.repr = "LeanObject"
        /\ sig.kind = "Global" => sig.args = <<>>
    BY DEF Sound
  <2> HIDE DEF owned
  <2>4. (\A slot \in slots : owned(slot))
        <=> (\A i \in DOMAIN sig.args : owned(sig.args[i])) /\ owned(sig.result)
    OBVIOUS
  <2> HIDE DEF slots
  <2>5. QED
    BY <2>1, <2>2, <2>3, <2>4
<1> HIDE DEF entry, read
<1>7. CASE sig.kind = "Function"
  <2>1. WellOwned(sig.result) /\ sig.result.repr = "LeanObject" => sig.result.ownership = "Owned"
    BY DEF WellOwned, OwnershipExpected
  <2>2. QED
    BY <1>3, <1>5, <1>6, <1>7, <2>1 DEF entry, read
<1>8. CASE sig.kind = "Global"
  <2>1. read.kind = "Global" /\ read.args = <<>> /\ read.result = sig.result
    BY <1>3, <1>8 DEF global, Signature
  <2>2. DOMAIN read.args = {}
    BY <2>1
  <2>3. sig.args = <<>> => global(sig.symbol, sig.result) = sig
    BY <1>1, <1>8 DEF global, Signature
  <2>4. EntryAccepted(entry) <=> Sound(sig)
    BY <1>3, <1>4, <1>5, <1>6, <1>8, <2>1, <2>2
  <2>5. Sound(sig) => read = sig
    BY <1>3, <1>6, <1>8, <2>3
  <2>6. QED
    BY <2>4, <2>5 DEF entry, read
<1>9. QED
  BY <1>1, <1>7, <1>8

-----------------------------------------------------------------------------
(* What the loader reads is what the script declared                       *)

Written(sigs) == [i \in DOMAIN sigs |-> to_json(sigs[i])]

LEMMA ReadableIffConsistent ==
  ASSUME declared \in Seq(Signatures), manifest = Written(declared)
  PROVE  ExportsReadable(manifest) <=> Consistent
<1>1. DOMAIN manifest = DOMAIN declared
      /\ \A i \in DOMAIN declared : manifest[i] = to_json(declared[i]) /\ declared[i] \in Signatures
  BY DEF Written
<1>2. \A i \in DOMAIN declared : /\ EntryAccepted(manifest[i]) <=> Sound(declared[i])
                                 /\ manifest[i].symbol = declared[i].symbol
  BY <1>1, AcceptedIffSound, RoundTrip
<1>3. QED
  BY <1>1, <1>2 DEF ExportsReadable, Consistent

LEMMA TableIsDeclared ==
  ASSUME declared \in Seq(Signatures), manifest = Written(declared), Consistent
  PROVE  /\ DOMAIN Table(manifest) = {declared[i].symbol : i \in DOMAIN declared}
         /\ \A i \in DOMAIN declared : Table(manifest)[declared[i].symbol] = declared[i]
<1>1. DOMAIN manifest = DOMAIN declared
      /\ \A i \in DOMAIN declared : manifest[i] = to_json(declared[i]) /\ declared[i] \in Signatures
  BY DEF Written
<1>2. \A i \in DOMAIN declared : manifest[i].symbol = declared[i].symbol
                                 /\ from_json(manifest[i]) = declared[i]
  BY <1>1, AcceptedIffSound, RoundTrip DEF Consistent
<1> DEFINE named == {manifest[i].symbol : i \in DOMAIN manifest}
           IsLast(i, s) == /\ manifest[i].symbol = s
                           /\ \A j \in DOMAIN manifest : manifest[j].symbol = s => j <= i
           last(s) == CHOOSE i \in DOMAIN manifest : IsLast(i, s)
<1>3. Table(manifest) = [s \in named |-> from_json(manifest[last(s)])]
  BY DEF Table
<1>4. named = {declared[i].symbol : i \in DOMAIN declared}
  BY <1>1, <1>2
<1>5. ASSUME NEW i \in DOMAIN declared PROVE last(declared[i].symbol) = i
  <2>1. \A j \in DOMAIN manifest : manifest[j].symbol = declared[i].symbol => j = i
    BY <1>1, <1>2 DEF Consistent
  <2>2. i \in Nat /\ i \in DOMAIN manifest
    BY <1>1
  <2>3. IsLast(i, declared[i].symbol)
    BY <1>2, <2>1, <2>2
  <2>4. \A j \in DOMAIN manifest : IsLast(j, declared[i].symbol) => j = i
    BY <2>1
  <2> HIDE DEF IsLast
  <2>5. QED
    BY <2>2, <2>3, <2>4
<1> HIDE DEF last, named
<1>6. \A i \in DOMAIN declared : Table(manifest)[declared[i].symbol] = declared[i]
  <2> SUFFICES ASSUME NEW i \in DOMAIN declared
               PROVE  Table(manifest)[declared[i].symbol] = declared[i]
    OBVIOUS
  <2>1. declared[i].symbol \in named
    BY <1>4
  <2>2. Table(manifest)[declared[i].symbol] = from_json(manifest[last(declared[i].symbol)])
    BY <1>3, <2>1
  <2>3. QED
    BY <1>2, <1>5, <2>2
<1>7. QED
  BY <1>3, <1>4, <1>6

-----------------------------------------------------------------------------
(* The invariant                                                           *)

\* What a call through target makes of what Lean returned.
CallOutcome(target, e, c, ret) ==
  IF target = "Function"
  THEN IF e.kind = "Function" /\ Agree(e, c) THEN Decodes(e, c, ret) ELSE Undefined
  ELSE IF EmittedRepr[e.result] = "LeanObject" /\ CRepr[c.result] = "LeanObject"
       THEN FromC(c.result, e.result, ret.value) ELSE Undefined

\* A handle was checked against the table and the library.
HandleChecked(h) ==
  /\ h.name \in DOMAIN signed \cap Symbols /\ h.call \in Callers
  /\ Expected(signed[h.name], h.name, h.call) = signed[h.name]
  /\ signed[h.name].kind = ActualKind(h.name)
  /\ IF h.name \in globals THEN h.target = "Global" /\ Len(h.call.args) = 0 /\ ~h.call.io
     ELSE h.target = "Function" /\ Resolves(h.name)

\* What it was last called for came from a value that the export can return.
CallMade(h) ==
  LET e == dylib.exports[h.name]
  IN  /\ returned.value \in Inhabitants(e.result) /\ returned.value \in DOMAIN BitsOf
      /\ returned.raised \in BOOLEAN /\ (returned.raised => e.io)
      /\ outcome = CallOutcome(h.target, e, h.call, returned)

ExportInv ==
  /\ stage \in {"lake", "script", "built", "open", "refused"}
  /\ declared \in Seq(Signatures)
  /\ stage \in {"built", "open", "refused"} => manifest = Written(declared)
  /\ stage # "open" => signed = NoTable
  /\ stage = "open" => signed = NoTable \/ (Consistent /\ signed = Table(manifest))
  /\ stage # "lake" => dylib \in Dylibs
  /\ ~AtRest => stage = "open"
  /\ handle # NoHandle => /\ HandleChecked(handle)
                          /\ outcome # NoOutcome => CallMade(handle)

LEMMA ExportInitInv == ExportInit => ExportInv
BY DEF ExportInit, ExportInv, AtRest

\* Opening keeps the table of a manifest that the loader accepted, or none.
LEMMA OpensKeeps ==
  ASSUME ExportInv, NEW loadable, NEW table, Opens(loadable, table),
         table = NoTable \/ (loadable => Consistent /\ table = Table(manifest))
  PROVE  ExportInv'
<1>1. /\ stage = "built" /\ signed = NoTable /\ AtRest
      /\ UNCHANGED <<dylib, declared, manifest, handle, outcome, returned>>
  BY DEF ExportInv, Opens, Keeps
<1>2. Consistent' <=> Consistent
  BY <1>1 DEF Consistent
<1>3. \/ stage' = "refused" /\ signed' = NoTable
      \/ stage' = "open" /\ signed' = table /\ loadable
  BY <1>1 DEF Opens
<1>4. manifest' = Written(declared') /\ AtRest'
  BY <1>1 DEF ExportInv, AtRest
<1>5. stage' = "open" => signed' = NoTable \/ (Consistent' /\ signed' = Table(manifest'))
  BY <1>1, <1>2, <1>3
<1>6. QED
  BY <1>1, <1>3, <1>4, <1>5 DEF ExportInv, AtRest

LEMMA LooksUpKeeps ==
  ASSUME ExportInv, NEW s \in Symbols, NEW c \in Callers, exported(s, c)
  PROVE  ExportInv'
<1>1. stage = "open" /\ UNCHANGED <<stage, dylib, declared, manifest, signed, returned>>
      /\ handle = NoHandle /\ outcome = NoOutcome
  BY DEF exported, Keeps, AtRest
<1>2. Consistent' <=> Consistent
  BY <1>1 DEF Consistent
<1>3. \/ UNCHANGED handle
      \/ /\ s \in DOMAIN signed /\ Expected(signed[s], s, c) = signed[s]
         /\ signed[s].kind = ActualKind(s) /\ UncheckedTo(s, c, "missing_symbol")
  BY DEF exported, Refuses
<1>4. CASE UNCHANGED handle
  BY <1>1, <1>2, <1>4 DEF ExportInv, AtRest
<1>5. ASSUME s \in DOMAIN signed, Expected(signed[s], s, c) = signed[s],
             signed[s].kind = ActualKind(s), UncheckedTo(s, c, "missing_symbol"),
             ~UNCHANGED handle
      PROVE  ExportInv'
  <2>1. PICK target : /\ handle' = [target |-> target, name |-> s, call |-> c]
                      /\ UNCHANGED outcome
                      /\ IF s \in globals THEN target = "Global" /\ ~(Len(c.args) > 0 \/ c.io)
                         ELSE target = "Function" /\ Resolves(s)
    <3>1. CASE s \in globals
      BY <1>5, <3>1, Zenon DEF UncheckedTo, Refuses, Hands
    <3>2. CASE s \notin globals
      BY <1>5, <3>2, Zenon DEF UncheckedTo, Refuses, Hands
    <3>3. QED
      BY <3>1, <3>2
  <2>2. handle'.target = target /\ handle'.name = s /\ handle'.call = c
    BY <2>1
  <2>3. globals' = globals /\ ActualKind(s)' = ActualKind(s) /\ Resolves(s)' = Resolves(s)
    BY <1>1 DEF globals, ActualKind, Resolves
  <2>4. Len(c.args) \in Nat
    BY ExportTypes DEF Shapes
  <2>5. HandleChecked(handle)'
    BY <1>1, <1>5, <2>1, <2>2, <2>3, <2>4 DEF HandleChecked, ActualKind, globals, Resolves
  <2>6. outcome' = NoOutcome
    BY <1>1, <2>1
  <2>7. QED
    BY <1>1, <1>2, <2>5, <2>6 DEF ExportInv
<1>6. QED
  BY <1>3, <1>4, <1>5

LEMMA CallsKeep ==
  ASSUME ExportInv, NEW ret \in [raised : BOOLEAN, value : DOMAIN BitsOf], call(ret)
  PROVE  ExportInv'
<1>1. /\ handle # NoHandle /\ outcome = NoOutcome /\ returned' = ret
      /\ UNCHANGED <<stage, dylib, declared, manifest, signed, handle>>
  BY DEF call, Keeps
<1>2. Consistent' <=> Consistent
  BY <1>1 DEF Consistent
<1>3. HandleChecked(handle) /\ stage = "open"
  BY <1>1 DEF ExportInv, AtRest
<1>4. HandleChecked(handle)'
  BY <1>1, <1>3 DEF HandleChecked, ActualKind, globals, Resolves
<1>5. CallMade(handle)'
  BY <1>1 DEF call, CallMade, CallOutcome
<1>6. QED
  BY <1>1, <1>2, <1>3, <1>4, <1>5 DEF ExportInv

LEMMA ExportNextInv == ExportInv /\ [ExportNext]_exportVars => ExportInv'
<1> SUFFICES ASSUME ExportInv, [ExportNext]_exportVars PROVE ExportInv'
  OBVIOUS
<1>1. CASE UNCHANGED exportVars
  <2>1. UNCHANGED <<stage, dylib, declared, manifest, signed, handle, outcome, returned>>
    BY <1>1 DEF exportVars
  <2>2. Consistent' <=> Consistent
    BY <2>1 DEF Consistent
  <2>3. HandleChecked(handle)' <=> HandleChecked(handle)
    BY <2>1 DEF HandleChecked, ActualKind, globals, Resolves
  <2>4. CallMade(handle)' <=> CallMade(handle)
    BY <2>1 DEF CallMade
  <2>5. QED
    BY <2>1, <2>2, <2>3, <2>4 DEF ExportInv, AtRest
<1>2. ASSUME NEW d \in Dylibs, Compile(d) PROVE ExportInv'
  BY <1>2 DEF ExportInv, Compile, AtRest
<1>3. ASSUME NEW sig \in Declarable, export_signature(sig) PROVE ExportInv'
  <2>1. declared' = Append(declared, sig) /\ sig \in Signatures
    BY <1>3, ExportTypes DEF export_signature
  <2>2. declared' \in Seq(Signatures)
    BY <2>1 DEF ExportInv
  <2>3. QED
    BY <1>3, <2>2 DEF ExportInv, export_signature, AtRest
<1>4. CASE WriteManifest
  BY <1>4 DEF ExportInv, WriteManifest, Written, AtRest
<1>5. ASSUME NEW spec \in Descriptors, from_build_manifest(spec) PROVE ExportInv'
  <2>1. stage = "built"
    BY <1>5 DEF from_build_manifest, Opens
  <2>2. ExportsReadable(manifest) => Consistent
    BY <2>1, ReadableIffConsistent DEF ExportInv
  <2>3. QED
    BY <1>5, <2>2, OpensKeeps DEF from_build_manifest
<1>6. ASSUME NEW spec \in Descriptors, from_build_env(spec) PROVE ExportInv'
  BY <1>6, OpensKeeps DEF from_build_env
<1>7. CASE open
  BY <1>7, OpensKeeps DEF open
<1>8. CASE Forget
  <2>1. UNCHANGED <<stage, dylib, declared, manifest, signed>> /\ AtRest' /\ handle' = NoHandle
    BY <1>8 DEF Forget, Keeps, AtRest
  <2>2. Consistent' <=> Consistent
    BY <2>1 DEF Consistent
  <2>3. QED
    BY <2>1, <2>2 DEF ExportInv
<1>9. QED
  BY <1>1, <1>2, <1>3, <1>4, <1>5, <1>6, <1>7, <1>8, LooksUpKeeps, CallsKeep DEF ExportNext

LEMMA SignaturesAreDeclared == ExportInv => SignaturesArrive
<1> SUFFICES ASSUME ExportInv PROVE SignaturesArrive
  OBVIOUS
<1>1. stage = "built" => (ExportsReadable(manifest) <=> Consistent)
  BY ReadableIffConsistent DEF ExportInv
<1>2. CASE signed = NoTable
  BY <1>1, <1>2 DEF SignaturesArrive, NoTable
<1>3. CASE signed # NoTable
  <2>1. Consistent /\ signed = Table(manifest) /\ manifest = Written(declared)
    BY <1>3 DEF ExportInv
  <2>2. /\ DOMAIN signed = {declared[i].symbol : i \in DOMAIN declared}
        /\ \A i \in DOMAIN declared : signed[declared[i].symbol] = declared[i]
    BY <2>1, TableIsDeclared DEF ExportInv
  <2>3. {signed[s] : s \in DOMAIN signed} = {declared[i] : i \in DOMAIN declared}
    BY <2>2
  <2>4. \A s \in DOMAIN signed : signed[s].symbol = s
    BY <2>2
  <2>5. QED
    BY <1>1, <2>1, <2>3, <2>4 DEF SignaturesArrive
<1>4. QED
  BY <1>2, <1>3

-----------------------------------------------------------------------------
(* What an answer means                                                    *)

LEMMA OutcomesAre ==
  /\ \A v : Ok(v).kind = "ok" /\ Ok(v).value = v
  /\ Conversion.kind = "conversion" /\ Undefined.kind = "undefined"
  /\ \A test, v : Checked(test, v) = IF test THEN Ok(v) ELSE Conversion
BY DEF Ok, Conversion, Undefined, Outcome, Checked

LEMMA RustTypes ==
  /\ DOMAIN CRepr = {"unit", "bool", "u8", "u16", "u32", "u64", "usize", "i8", "i16", "i32",
                     "i64", "isize", "char", "f64", "String", "Obj"}
  /\ \A t \in DOMAIN CRepr :
       CRepr[t] = "LeanObject" <=> t \in {"unit", "String", "Obj"}
BY DEF CRepr

LEMMA LeanTypes ==
  DOMAIN EmittedRepr = {"Unit", "Bool", "UInt8", "UInt16", "UInt32", "UInt64", "USize", "Int8",
                        "Int16", "Int32", "Int64", "ISize", "Char", "Float", "String", "Nat",
                        "Structure"}
BY DEF EmittedRepr

LEMMA ShapesAre ==
  ASSUME NEW from, NEW v
  PROVE  /\ ObjectOf(from, v).bits = v /\ ObjectOf(from, v).shape = ShapeOf(from, v)
         /\ ShapeOf(from, v) = "word" <=> from \in {"UInt64", "Int64", "USize", "ISize"}
         /\ ShapeOf(from, v) = "double" <=> from = "Float"
         /\ ShapeOf(from, v) = "string" <=> from = "String"
         /\ ShapeOf(from, v) = "ctor" <=> from = "Structure"
         /\ from \notin {"UInt64", "Int64", "USize", "ISize", "Float", "String", "Structure", "Nat"}
              => ShapeOf(from, v) = "scalar"
<1>1. ObjectOf(from, v).bits = v /\ ObjectOf(from, v).shape = ShapeOf(from, v)
  BY DEF ObjectOf
<1>2. CASE from \in {"UInt64", "Int64", "USize", "ISize"}
  BY <1>1, <1>2 DEF ShapeOf
<1>3. CASE from = "Float"
  BY <1>1, <1>3 DEF ShapeOf
<1>4. CASE from = "String"
  BY <1>1, <1>4 DEF ShapeOf
<1>5. CASE from = "Structure"
  BY <1>1, <1>5 DEF ShapeOf
<1>6. CASE from \notin {"UInt64", "Int64", "USize", "ISize", "Float", "String", "Structure"}
  <2>1. ShapeOf(from, v) \in {"bignum", "scalar"}
    BY <1>6 DEF ShapeOf
  <2>2. from # "Nat" => ShapeOf(from, v) = "scalar"
    BY <1>6 DEF ShapeOf
  <2>3. QED
    BY <1>1, <1>6, <2>1, <2>2
<1>7. QED
  BY <1>2, <1>3, <1>4, <1>5, <1>6

\* What decoding an object can say, type by type of the caller.
LEMMA DecodedObject ==
  ASSUME NEW t \in DOMAIN CRepr, NEW obj
  PROVE  LET d == TryFromLean(t, obj)
         IN  /\ d.kind \in {"ok", "conversion"}
             /\ d.kind = "ok" =>
                  /\ \/ d.value = obj.bits \/ t = "unit"
                     \/ /\ t \in Wide /\ IsCtor(obj)
                        /\ obj.shape # IF t = "f64" THEN "double" ELSE "word"
                  /\ t = "bool" => IsBool(d.value)
                  /\ t = "char" => IsUnicode(d.value)
<1> DEFINE d == TryFromLean(t, obj)
<1>1. CASE t = "unit"
  <2>1. d = Checked(IsScalar(obj), "false")
    BY <1>1 DEF TryFromLean, Wide
  <2> HIDE DEF d
  <2>2. QED
    BY <1>1, <2>1, OutcomesAre DEF d
<1>2. CASE t = "bool"
  <2>1. d = Checked(IsScalar(obj) /\ IsBool(obj.bits), obj.bits)
    BY <1>2 DEF TryFromLean, Wide
  <2> HIDE DEF d
  <2>2. QED
    BY <1>2, <2>1, OutcomesAre DEF d
<1>3. CASE t = "char"
  <2>1. d = Checked(IsScalar(obj) /\ IsUnicode(obj.bits), obj.bits)
    BY <1>3 DEF TryFromLean, Wide
  <2> HIDE DEF d
  <2>2. QED
    BY <1>3, <2>1, OutcomesAre DEF d
<1>4. CASE t = "String"
  <2>1. d = Checked(IsString(obj), obj.bits)
    BY <1>4 DEF TryFromLean, Wide
  <2> HIDE DEF d
  <2>2. QED
    BY <1>4, <2>1, OutcomesAre DEF d
<1>5. CASE t = "Obj"
  <2>1. d = Ok(obj.bits)
    BY <1>5 DEF TryFromLean, Wide
  <2> HIDE DEF d
  <2>2. QED
    BY <1>5, <2>1, OutcomesAre DEF d
<1>6. CASE t \in Wide
  <2>1. d = Checked(IsCtor(obj), FirstWord(t, obj))
    BY <1>6 DEF TryFromLean, Wide
  <2>2. t # "unit" /\ t # "bool" /\ t # "char"
    BY <1>6 DEF Wide
  <2>3. obj.shape = (IF t = "f64" THEN "double" ELSE "word") => FirstWord(t, obj) = obj.bits
    BY DEF FirstWord
  <2> HIDE DEF d
  <2>4. QED
    BY <1>6, <2>1, <2>2, <2>3, OutcomesAre DEF d
<1>7. CASE t \notin {"unit", "bool", "char", "String", "Obj"} \cup Wide
  <2>1. d = Checked(IsScalar(obj) /\ BitsOf[obj.bits] <= WidthOf[t], obj.bits)
    BY <1>7 DEF TryFromLean, Wide
  <2> HIDE DEF d
  <2>2. QED
    BY <1>7, <2>1, OutcomesAre DEF d
<1>8. QED
  BY <1>1, <1>2, <1>3, <1>4, <1>5, <1>6, <1>7

\* The value of the mirrored type comes through, as an object ...
LEMMA MirrorDecodes ==
  ASSUME NEW t \in DOMAIN Mirrors, NEW v \in Inhabitants(Mirrors[t])
  PROVE  TryFromLean(t, ObjectOf(Mirrors[t], v)) = Ok(v)
<1> DEFINE obj == ObjectOf(Mirrors[t], v)
<1>1. obj.bits = v /\ obj.shape = ShapeOf(Mirrors[t], v)
  BY ShapesAre
<1>2. t \in {"unit", "bool", "u8", "u16", "u32", "u64", "usize", "i8", "i16", "i32",
             "i64", "isize", "char", "f64", "String"}
  BY DEF Mirrors
<1>3. CASE t = "unit"
  <2>1. Mirrors[t] = "Unit" /\ v = "false"
    BY <1>3 DEF Mirrors, Inhabitants
  <2>2. IsScalar(obj)
    BY <1>1, <2>1, ShapesAre DEF IsScalar
  <2>3. TryFromLean(t, obj) = Checked(IsScalar(obj), "false")
    BY <1>3 DEF TryFromLean, Wide
  <2>4. QED
    BY <2>1, <2>2, <2>3, OutcomesAre
<1>4. CASE t = "bool"
  <2>1. Mirrors[t] = "Bool" /\ IsBool(v)
    BY <1>4 DEF Mirrors, Inhabitants, IsBool
  <2>2. IsScalar(obj)
    BY <1>1, <2>1, ShapesAre DEF IsScalar
  <2>3. TryFromLean(t, obj) = Checked(IsScalar(obj) /\ IsBool(obj.bits), obj.bits)
    BY <1>4 DEF TryFromLean, Wide
  <2>4. QED
    BY <1>1, <2>1, <2>2, <2>3, OutcomesAre
<1>5. CASE t = "char"
  <2>1. Mirrors[t] = "Char" /\ IsUnicode(v)
    BY <1>5 DEF Mirrors, Inhabitants, IsUnicode, BitsOf
  <2>2. IsScalar(obj)
    BY <1>1, <2>1, ShapesAre DEF IsScalar
  <2>3. TryFromLean(t, obj) = Checked(IsScalar(obj) /\ IsUnicode(obj.bits), obj.bits)
    BY <1>5 DEF TryFromLean, Wide
  <2>4. QED
    BY <1>1, <2>1, <2>2, <2>3, OutcomesAre
<1>6. CASE t = "String"
  <2>1. Mirrors[t] = "String"
    BY <1>6 DEF Mirrors
  <2>2. IsString(obj)
    BY <1>1, <2>1, ShapesAre DEF IsString
  <2>3. TryFromLean(t, obj) = Checked(IsString(obj), obj.bits)
    BY <1>6 DEF TryFromLean, Wide
  <2>4. QED
    BY <1>1, <2>2, <2>3, OutcomesAre
<1>7. CASE t \in Wide
  <2>1. obj.shape = IF t = "f64" THEN "double" ELSE "word"
    BY <1>1, <1>7, ShapesAre DEF Mirrors, Wide
  <2>2. IsCtor(obj) /\ FirstWord(t, obj) = v
    BY <1>1, <2>1 DEF IsCtor, FirstWord
  <2>3. TryFromLean(t, obj) = Checked(IsCtor(obj), FirstWord(t, obj))
    BY <1>7 DEF TryFromLean, Wide
  <2>4. QED
    BY <2>2, <2>3, OutcomesAre
<1>8. CASE t \in {"u8", "i8", "u16", "i16", "u32", "i32"}
  <2>1. /\ t \in {"u8", "i8"} => v \in {"true", "two"}
        /\ t \in {"u16", "i16"} => v \in {"two", "w300"}
        /\ t \in {"u32", "i32"} => v \in {"w300", "surrogate"}
    BY <1>8 DEF Mirrors, Inhabitants
  <2>2. BitsOf[v] <= WidthOf[t]
    <3>1. /\ BitsOf["true"] = 1 /\ BitsOf["two"] = 2 /\ BitsOf["w300"] = 9
          /\ BitsOf["surrogate"] = 16
      BY DEF BitsOf
    <3>2. /\ WidthOf["u8"] = 8 /\ WidthOf["i8"] = 8 /\ WidthOf["u16"] = 16
          /\ WidthOf["i16"] = 16 /\ WidthOf["u32"] = 32 /\ WidthOf["i32"] = 32
      BY DEF WidthOf
    <3>3. QED
      BY <1>8, <2>1, <3>1, <3>2
  <2>3. IsScalar(obj)
    BY <1>1, <1>8, ShapesAre DEF Mirrors, IsScalar
  <2>4. TryFromLean(t, obj) = Checked(IsScalar(obj) /\ BitsOf[obj.bits] <= WidthOf[t], obj.bits)
    BY <1>8 DEF TryFromLean, Wide
  <2>5. QED
    BY <1>1, <2>2, <2>3, <2>4, OutcomesAre
<1>9. QED
  BY <1>2, <1>3, <1>4, <1>5, <1>6, <1>7, <1>8 DEF Wide

\* ... and as a slot of the C type.
LEMMA MirrorConverts ==
  ASSUME NEW t \in DOMAIN Mirrors, NEW v \in Inhabitants(Mirrors[t])
  PROVE  FromC(t, Mirrors[t], v) = Ok(v)
<1> t \in DOMAIN CRepr
  BY RustTypes DEF Mirrors
<1>1. CASE CRepr[t] = "LeanObject"
  <2>1. t # "bool" /\ t # "char"
    BY <1>1, RustTypes
  <2>2. QED
    BY <1>1, <2>1, MirrorDecodes DEF FromC
<1>2. CASE CRepr[t] # "LeanObject" /\ t = "bool"
  <2>1. IsBool(v)
    BY <1>2 DEF Mirrors, Inhabitants, IsBool
  <2>2. FromC(t, Mirrors[t], v) = Checked(IsBool(v), v)
    BY <1>2 DEF FromC
  <2>3. QED
    BY <2>1, <2>2, OutcomesAre
<1>3. CASE CRepr[t] # "LeanObject" /\ t = "char"
  <2>1. IsUnicode(v)
    BY <1>3 DEF Mirrors, Inhabitants, IsUnicode, BitsOf
  <2>2. FromC(t, Mirrors[t], v) = Checked(IsUnicode(v), v)
    BY <1>3 DEF FromC
  <2>3. QED
    BY <2>1, <2>2, OutcomesAre
<1>4. CASE CRepr[t] # "LeanObject" /\ t # "bool" /\ t # "char"
  BY <1>4 DEF FromC
<1>5. QED
  BY <1>1, <1>2, <1>3, <1>4

\* What decoding a slot can say.
LEMMA DecodedSlot ==
  ASSUME NEW t \in DOMAIN CRepr, NEW from, NEW v
  PROVE  LET d == FromC(t, from, v)
         IN  /\ d.kind \in {"ok", "conversion"}
             /\ d.kind = "ok" => /\ d.value = v \/ t = "unit"
                                 /\ t = "bool" => IsBool(d.value)
                                 /\ t = "char" => IsUnicode(d.value)
<1> DEFINE d == FromC(t, from, v)
           object == TryFromLean(t, ObjectOf(from, v))
<1>1. CASE CRepr[t] = "LeanObject"
  <2>1. t # "bool" /\ t # "char" /\ t \notin Wide
    BY <1>1, RustTypes DEF Wide
  <2>2. d = object
    BY <1>1, <2>1 DEF FromC
  <2>3. /\ object.kind \in {"ok", "conversion"}
        /\ object.kind = "ok" => object.value = v \/ t = "unit"
    BY <2>1, DecodedObject, ShapesAre
  <2> HIDE DEF d, object
  <2>4. QED
    BY <2>1, <2>2, <2>3 DEF d
<1>2. CASE CRepr[t] # "LeanObject" /\ t = "bool"
  <2>1. d = Checked(IsBool(v), v)
    BY <1>2 DEF FromC
  <2> HIDE DEF d
  <2>2. QED
    BY <1>2, <2>1, OutcomesAre DEF d
<1>3. CASE CRepr[t] # "LeanObject" /\ t = "char"
  <2>1. d = Checked(IsUnicode(v), v)
    BY <1>3 DEF FromC
  <2> HIDE DEF d
  <2>2. QED
    BY <1>3, <2>1, OutcomesAre DEF d
<1>4. CASE CRepr[t] # "LeanObject" /\ t # "bool" /\ t # "char"
  <2>1. d = Ok(v)
    BY <1>4 DEF FromC
  <2> HIDE DEF d
  <2>2. QED
    BY <1>4, <2>1, OutcomesAre DEF d
<1>5. QED
  BY <1>1, <1>2, <1>3, <1>4

\* An object that no constructor of the caller's type made is read as a wide number
\* only if it is one of the other kind, or of a structure.
LEMMA WideMisreads ==
  ASSUME NEW e, NEW c, c.io, c.result \in Wide, NEW v,
         IsCtor(ObjectOf(e.result, v)),
         ObjectOf(e.result, v).shape # IF c.result = "f64" THEN "double" ELSE "word"
  PROVE  MisreadsPayload(e, c)
<1>1. ObjectOf(e.result, v).shape = ShapeOf(e.result, v)
  BY ShapesAre
<1>2. ShapeOf(e.result, v) \in {"word", "double", "ctor"}
  BY <1>1 DEF IsCtor
<1>3. CASE c.result = "f64"
  <2>1. ShapeOf(e.result, v) \in {"word", "ctor"}
    BY <1>1, <1>2, <1>3
  <2>2. e.result \in {"UInt64", "Int64", "USize", "ISize", "Structure"}
    BY <2>1, ShapesAre
  <2>3. QED
    BY <1>3, <2>2 DEF MisreadsPayload
<1>4. CASE c.result # "f64"
  <2>1. ShapeOf(e.result, v) \in {"double", "ctor"}
    BY <1>1, <1>2, <1>4
  <2>2. e.result \in {"Float", "Structure"}
    BY <2>1, ShapesAre
  <2>3. QED
    BY <1>4, <2>2 DEF MisreadsPayload
<1>5. QED
  BY <1>3, <1>4

\* What the answer to a call may be.
Means(e, c, out, ret) ==
  /\ out = Undefined => ScalarGlobal(e)
  /\ out.kind = "exception" <=> ret.raised
  /\ out.kind = "ok" =>
        /\ \/ out.value = ret.value \/ c.result = "unit" \/ MisreadsPayload(e, c)
        /\ c.result = "bool" => out.value \in {"false", "true"}
        /\ c.result = "char" => out.value # "surrogate"
  /\ c.result \in DOMAIN Mirrors /\ Mirrors[c.result] = e.result
        /\ ~ret.raised /\ ~ScalarGlobal(e) => out = Ok(ret.value)

\* An answer decoded as an object, or from the slot, means what it should.
LEMMA DecodedMeans ==
  ASSUME NEW e, NEW c \in Shapes, NEW ret, ret.value \in Inhabitants(e.result),
         ret.raised \in BOOLEAN, ret.raised => e.io, e.io = c.io, NEW out,
         out = Decodes(e, c, ret)
  PROVE  Means(e, c, out, ret)
<1> DEFINE t == c.result
           v == ret.value
           object == TryFromLean(t, ObjectOf(e.result, v))
           slot == FromC(t, e.result, v)
<1>1. t \in DOMAIN CRepr /\ c.io \in BOOLEAN
  BY DEF Shapes
<1>2. \A x : (IsBool(x) <=> x \in {"false", "true"}) /\ (IsUnicode(x) => x # "surrogate")
  BY DEF IsBool, IsUnicode
<1>3. t \in DOMAIN Mirrors /\ Mirrors[t] = e.result => object = Ok(v) /\ slot = Ok(v)
  <2> SUFFICES ASSUME t \in DOMAIN Mirrors, Mirrors[t] = e.result PROVE object = Ok(v) /\ slot = Ok(v)
    OBVIOUS
  <2>1. PICK w \in Inhabitants(Mirrors[t]) : w = v
    OBVIOUS
  <2>2. TryFromLean(t, ObjectOf(Mirrors[t], w)) = Ok(w) /\ FromC(t, Mirrors[t], w) = Ok(w)
    BY MirrorDecodes, MirrorConverts
  <2>3. QED
    BY <2>1, <2>2
<1>4. CASE c.io /\ ret.raised
  <2>1. out = Outcome("exception", "none")
    BY <1>4 DEF Decodes
  <2>2. out.kind = "exception" /\ out # Undefined
    BY <2>1 DEF Outcome, Undefined
  <2>3. QED
    BY <1>4, <2>2 DEF Means
<1>5. CASE c.io /\ ~ret.raised
  <2>1. out = object
    BY <1>5 DEF Decodes
  <2>2. /\ object.kind \in {"ok", "conversion"}
        /\ object.kind = "ok" =>
             /\ \/ object.value = v \/ t = "unit"
                \/ /\ t \in Wide /\ IsCtor(ObjectOf(e.result, v))
                   /\ ObjectOf(e.result, v).shape # IF t = "f64" THEN "double" ELSE "word"
             /\ t = "bool" => IsBool(object.value)
             /\ t = "char" => IsUnicode(object.value)
    BY <1>1, DecodedObject, ShapesAre
  <2>3. /\ t \in Wide /\ IsCtor(ObjectOf(e.result, v))
        /\ ObjectOf(e.result, v).shape # IF t = "f64" THEN "double" ELSE "word"
        => MisreadsPayload(e, c)
    BY <1>5, WideMisreads
  <2>4. object # Undefined
    BY <2>2, OutcomesAre
  <2> HIDE DEF object
  <2>5. QED
    BY <1>2, <1>3, <1>5, <2>1, <2>2, <2>3, <2>4 DEF Means
<1>6. CASE ~c.io
  <2>1. out = slot /\ ret.raised = FALSE
    BY <1>6 DEF Decodes
  <2>2. /\ slot.kind \in {"ok", "conversion"}
        /\ slot.kind = "ok" => /\ slot.value = v \/ t = "unit"
                               /\ t = "bool" => IsBool(slot.value)
                               /\ t = "char" => IsUnicode(slot.value)
    BY <1>1, DecodedSlot
  <2>3. slot # Undefined
    BY <2>2, OutcomesAre
  <2> HIDE DEF slot
  <2>4. QED
    BY <1>2, <1>3, <2>1, <2>2, <2>3 DEF Means
<1>7. QED
  BY <1>1, <1>4, <1>5, <1>6

-----------------------------------------------------------------------------
(* Checked calls                                                           *)

\* What the loader's comparison says of the caller's types.
LEMMA CheckedFunction ==
  ASSUME NEW s, NEW c \in Shapes, NEW e \in Exports, e.kind = "Function",
         Expected(Describing(s, e), s, c) = Describing(s, e)
  PROVE  Agree(e, c)
<1> DEFINE slot(t) == ArgAbi(EmittedRepr[t], OwnershipExpected(EmittedRepr[t]))
           slots == [i \in DOMAIN e.args |-> slot(e.args[i])]
           result == IF e.io THEN ReturnAbi("LeanObject", "Owned", "IoResult")
                     ELSE ReturnAbi(EmittedRepr[e.result],
                                    OwnershipExpected(EmittedRepr[e.result]), "Pure")
<1>1. Describing(s, e) = function(s, slots, result)
  BY DEF Describing
<1>2. Describing(s, e).kind = "Function"
  BY <1>1 DEF function, Signature
<1>3. Expected(Describing(s, e), s, c) = function(s, export_abi_args(c.args), export_abi_return(c))
  BY <1>2 DEF Expected
<1>4. slots = export_abi_args(c.args) /\ result = export_abi_return(c)
  <2> HIDE DEF slots, result
  <2>1. function(s, slots, result) = function(s, export_abi_args(c.args), export_abi_return(c))
    BY <1>1, <1>3
  <2>2. \A a, r : function(s, a, r).args = a /\ function(s, a, r).result = r
    BY DEF function, Signature
  <2>3. QED
    BY <2>1, <2>2
<1>5. [i \in DOMAIN e.args |-> EmittedRepr[e.args[i]]] = [i \in DOMAIN c.args |-> CRepr[c.args[i]]]
  <2> DEFINE asked == export_abi_args(c.args)
  <2>1. DOMAIN slots = DOMAIN e.args /\ DOMAIN asked = DOMAIN c.args
    BY DEF export_abi_args
  <2>2. \A i \in DOMAIN e.args : slots[i].repr = EmittedRepr[e.args[i]]
    BY DEF ArgAbi
  <2>3. \A i \in DOMAIN c.args : asked[i].repr = CRepr[c.args[i]]
    BY DEF ArgAbi, export_abi_args
  <2> HIDE DEF slots, asked
  <2>4. QED
    BY <1>4, <2>1, <2>2, <2>3 DEF asked
<1>6. \A r, o, k : ReturnAbi(r, o, k).repr = r /\ ReturnAbi(r, o, k).convention = k
  BY DEF ReturnAbi
<1>7. e.io \in BOOLEAN /\ c.io \in BOOLEAN
  BY DEF Exports, Shapes
<1>8. result.convention = IF e.io THEN "IoResult" ELSE "Pure"
  BY <1>6
<1>9. export_abi_return(c).convention = IF c.io THEN "IoResult" ELSE "Pure"
  BY <1>6 DEF export_abi_return
<1>10. ~e.io => result.repr = EmittedRepr[e.result]
  BY <1>6
<1>11. ~c.io => export_abi_return(c).repr = CRepr[c.result]
  BY <1>6 DEF export_abi_return
<1> HIDE DEF slots, result
<1>12. e.io = c.io
  BY <1>4, <1>7, <1>8, <1>9
<1>13. e.io \/ EmittedRepr[e.result] = CRepr[c.result]
  BY <1>4, <1>10, <1>11, <1>12
<1>14. QED
  BY <1>5, <1>12, <1>13 DEF Agree

LEMMA CheckedGlobal ==
  ASSUME NEW s, NEW c \in Shapes, NEW e \in Exports, e.kind = "Global",
         Expected(Describing(s, e), s, c) = Describing(s, e)
  PROVE  ~c.io /\ ~e.io /\ EmittedRepr[e.result] = CRepr[c.result]
<1>1. ~e.io
  BY DEF Exports
<1> DEFINE result == ReturnAbi(EmittedRepr[e.result],
                               OwnershipExpected(EmittedRepr[e.result]), "Pure")
<1>2. Describing(s, e) = global(s, result)
  BY <1>1 DEF Describing
<1>3. /\ \A r : global(s, r).kind = "Global" /\ global(s, r).result = r
      /\ \A a, r : function(s, a, r).kind = "Function"
  BY DEF global, function, Signature
<1>4. ~c.io /\ Expected(Describing(s, e), s, c) = global(s, export_abi_return(c))
  BY <1>2, <1>3 DEF Expected
<1>5. result = export_abi_return(c)
  BY <1>2, <1>3, <1>4
<1>6. export_abi_return(c).repr = CRepr[c.result] /\ result.repr = EmittedRepr[e.result]
  BY <1>4 DEF export_abi_return, ReturnAbi
<1>7. QED
  BY <1>1, <1>4, <1>5, <1>6

LEMMA CheckedMeans ==
  ASSUME ExportInv, handle # NoHandle
  PROVE  LET e == dylib.exports[handle.name]
             c == handle.call
         IN  /\ ~dylib.stripped => handle.target = e.kind
             /\ signed[handle.name] = Describing(handle.name, e) /\ outcome # NoOutcome =>
                  Means(e, c, outcome, returned)
<1> DEFINE s == handle.name
           e == dylib.exports[s]
           c == handle.call
<1>1. /\ HandleChecked(handle) /\ stage = "open" /\ dylib \in Dylibs
      /\ outcome # NoOutcome => CallMade(handle)
  BY DEF ExportInv, AtRest
<1>2. s \in Symbols /\ c \in Shapes /\ e \in Exports \cup {Absent}
  BY <1>1, ExportTypes DEF HandleChecked
<1>3. s \in globals <=> ~dylib.stripped /\ e.kind = "Global"
  BY <1>2 DEF globals
<1>4. e \in Exports
  <2>1. e = Absent => s \notin globals
    BY <1>3 DEF Absent
  <2>2. QED
    BY <1>1, <1>2, <2>1 DEF HandleChecked, Resolves
<1>5. e.kind \in {"Function", "Global"}
  BY <1>4, NamesAre DEF Exports
<1>6. ~dylib.stripped => handle.target = e.kind
  BY <1>1, <1>3, <1>5 DEF HandleChecked
<1>7. ASSUME signed[s] = Describing(s, e), outcome # NoOutcome
      PROVE  Means(e, c, outcome, returned)
  <2>1. /\ Expected(Describing(s, e), s, c) = Describing(s, e)
        /\ Describing(s, e).kind = ActualKind(s)
        /\ returned.value \in Inhabitants(e.result)
        /\ returned.raised \in BOOLEAN /\ (returned.raised => e.io)
        /\ outcome = CallOutcome(handle.target, e, c, returned)
    BY <1>1, <1>7 DEF HandleChecked, CallMade
  <2>2. CASE e.kind = "Function"
    <3>1. handle.target = "Function" /\ Agree(e, c)
      BY <1>1, <1>2, <1>3, <1>4, <2>1, <2>2, CheckedFunction DEF HandleChecked
    <3>2. outcome = Decodes(e, c, returned) /\ e.io = c.io
      BY <2>1, <2>2, <3>1 DEF CallOutcome, Agree
    <3> HIDE DEF e, c, s
    <3>3. QED
      BY <1>2, <2>1, <3>2, DecodedMeans
  <2>3. CASE e.kind = "Global"
    <3>1. ~c.io /\ ~e.io /\ EmittedRepr[e.result] = CRepr[c.result]
      BY <1>2, <1>4, <2>1, <2>3, CheckedGlobal
    <3>2. handle.target = "Global"
      <4>1. Describing(s, e).kind = "Global"
        BY <2>3 DEF Describing, global, Signature
      <4>2. s \in globals
        BY <2>1, <4>1 DEF ActualKind
      <4>3. QED
        BY <1>1, <4>2 DEF HandleChecked
    <3>3. CASE EmittedRepr[e.result] # "LeanObject"
      <4>1. outcome = Undefined /\ ScalarGlobal(e) /\ returned.raised = FALSE
        BY <2>1, <2>3, <3>1, <3>2, <3>3 DEF CallOutcome, ScalarGlobal
      <4>2. QED
        BY <4>1, OutcomesAre DEF Means
    <3>4. CASE EmittedRepr[e.result] = "LeanObject"
      <4>1. outcome = FromC(c.result, e.result, returned.value)
        BY <2>1, <3>1, <3>2, <3>4 DEF CallOutcome
      <4>2. outcome = Decodes(e, c, returned)
        BY <3>1, <4>1 DEF Decodes
      <4>3. e.io = c.io
        <5>1. e.io \in BOOLEAN /\ c.io \in BOOLEAN
          BY <1>2, <1>4 DEF Exports, Shapes
        <5>2. QED
          BY <3>1, <5>1
      <4> HIDE DEF e, c, s
      <4>4. QED
        BY <1>2, <2>1, <4>2, <4>3, DecodedMeans
    <3>5. QED
      BY <3>3, <3>4
  <2>4. QED
    BY <1>5, <2>2, <2>3
<1>8. QED
  BY <1>6, <1>7

LEMMA CallsMean == ExportInv => CallsKeepMeaning
<1> SUFFICES ASSUME ExportInv, handle # NoHandle PROVE CallsKeepMeaning
  BY DEF CallsKeepMeaning
<1>1. LET e == dylib.exports[handle.name]
          c == handle.call
      IN  /\ ~dylib.stripped => handle.target = e.kind
          /\ signed[handle.name] = Describing(handle.name, e) /\ outcome # NoOutcome =>
               Means(e, c, outcome, returned)
  BY CheckedMeans
<1>2. QED
  BY <1>1, Zenon DEF CallsKeepMeaning, Means

\* For any exports, declarations, callers and libraries: the loader checks against
\* what the build script declared and refuses a contradictory script, and a checked
\* call of a library that its manifest describes gives what Lean returned
\* (loader.rs, manifest_validation.rs, LeanCapability::exported, LeanExported::call).
THEOREM CallsAreChecked == ExportSpec => []CheckedCallsHold
<1>1. ExportInv => CheckedCallsHold
  BY SignaturesAreDeclared, CallsMean DEF CheckedCallsHold
<1>2. QED
  BY <1>1, ExportInitInv, ExportNextInv, PTL DEF ExportSpec
=============================================================================
