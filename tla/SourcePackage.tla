---------------------------- MODULE SourcePackage ----------------------------
(***************************************************************************)
(* The cache of packaged Lean sources (lean-toolchain/src/source_package.rs)*)
(* below one digest directory.  Processes -- build scripts -- materialize   *)
(* the payload for a toolchain label: an entry directory per label, a lock  *)
(* file per entry, and temporary directories that every label shares.  A    *)
(* process builds the entry in a temporary directory and renames it.        *)
(*                                                                         *)
(* A directory is the set of its <<file, content>> pairs, and the empty set *)
(* is a directory that is absent or has no file.  The digest is the         *)
(* caller's: payload and sentinels are those of the digest, payload files   *)
(* have one content.  Every removal is one step per file, and a process that *)
(* has opened a directory to remove it goes on below a new name.            *)
(***************************************************************************)
EXTENDS Integers, Sequences, FiniteSets

CONSTANTS
    Procs,          \* processes that materialize packages
    Labels,         \* toolchain labels callers ask for
    Entries,        \* file names of entries below the digest directory
    Sanitize,       \* label -> entry
    Requests,       \* [label, version, generated, policy]
    Payload,        \* the included files, in the order they are copied
    PayloadPackages,\* the payload's lake-manifest.json lists packages
    Sentinels,      \* files a warm entry must have
    MaxCalls,       \* calls of all processes
    MaxCrashes,     \* processes that die within a call
    MaxFaults       \* file-system operations that fail

Manifest  == "lake-manifest.json"
Toolchain == "lean-toolchain"
Sidecar   == "source-package.json"

Range1(s) == {s[i] : i \in DOMAIN s}

ASSUME SourcePackageAssumption ==
    /\ Sanitize \in [Labels -> Entries]
    /\ Payload \in Seq(Range1(Payload))
    /\ \A r \in Requests :
        /\ r.label \in Labels
        /\ r.generated \in Seq(Range1(r.generated))
        /\ \A x \in Range1(r.generated) : x = <<x[1], x[2]>>
    /\ PayloadPackages \in BOOLEAN
    /\ {MaxCalls, MaxCrashes, MaxFaults} \subseteq Nat

VARIABLES
    pc,         \* process -> where it is in its call
    request,    \* process -> the request it serves
    result,     \* process -> how its last call ended
    calls,      \* calls that were begun
    written,    \* process -> files it has put into its temporary directory
    temp,       \* process -> its temporary directory
    root,       \* entry -> the installed directory
    lock,       \* entry -> processes that hold its lock file
    sweep,      \* process -> owners of the temporary directories it removes
    follows,    \* process -> entries that were such a directory when it
                \* opened them: it goes on removing their files
    crashes, faults,
    stolen,     \* history: processes that build and whose temporary directory
                \* lost a file to the sweep of another label's process
    cut         \* history: entries with a removal that stopped half way, that
                \* were installed from what was left of a stolen directory, or
                \* that lost a file to a sweep that follows

vars == <<pc, request, result, calls, written, temp, root, lock, sweep,
          follows, crashes, faults, stolen, cut>>

Entry(r) == Sanitize[r.label]
Key(p)   == Entry(request[p])

-----------------------------------------------------------------------------
(* Contents.                                                               *)

Has(d, f)        == \E x \in d : x[1] = f
Holds(d, f, c)   == <<f, c>> \in d
Put(d, f, c)     == {x \in d : x[1] # f} \cup {<<f, c>>}

\* the sidecar records every field of the request that names an owner
Provenance(r) == <<r.label, r.version>>

\* copy_payload, the generated files, lean-toolchain, the sidecar
Writes(r) ==
    LET copied == [i \in DOMAIN Payload |-> <<Payload[i], "payload">>]
    IN  copied \o r.generated
               \o <<<<Toolchain, r.label>>, <<Sidecar, Provenance(r)>>>>

\* the directory the first n writes leave
Built(r, n) ==
    LET w == SubSeq(Writes(r), 1, n)
    IN  {w[i] : i \in {j \in DOMAIN w :
            \A k \in DOMAIN w : k > j => w[k][1] # w[j][1]}}

Wanted(r) == Built(r, Len(Writes(r)))

\* validate_lake_manifest
ManifestAllowed(r, d) ==
    /\ Has(d, Manifest)
    /\ r.policy = "ZeroPackages" /\ PayloadPackages
        => ~Holds(d, Manifest, "payload")

\* what a new directory is installed for
Checked(r, d) == ManifestAllowed(r, d) /\ \A f \in Sentinels : Has(d, f)

\* Mutant: a warm entry is known by its sidecar alone
VerdictOfSidecar(r, d) ==
    IF Holds(d, Sidecar, Provenance(r)) THEN "hit" ELSE "miss"

\* entry_matches: "hit", "miss", or "error" -- a generated file that cannot
\* be read and a manifest against the policy are errors, not misses
Verdict(r, d) ==
    LET present   == \A f \in Sentinels \cup {Manifest, Toolchain, Sidecar} :
                        Has(d, f)
        owned     == Holds(d, Sidecar, Provenance(r))
        labelled  == Holds(d, Toolchain, r.label)
        differing == {i \in DOMAIN r.generated : r.generated[i] \notin d}
        firstDiff == CHOOSE i \in differing : \A j \in differing : i <= j
    IN  IF ~(present /\ owned /\ labelled) THEN "miss"
        ELSE IF differing # {}
        THEN IF Has(d, r.generated[firstDiff][1]) THEN "miss" ELSE "error"
        ELSE IF ManifestAllowed(r, d) THEN "hit" ELSE "error"

-----------------------------------------------------------------------------
Init ==
    /\ pc = [p \in Procs |-> "idle"]
    /\ request \in [Procs -> Requests]
    /\ result = [p \in Procs |-> "none"]
    /\ calls = 0
    /\ written = [p \in Procs |-> 0]
    /\ temp = [p \in Procs |-> {}]
    /\ root = [e \in Entries |-> {}]
    /\ lock = [e \in Entries |-> {}]
    /\ sweep = [p \in Procs |-> {}] /\ follows = [p \in Procs |-> {}]
    /\ crashes = 0 /\ faults = 0
    /\ stolen = {} /\ cut = {}

\* a file-system operation fails
Fault == faults < MaxFaults /\ faults' = faults + 1

\* Mutant: what the call wrote is still counted
ReturnAndKeep(p, how) ==
    /\ pc' = [pc EXCEPT ![p] = "idle"]
    /\ result' = [result EXCEPT ![p] = how]
    /\ lock' = [lock EXCEPT ![Key(p)] = @ \ {p}]
    /\ stolen' = stolen \ {p}
    /\ UNCHANGED written

\* the call returns and its EntryLock is dropped; its temporary directory is
\* nobody's any more
Return(p, how) ==
    /\ pc' = [pc EXCEPT ![p] = "idle"]
    /\ result' = [result EXCEPT ![p] = how]
    /\ lock' = [lock EXCEPT ![Key(p)] = @ \ {p}]
    /\ written' = [written EXCEPT ![p] = 0]
    /\ stolen' = stolen \ {p}

Goto(p, where) ==
    /\ pc' = [pc EXCEPT ![p] = where]
    /\ UNCHANGED <<result, lock, stolen>>

\* materialize_source_package up to the wait for the lock
Begin(p, r) ==
    /\ pc[p] = "idle" /\ calls < MaxCalls
    /\ pc' = [pc EXCEPT ![p] = "lock"]
    /\ request' = [request EXCEPT ![p] = r]
    /\ result' = [result EXCEPT ![p] = "none"]
    /\ calls' = calls + 1
    /\ UNCHANGED <<written, temp, root, lock, sweep, follows, crashes, faults,
                   stolen, cut>>

\* Mutant: the lock file is opened but not locked
LockShared(p) ==
    /\ pc[p] = "lock"
    /\ lock' = [lock EXCEPT ![Key(p)] = @ \cup {p}]
    /\ pc' = [pc EXCEPT ![p] = "match"]
    /\ UNCHANGED <<request, result, calls, written, temp, root, sweep,
                   follows, crashes, faults, stolen, cut>>

\* lock_entry: the operating system's exclusive lock of the entry's file
Lock(p) ==
    /\ pc[p] = "lock" /\ lock[Key(p)] = {}
    /\ lock' = [lock EXCEPT ![Key(p)] = {p}]
    /\ pc' = [pc EXCEPT ![p] = "match"]
    /\ UNCHANGED <<request, result, calls, written, temp, root, sweep,
                   follows, crashes, faults, stolen, cut>>

\* a warm entry is returned as it is
Match(p) ==
    /\ pc[p] = "match"
    /\ LET verdict == Verdict(request[p], root[Key(p)])
       IN  \/ verdict = "hit" /\ Return(p, "ok")
           \/ verdict = "error" /\ Return(p, "rejected")
           \/ verdict = "miss" /\ Goto(p, "remove") /\ UNCHANGED written
    /\ UNCHANGED <<request, calls, temp, root, sweep, follows, crashes,
                   faults, cut>>

\* Mutant: the stale entry is left for the rename to replace
RemoveNothing(p) ==
    /\ pc[p] = "remove"
    /\ Goto(p, "clean")
    /\ sweep' = [sweep EXCEPT ![p] = {q \in Procs : temp[q] # {}}]
    /\ UNCHANGED <<root, cut, follows, request, calls, written, temp, crashes,
                   faults>>

\* remove_path_if_exists of the stale entry: its files go in any order; then
\* the temporary directories are listed
RemoveStale(p) ==
    /\ pc[p] = "remove"
    /\ \/ \E x \in root[Key(p)] :
            /\ root' = [root EXCEPT ![Key(p)] = @ \ {x}]
            /\ Goto(p, "remove")
            /\ UNCHANGED <<cut, sweep, follows>>
       \/ /\ root[Key(p)] = {}
          /\ cut' = cut \ {Key(p)}
          /\ follows' = [q \in Procs |-> follows[q] \ {Key(p)}]
          /\ sweep' = [sweep EXCEPT ![p] = {q \in Procs : temp[q] # {}}]
          /\ Goto(p, "clean")
          /\ UNCHANGED root
    /\ UNCHANGED <<request, calls, written, temp, crashes, faults>>

Building == {"write", "check", "install"}

\* clean_stale_temps, one file of a temporary directory below the digest
\* directory, whoever fills it; the listing may show later directories too
SweepFile(p) ==
    /\ pc[p] = "clean"
    /\ \E q \in Procs : \E x \in temp[q] :
        /\ temp' = [temp EXCEPT ![q] = @ \ {x}]
        /\ sweep' = [sweep EXCEPT ![p] = @ \cup {q}]
        /\ stolen' = IF pc[q] \in Building /\ Key(q) # Key(p)
                     THEN stolen \cup {q} ELSE stolen
    /\ UNCHANGED <<pc, request, result, calls, written, root, lock, follows,
                   crashes, faults, cut>>

\* a directory it has opened was renamed: its files go from the entry
SweepInstalled(p) ==
    /\ pc[p] = "clean"
    /\ \E e \in follows[p] : \E x \in root[e] :
        /\ root' = [root EXCEPT ![e] = @ \ {x}]
        /\ cut' = cut \cup {e}
    /\ UNCHANGED <<pc, request, result, calls, written, temp, lock, sweep,
                   follows, crashes, faults, stolen>>

\* a directory is empty and removed
SweepNext(p) ==
    /\ pc[p] = "clean"
    /\ \E q \in sweep[p] :
        /\ temp[q] = {}
        /\ sweep' = [sweep EXCEPT ![p] = @ \ {q}]
    /\ UNCHANGED <<pc, request, result, calls, written, temp, root, lock,
                   follows, crashes, faults, stolen, cut>>

\* every directory it has seen is removed
SweepEnds(p) ==
    /\ pc[p] = "clean" /\ sweep[p] = {}
    /\ \A e \in follows[p] : root[e] = {}
    /\ follows' = [follows EXCEPT ![p] = {}]
    /\ Goto(p, "write")
    /\ UNCHANGED <<request, calls, written, temp, root, sweep, crashes, faults,
                   cut>>

\* the next file; every write makes the directories above it first
WriteNext(p) ==
    /\ pc[p] = "write"
    /\ LET w == Writes(request[p])[written[p] + 1]
       IN  temp' = [temp EXCEPT ![p] = Put(@, w[1], w[2])]
    /\ written' = [written EXCEPT ![p] = @ + 1]
    /\ Goto(p, IF written'[p] = Len(Writes(request[p])) THEN "check" ELSE "write")
    /\ UNCHANGED <<request, calls, root, sweep, follows, crashes, faults, cut>>

\* the manifest and the sentinels of the new entry
CheckNew(p) ==
    /\ pc[p] = "check"
    /\ IF Checked(request[p], temp[p])
       THEN Goto(p, "install") /\ UNCHANGED written
       ELSE Return(p, "rejected")
    /\ UNCHANGED <<request, calls, temp, root, sweep, follows, crashes,
                   faults, cut>>

\* processes whose sweep has the temporary directory of p
Sweepers(p) == {q \in Procs : p \in sweep[q]}

\* the rename, which fails if the temporary directory is gone or the entry has
\* files, and which may find a directory that is emptied and not yet removed;
\* sweeps that have opened the directory follow it, the temporary name is free
Install(p) ==
    /\ pc[p] = "install"
    /\ \/ /\ temp[p] # {} \/ Sweepers(p) # {}
          /\ root[Key(p)] = {}
          /\ root' = [root EXCEPT ![Key(p)] = temp[p]]
          /\ cut' = IF p \in stolen THEN cut \cup {Key(p)} ELSE cut
          /\ \E opened \in SUBSET Sweepers(p) :
                follows' = [q \in Procs |-> IF q \in opened THEN follows[q] \cup {Key(p)}
                                           ELSE follows[q]]
          /\ Return(p, "ok")
       \/ /\ temp[p] = {} \/ root[Key(p)] # {}
          /\ Return(p, "rejected")
          /\ UNCHANGED <<root, cut, follows>>
    /\ temp' = [temp EXCEPT ![p] = {}]
    /\ sweep' = [q \in Procs |-> sweep[q] \ {p}]
    /\ UNCHANGED <<request, calls, crashes, faults>>

CutShort(p) == IF pc[p] = "remove" THEN cut \cup {Key(p)} ELSE cut

\* another process removes or makes files where the call of p looks, writes or
\* removes
Disturbed(p) ==
    \/ pc[p] \in {"match", "remove"} /\ \E q \in Procs : Key(p) \in follows[q]
    \/ pc[p] \in Building /\ Sweepers(p) # {}
    \/ /\ pc[p] = "clean"
       /\ \/ follows[p] # {}
          \/ \E q \in sweep[p] : pc[q] \in Building \/ Sweepers(q) # {p}

\* an operation of the call fails and the error is returned; what is left of
\* a temporary directory stays, but for a rename that failed
FailIo(p) ==
    /\ pc[p] # "idle" /\ (Fault \/ (Disturbed(p) /\ UNCHANGED faults))
    /\ Return(p, "io")
    /\ temp' = IF pc[p] = "install" THEN [temp EXCEPT ![p] = {}] ELSE temp
    /\ cut' = CutShort(p)
    /\ sweep' = [sweep EXCEPT ![p] = {}] /\ follows' = [follows EXCEPT ![p] = {}]
    /\ UNCHANGED <<request, calls, root, crashes>>

\* the process dies: the system drops its lock, its files stay
Crash(p) ==
    /\ pc[p] # "idle" /\ crashes < MaxCrashes
    /\ Return(p, "crashed")
    /\ crashes' = crashes + 1
    /\ cut' = CutShort(p)
    /\ sweep' = [sweep EXCEPT ![p] = {}] /\ follows' = [follows EXCEPT ![p] = {}]
    /\ UNCHANGED <<request, calls, temp, root, faults>>

Next ==
    \E p \in Procs :
        \/ \E r \in Requests : Begin(p, r)
        \/ Lock(p) \/ Match(p) \/ RemoveStale(p)
        \/ SweepFile(p) \/ SweepInstalled(p) \/ SweepNext(p) \/ SweepEnds(p)
        \/ WriteNext(p) \/ CheckNew(p) \/ Install(p)
        \/ FailIo(p) \/ Crash(p)

Spec == Init /\ [][Next]_vars

-----------------------------------------------------------------------------
(* Properties.                                                             *)

\* what any request writes
AllWrites == UNION {Range1(Writes(r)) : r \in Requests}

(* Every variable keeps its type; temporary directories and entries hold    *)
(* only what some request writes.                                           *)
TypeOK ==
    /\ pc \in [Procs -> {"idle", "lock", "match", "remove", "clean", "write",
                         "check", "install"}]
    /\ request \in [Procs -> Requests]
    /\ result \in [Procs -> {"none", "ok", "rejected", "io", "crashed"}]
    /\ lock \in [Entries -> SUBSET Procs]
    /\ sweep \in [Procs -> SUBSET Procs] /\ follows \in [Procs -> SUBSET Entries]
    /\ stolen \subseteq Procs /\ cut \subseteq Entries
    /\ calls \in 0 .. MaxCalls /\ written \in [Procs -> Nat]
    /\ temp \in [Procs -> SUBSET AllWrites] /\ root \in [Entries -> SUBSET AllWrites]
    /\ \A p \in Procs :
        /\ written[p] \in 0 .. Len(Writes(request[p]))
        /\ \E r \in Requests : temp[p] \subseteq Range1(Writes(r))
    /\ \A e \in Entries :
        root[e] = {} \/ \E r \in Requests :
                          Entry(r) = e /\ root[e] \subseteq Range1(Writes(r))

\* the call of p returns in this step; "ok" is with a project root
Ends(p, how) == pc[p] # "idle" /\ pc'[p] = "idle" /\ result'[p] = how

\* the lock and the rename do not cover the call: its temporary directory lost
\* a file to another label's sweep, or its entry is what a removal that stopped
\* or a sweep has left
Excused(p) == p \in stolen \/ Key(p) \in cut

\* requests that a sidecar does not tell apart
SameOwner(r, s) == Provenance(r) = Provenance(s)

\* entry_matches asks a directory for the files r generates, not for the others
Accepts(r, s) == r = s \/ Range1(r.generated) \subseteq Wanted(s)

\* r generates a file that the directory of s lacks
Lacks(r, s) == \E x \in Range1(r.generated) : ~Has(Wanted(s), x[1])

(* A call that succeeds returns the directory that one request of its owner  *)
(* and label wrote, whole, with the manifest and the sentinels it needs and  *)
(* the files it generates; where that request generates other files, those   *)
(* are there too, in place of copied ones if they have their names.  A call  *)
(* is rejected for its own request only, or because the entry is that of a   *)
(* request of its owner that does not generate one of its files (a read      *)
(* error, not a miss).  Both fail where the locks do not reach: the call's   *)
(* directory was swept by a call for another label (source_package.rs 506),  *)
(* its entry was, being renamed meanwhile, or a removal of the entry stopped *)
(* half way (253, 532); InstallsAreAtomic is what these break.  An operation *)
(* that fails under a call, by a fault or by such a collision, is an error   *)
(* of its own and not meant here.                                            *)
CallsEndRightly ==
    [][\A p \in Procs :
        LET r == request[p]
        IN  /\ Ends(p, "ok") =>
                \/ Key(p) \in cut'
                \/ /\ Checked(r, root'[Key(p)])
                   /\ \E s \in Requests : /\ SameOwner(r, s) /\ Accepts(r, s)
                                         /\ root'[Key(p)] = Wanted(s)
            /\ Ends(p, "rejected") =>
                \/ ~Checked(r, Wanted(r))
                \/ \E s \in Requests : /\ SameOwner(r, s) /\ Lacks(r, s)
                                      /\ root[Key(p)] = Wanted(s)
                \/ Excused(p)]_vars

(* "Digest-keyed directories, per-entry locking, atomic installation" (the    *)
(* module's doc, source_package.rs 4-5): a call that succeeds returns the     *)
(* directory that some request of its owner and label wrote, whole.  The code *)
(* breaks it in the two ways that CallsEndRightly excepts.                    *)
InstallsAreAtomic ==
    [][\A p \in Procs :
        Ends(p, "ok") => \E s \in Requests : /\ SameOwner(request[p], s)
                                            /\ root'[Key(p)] = Wanted(s)]_vars

=============================================================================
