-------------------------- MODULE Toolchain_proofs --------------------------
(***************************************************************************)
(* Proofs about what lean-toolchain keeps in files that several processes  *)
(* share: the cache of packaged sources (SourcePackage) and the build cache *)
(* and manifests of a capability (Artifacts).                               *)
(*                                                                         *)
(* Packages, for any processes, labels, requests and payloads: the lock of  *)
(* an entry admits one process, so what a process wrote is still what it     *)
(* wrote when it installs it, but for the sweep of another label's process; *)
(* and an entry is a whole directory of one request, but for a removal that *)
(* stopped half way and a sweep that follows a directory over its rename.    *)
(*                                                                         *)
(* Artifacts, for any builders, loaders, files, options and toolchains:      *)
(* time stamps order what was compiled, keyed and published, so a key that  *)
(* matches names the library that is there, and a manifest that is not older *)
(* than the library describes it.                                           *)
(***************************************************************************)
EXTENDS SourcePackage, Artifacts, FiniteSetTheorems, SequenceTheorems, TLAPS

-----------------------------------------------------------------------------
(* Numbers                                                                 *)

\* The least number of a set.
LEMMA LeastNatural ==
  ASSUME NEW S \in SUBSET Nat, S # {}
  PROVE  \E m \in S : \A k \in S : m <= k
<1> DEFINE T == {1..n : n \in S}
           R == StrictSubsetOrdering(Nat)
<1>1. T \subseteq FiniteSubsetsOf(Nat) /\ T # {}
  <2>1. \A n \in S : 1..n \in FiniteSubsetsOf(Nat)
    BY FS_Interval DEF FiniteSubsetsOf
  <2>2. QED
    BY <2>1
<1>2. PICK x \in T : \A y \in T : ~(<<y, x>> \in R)
  <2>1. IsWellFoundedOn(R, FiniteSubsetsOf(Nat))
    BY FS_StrictSubsetOrderingWellFounded
  <2> HIDE DEF T, R
  <2>2. QED
    BY <1>1, <2>1, WFMin
<1>3. PICK m \in S : x = 1..m
  BY <1>2
<1>4. ASSUME NEW k \in S, k < m PROVE FALSE
  <2>1. 1..k \in T /\ x = 1..m
    BY <1>3
  <2>2. 1..k \in SUBSET Nat /\ 1..m \in SUBSET Nat
    OBVIOUS
  <2>3. 1..k \subseteq 1..m /\ 1..k # 1..m
    <3>1. k \in Nat /\ m \in Nat
      OBVIOUS
    <3>2. m \in 1..m /\ m \notin 1..k
      BY <1>4, <3>1
    <3>3. QED
      BY <1>4, <3>1, <3>2
  <2>4. <<1..k, 1..m>> \in R
    BY <2>2, <2>3 DEF StrictSubsetOrdering
  <2> HIDE DEF T, R
  <2>5. QED
    BY <1>2, <2>1, <2>4
<1>5. \A k \in S : ~(k < m)
  BY <1>4
<1>6. QED
  BY <1>3, <1>5

\* The greatest number of a bounded set.
LEMMA GreatestNatural ==
  ASSUME NEW n \in Nat, NEW S \in SUBSET (1..n), S # {}
  PROVE  \E m \in S : \A k \in S : k <= m
<1> DEFINE T == {n - i : i \in S}
<1>1. T \in SUBSET Nat /\ T # {}
  <2>1. \A i \in S : i \in 1..n /\ n - i \in Nat
    OBVIOUS
  <2>2. QED
    BY <2>1
<1>2. PICK m \in T : \A k \in T : m <= k
  BY <1>1, LeastNatural
<1>3. PICK i \in S : m = n - i
  BY <1>2
<1>4. \A k \in S : n - i <= n - k
  BY <1>2, <1>3
<1>5. QED
  BY <1>4

-----------------------------------------------------------------------------
(* What a request writes                                                   *)

\* The parts of a request's writes: payload, generated files, lean-toolchain,
\* sidecar.
Copied == [i \in DOMAIN Payload |-> <<Payload[i], "payload">>]
GeneratedFrom == Len(Payload)
LabelAt(r) == Len(Payload) + Len(r.generated) + 1
SidecarAt(r) == Len(Payload) + Len(r.generated) + 2

LEMMA WritesAre ==
  ASSUME NEW r \in Requests
  PROVE  LET w == Writes(r)
         IN /\ Len(Payload) \in Nat /\ Len(r.generated) \in Nat
            /\ Len(w) = SidecarAt(r) /\ DOMAIN w = 1..SidecarAt(r)
            /\ \A i \in 1..Len(Payload) : w[i] = <<Payload[i], "payload">>
            /\ \A i \in 1..Len(r.generated) : w[Len(Payload) + i] = r.generated[i]
            /\ w[LabelAt(r)] = <<Toolchain, r.label>>
            /\ w[SidecarAt(r)] = <<Sidecar, Provenance(r)>>
            /\ w \in Seq(Range1(w))
<1> DEFINE g == r.generated
           n == Len(Payload)
           m == Len(g)
           last == <<<<Toolchain, r.label>>, <<Sidecar, Provenance(r)>>>>
           S == Range1(Copied) \cup Range1(g) \cup Range1(last)
<1>1. Payload \in Seq(Range1(Payload)) /\ g \in Seq(Range1(g))
  BY SourcePackageAssumption
<1>2. n \in Nat /\ m \in Nat /\ DOMAIN Payload = 1..n /\ DOMAIN g = 1..m
  BY <1>1
<1>3. /\ Copied \in Seq(S) /\ Len(Copied) = n
      /\ \A i \in 1..n : Copied[i] = <<Payload[i], "payload">>
  <2>1. Copied \in [1..n -> S]
    BY <1>2 DEF Copied, Range1
  <2>2. \A i \in 1..n : Copied[i] = <<Payload[i], "payload">>
    BY <1>2 DEF Copied
  <2>3. Copied \in Seq(S) /\ Len(Copied) = n
    <3>1. PICK c : c = Copied
      OBVIOUS
    <3>2. c \in [1..n -> S] /\ n \in Nat
      BY <1>2, <2>1, <3>1
    <3>3. c \in Seq(S) /\ Len(c) = n
      <4> HIDE DEF S, n
      <4>1. QED
        BY <3>2
    <3>4. QED
      BY <3>1, <3>3
  <2>4. QED
    BY <2>2, <2>3
<1>4. g \in Seq(S) /\ \A i \in 1..m : g[i] \in S
  <2>1. PICK x, k : x = g /\ k = m
    OBVIOUS
  <2>2. x \in [1..k -> S] /\ k \in Nat
    BY <1>1, <1>2, <2>1 DEF Range1
  <2>3. x \in Seq(S) /\ \A i \in 1..k : x[i] \in S
    <3> HIDE DEF g, m, S
    <3>1. QED
      BY <2>2
  <2>4. QED
    BY <2>1, <2>3
<1>5. last \in Seq(S) /\ Len(last) = 2 /\ last[1] = <<Toolchain, r.label>>
      /\ last[2] = <<Sidecar, Provenance(r)>>
  <2>1. /\ Len(last) = 2 /\ DOMAIN last = 1..2 /\ last[1] = <<Toolchain, r.label>>
        /\ last[2] = <<Sidecar, Provenance(r)>>
    OBVIOUS
  <2>2. last \in [1..2 -> S]
    BY <2>1 DEF Range1
  <2>3. QED
    BY <2>1, <2>2
<1> HIDE DEF g, last, S, n, m
<1> DEFINE a == Copied \o g
           w == a \o last
<1>6. /\ a \in Seq(S) /\ Len(a) = n + m
      /\ \A i \in 1 .. n + m : a[i] = IF i <= n THEN Copied[i] ELSE g[i - n]
  BY <1>3, <1>4, ConcatProperties DEF m
<1> HIDE DEF a
<1>7. /\ w \in Seq(S) /\ Len(w) = n + m + 2
      /\ \A i \in 1 .. n + m + 2 : w[i] = IF i <= n + m THEN a[i] ELSE last[i - (n + m)]
  <2>1. PICK k, l : k = Len(a) /\ l = Len(last)
    OBVIOUS
  <2>2. /\ w \in Seq(S) /\ Len(w) = k + l
        /\ \A i \in 1 .. k + l : w[i] = IF i <= k THEN a[i] ELSE last[i - k]
    BY <1>5, <1>6, <2>1, ConcatProperties
  <2>3. k = n + m /\ l = 2
    BY <1>5, <1>6, <2>1
  <2> HIDE DEF w
  <2>4. QED
    BY <2>2, <2>3
<1>8. Writes(r) = w
  BY DEF Writes, Copied, w, a, g, last
<1> HIDE DEF w
<1>9. ASSUME NEW i \in 1..n PROVE w[i] = <<Payload[i], "payload">>
  <2>1. i \in 1 .. n + m + 2 /\ i \in 1 .. n + m /\ i <= n /\ i <= n + m
    BY <1>2
  <2>2. QED
    BY <1>3, <1>6, <1>7, <2>1
<1>10. ASSUME NEW i \in 1..m PROVE w[n + i] = g[i]
  <2>1. PICK k : k = n + i
    OBVIOUS
  <2>2. k \in 1 .. n + m + 2 /\ k \in 1 .. n + m /\ ~(k <= n) /\ k <= n + m /\ k - n = i
    BY <1>2, <2>1
  <2>3. w[k] = g[i]
    BY <1>6, <1>7, <2>2
  <2>4. QED
    BY <2>1, <2>3
<1>11. w[n + m + 1] = last[1] /\ w[n + m + 2] = last[2]
  <2>1. PICK k, l : k = n + m + 1 /\ l = n + m + 2
    OBVIOUS
  <2>2. /\ k \in 1 .. n + m + 2 /\ l \in 1 .. n + m + 2 /\ ~(k <= n + m) /\ ~(l <= n + m)
        /\ k - (n + m) = 1 /\ l - (n + m) = 2
    BY <1>2, <2>1
  <2>3. w[k] = last[1] /\ w[l] = last[2]
    BY <1>7, <2>2
  <2>4. QED
    BY <2>1, <2>3
<1>12. DOMAIN w = 1 .. n + m + 2
  BY <1>7
<1>13. w \in Seq(Range1(w))
  <2>1. w = [i \in 1..Len(w) |-> w[i]] /\ DOMAIN w = 1..Len(w) /\ Len(w) \in Nat
    BY <1>7
  <2>2. w \in [1..Len(w) -> Range1(w)]
    BY <2>1 DEF Range1
  <2>3. QED
    BY <2>1, <2>2
<1>14. /\ SidecarAt(r) = n + m + 2 /\ LabelAt(r) = n + m + 1
       /\ Len(Payload) = n /\ Len(r.generated) = m /\ r.generated = g
  BY DEF SidecarAt, LabelAt, n, m, g
<1>15. QED
  BY <1>2, <1>5, <1>7, <1>8, <1>9, <1>10, <1>11, <1>12, <1>13, <1>14

\* Every write is a file and its content.
LEMMA WritesArePairs ==
  ASSUME NEW r \in Requests, NEW i \in DOMAIN Writes(r)
  PROVE  Writes(r)[i] = <<Writes(r)[i][1], Writes(r)[i][2]>>
<1> DEFINE w == Writes(r)
           n == Len(Payload)
           m == Len(r.generated)
<1>1. /\ n \in Nat /\ m \in Nat /\ DOMAIN w = 1..SidecarAt(r)
      /\ \A k \in 1..n : w[k] = <<Payload[k], "payload">>
      /\ \A k \in 1..m : w[n + k] = r.generated[k]
      /\ w[LabelAt(r)] = <<Toolchain, r.label>>
      /\ w[SidecarAt(r)] = <<Sidecar, Provenance(r)>>
  BY WritesAre
<1>2. \A k \in 1..m : r.generated[k] = <<r.generated[k][1], r.generated[k][2]>>
  <2>1. DOMAIN r.generated = 1..m
    BY SourcePackageAssumption
  <2>2. \A x \in Range1(r.generated) : x = <<x[1], x[2]>>
    BY SourcePackageAssumption
  <2>3. ASSUME NEW k \in 1..m
        PROVE  r.generated[k] = <<r.generated[k][1], r.generated[k][2]>>
    <3>1. PICK x : x = r.generated[k]
      OBVIOUS
    <3>2. x \in Range1(r.generated)
      BY <2>1, <3>1 DEF Range1
    <3>3. QED
      BY <2>2, <3>1, <3>2
  <2>4. QED
    BY <2>3
<1> HIDE DEF w, n, m
<1>3. i \in 1..n \/ i = LabelAt(r) \/ i = SidecarAt(r) \/ \E k \in 1..m : i = n + k
  <2>1. i \in Nat /\ 1 <= i /\ i <= n + m + 2
    BY <1>1 DEF SidecarAt, w, n, m
  <2>2. CASE i > n /\ i <= n + m
    <3>1. i - n \in 1..m /\ i = n + (i - n)
      BY <1>1, <2>1, <2>2
    <3>2. QED
      BY <3>1
  <2>3. CASE i <= n \/ i > n + m
    BY <1>1, <2>1, <2>3 DEF SidecarAt, LabelAt, n, m
  <2>4. QED
    BY <1>1, <2>1, <2>2, <2>3
<1>4. w[i] = <<w[i][1], w[i][2]>>
  <2>1. CASE \E k \in 1..m : i = n + k
    BY <1>1, <1>2, <2>1
  <2>2. CASE i \in 1..n \/ i = LabelAt(r) \/ i = SidecarAt(r)
    BY <1>1, <2>2
  <2>3. QED
    BY <1>3, <2>1, <2>2
<1>5. QED
  BY <1>4 DEF w

\* The last of the first n writes of its file.
LastOf(r, n, i) == \A k \in 1..n : k > i => Writes(r)[k][1] # Writes(r)[i][1]

LEMMA BuiltIs ==
  ASSUME NEW r \in Requests, NEW n \in 0..Len(Writes(r))
  PROVE  Built(r, n) = {Writes(r)[i] : i \in {j \in 1..n : LastOf(r, n, j)}}
<1> DEFINE w == Writes(r)
           b == SubSeq(w, 1, n)
<1>1. w \in Seq(Range1(w)) /\ Len(w) \in Nat
  <2>1. w \in Seq(Range1(w))
    BY WritesAre
  <2>2. QED
    BY <2>1
<1>2. Built(r, n) = {b[i] : i \in {j \in DOMAIN b :
                       \A k \in DOMAIN b : k > j => b[k][1] # b[j][1]}}
  BY DEF Built
<1> HIDE DEF w
<1>3. DOMAIN b = 1..n /\ \A i \in 1..n : b[i] = w[i]
  BY <1>1
<1> HIDE DEF b
<1>4. QED
  BY <1>2, <1>3 DEF LastOf, w

LEMMA BuiltFirst == ASSUME NEW r \in Requests PROVE Built(r, 0) = {}
<1>1. 0 \in 0..Len(Writes(r))
  BY WritesAre DEF SidecarAt
<1>2. QED
  BY <1>1, BuiltIs

LEMMA BuiltNext ==
  ASSUME NEW r \in Requests, NEW n \in Nat, n < Len(Writes(r))
  PROVE  Built(r, n + 1) = Put(Built(r, n), Writes(r)[n + 1][1], Writes(r)[n + 1][2])
<1> DEFINE w == Writes(r)
<1>1. Len(w) \in Nat /\ n \in 0..Len(w) /\ n + 1 \in 0..Len(w) /\ n + 1 \in DOMAIN w
  BY WritesAre DEF SidecarAt
<1>2. PICK m : m = n + 1
  OBVIOUS
<1>3. m \in 0..Len(w) /\ m \in DOMAIN w /\ 1..m = (1..n) \cup {m} /\ \A i \in 1..n : m > i
      /\ ~(m > m)
  BY <1>1, <1>2
<1>4. /\ Built(r, n) = {w[i] : i \in {j \in 1..n : LastOf(r, n, j)}}
      /\ Built(r, m) = {w[i] : i \in {j \in 1..m : LastOf(r, m, j)}}
  BY <1>1, <1>3, BuiltIs
<1>5. w[m] = <<w[m][1], w[m][2]>>
  BY <1>3, WritesArePairs
<1>6. \A i \in 1..n : LastOf(r, m, i) <=> LastOf(r, n, i) /\ w[i][1] # w[m][1]
  BY <1>3 DEF LastOf
<1>7. LastOf(r, m, m)
  <2>1. \A k \in 1..n : ~(k > m)
    BY <1>1, <1>2
  <2>2. QED
    BY <1>3, <2>1 DEF LastOf
<1> HIDE DEF w
<1>8. Built(r, m) = {x \in Built(r, n) : x[1] # w[m][1]} \cup {w[m]}
  BY <1>3, <1>4, <1>6, <1>7
<1>9. Built(r, m) = Put(Built(r, n), w[m][1], w[m][2])
  BY <1>5, <1>8 DEF Put
<1>10. QED
  BY <1>2, <1>9 DEF w

-----------------------------------------------------------------------------
(* The directory a request wants                                           *)

\* What a directory under construction holds is what the request writes.
LEMMA BuiltPart ==
  ASSUME NEW r \in Requests, NEW n \in 0..Len(Writes(r))
  PROVE  Built(r, n) \subseteq Range1(Writes(r))
<1>1. Built(r, n) = {Writes(r)[i] : i \in {j \in 1..n : LastOf(r, n, j)}}
  BY BuiltIs
<1>2. 1..n \subseteq DOMAIN Writes(r)
  BY WritesAre DEF SidecarAt
<1>3. QED
  BY <1>1, <1>2 DEF Range1

\* A whole directory, by the last write of every file.
LEMMA WantedIs ==
  ASSUME NEW r \in Requests
  PROVE  LET m == SidecarAt(r)
         IN  /\ m \in Nat /\ DOMAIN Writes(r) = 1..m
             /\ Wanted(r) = {Writes(r)[i] : i \in {j \in 1..m : LastOf(r, m, j)}}
<1>1. Len(Writes(r)) = SidecarAt(r) /\ SidecarAt(r) \in Nat /\ DOMAIN Writes(r) = 1..SidecarAt(r)
  BY WritesAre DEF SidecarAt
<1>2. Len(Writes(r)) \in 0..Len(Writes(r))
  BY <1>1
<1>3. QED
  BY <1>1, <1>2, BuiltIs DEF Wanted

\* No file has two contents.
LEMMA WantedUnique ==
  ASSUME NEW r \in Requests, NEW x \in Wanted(r), NEW y \in Wanted(r), x[1] = y[1]
  PROVE  x = y
<1> DEFINE m == SidecarAt(r)
           w == Writes(r)
<1>1. m \in Nat /\ Wanted(r) = {w[i] : i \in {j \in 1..m : LastOf(r, m, j)}}
  BY WantedIs
<1> HIDE DEF m, w
<1>2. PICK i \in 1..m : LastOf(r, m, i) /\ x = w[i]
  BY <1>1
<1>3. PICK j \in 1..m : LastOf(r, m, j) /\ y = w[j]
  BY <1>1
<1>4. ~(j > i) /\ ~(i > j)
  BY <1>2, <1>3 DEF LastOf, w
<1>5. i = j
  BY <1>1, <1>4
<1>6. QED
  BY <1>2, <1>3, <1>5

\* Every file that is written is there.
LEMMA WantedHas ==
  ASSUME NEW r \in Requests, NEW f
  PROVE  Has(Wanted(r), f) <=> \E i \in DOMAIN Writes(r) : Writes(r)[i][1] = f
<1> DEFINE m == SidecarAt(r)
           w == Writes(r)
<1>1. /\ m \in Nat /\ DOMAIN w = 1..m
      /\ Wanted(r) = {w[i] : i \in {j \in 1..m : LastOf(r, m, j)}}
  BY WantedIs
<1> HIDE DEF m
<1>2. ASSUME NEW i \in 1..m, w[i][1] = f PROVE Has(Wanted(r), f)
  <2> DEFINE S == {j \in 1..m : w[j][1] = f}
  <2>1. S \in SUBSET (1..m) /\ S # {}
    BY <1>2
  <2>2. PICK j \in S : \A k \in S : k <= j
    <3> HIDE DEF S
    <3>1. QED
      BY <1>1, <2>1, GreatestNatural
  <2>3. \A k \in 1..m : k > j => w[k][1] # w[j][1]
    <3>1. \A k \in 1..m : k > j => ~(k <= j)
      BY <1>1, <2>1
    <3>2. QED
      BY <2>2, <3>1
  <2>4. w[j] \in Wanted(r) /\ w[j][1] = f
    BY <1>1, <2>2, <2>3 DEF LastOf
  <2>5. QED
    BY <2>4 DEF Has
<1>3. ASSUME Has(Wanted(r), f) PROVE \E i \in 1..m : w[i][1] = f
  BY <1>1, <1>3 DEF Has
<1>4. QED
  BY <1>1, <1>2, <1>3

\* The files a request writes.
GeneratedFiles(r) == {x[1] : x \in Range1(r.generated)}

\* Which of the writes of a file is the last.
LEMMA WantedParts ==
  ASSUME NEW r \in Requests
  PROVE  /\ <<Toolchain, r.label>> \in Wanted(r) /\ <<Sidecar, Provenance(r)>> \in Wanted(r)
         /\ \A x \in Wanted(r) :
              \/ x = <<Toolchain, r.label>> \/ x = <<Sidecar, Provenance(r)>>
              \/ x \in Range1(r.generated)
              \/ /\ x[1] \notin GeneratedFiles(r) /\ x[1] \in Range1(Payload)
                 /\ x = <<x[1], "payload">>
         /\ \A f : Has(Wanted(r), f) <=>
              f \in {Toolchain, Sidecar} \cup GeneratedFiles(r) \cup Range1(Payload)
<1> DEFINE w == Writes(r)
           n == Len(Payload)
           k == Len(r.generated)
           m == n + k + 2
<1>1. /\ n \in Nat /\ k \in Nat /\ m \in Nat /\ DOMAIN w = 1..m
      /\ \A i \in 1..n : w[i] = <<Payload[i], "payload">>
      /\ \A i \in 1..k : w[n + i] = r.generated[i]
      /\ w[m - 1] = <<Toolchain, r.label>> /\ w[m] = <<Sidecar, Provenance(r)>>
      /\ m - 1 = n + k + 1
  BY WritesAre DEF SidecarAt, LabelAt
<1>2. DOMAIN Payload = 1..n /\ DOMAIN r.generated = 1..k
  BY SourcePackageAssumption
<1>3. Wanted(r) = {w[i] : i \in {j \in 1..m : LastOf(r, m, j)}}
  BY WantedIs DEF SidecarAt
<1> HIDE DEF w, n, k
<1>4. LastOf(r, m, m) /\ LastOf(r, m, m - 1)
  <2>1. \A j \in 1..m : ~(j > m) /\ (j > m - 1 => j = m)
    BY <1>1
  <2>2. w[m][1] # w[m - 1][1]
    BY <1>1 DEF Sidecar, Toolchain
  <2> HIDE DEF m
  <2>3. QED
    BY <2>1, <2>2 DEF LastOf, w
<1>5. m \in 1..m /\ m - 1 \in 1..m
  BY <1>1
<1>6. \A i \in 1..k : n + i \in 1..m
  BY <1>1
<1>7. ASSUME NEW i \in 1..m
      PROVE  i \in 1..n \/ i = m - 1 \/ i = m \/ \E j \in 1..k : i = n + j
  <2>1. CASE i > n /\ i <= n + k
    <3>1. i - n \in 1..k /\ i = n + (i - n)
      BY <1>1, <2>1
    <3>2. QED
      BY <3>1
  <2>2. CASE i <= n \/ i > n + k
    BY <1>1, <2>2
  <2>3. QED
    BY <1>1, <2>1, <2>2
<1>8. <<Toolchain, r.label>> \in Wanted(r) /\ <<Sidecar, Provenance(r)>> \in Wanted(r)
  BY <1>1, <1>3, <1>4, <1>5, Zenon
<1>9. \A i \in 1..k : r.generated[i] \in Range1(r.generated)
  BY <1>2 DEF Range1
<1>10. \A i \in 1..n : Payload[i] \in Range1(Payload) /\ \A j \in 1..k : n + j > i
  BY <1>1, <1>2 DEF Range1
<1> HIDE DEF m
<1>11. ASSUME NEW x \in Wanted(r)
       PROVE  \/ x = <<Toolchain, r.label>> \/ x = <<Sidecar, Provenance(r)>>
              \/ x \in Range1(r.generated)
              \/ /\ x[1] \notin GeneratedFiles(r) /\ x[1] \in Range1(Payload)
                 /\ x = <<x[1], "payload">>
  <2>1. PICK i \in 1..m : LastOf(r, m, i) /\ x = w[i]
    BY <1>3
  <2>2. CASE i \in 1..n
    <3>1. x = <<Payload[i], "payload">> /\ x[1] = Payload[i]
      BY <1>1, <2>1, <2>2
    <3>2. ASSUME NEW y \in Range1(r.generated), y[1] = x[1] PROVE FALSE
      <4>1. PICK j \in 1..k : y = r.generated[j]
        BY <1>2 DEF Range1
      <4>2. n + j \in 1..m /\ n + j > i /\ w[n + j] = y
        BY <1>1, <1>6, <1>10, <2>2, <4>1
      <4>3. QED
        BY <2>1, <3>2, <4>2 DEF LastOf, w
    <3>3. QED
      BY <1>10, <2>2, <3>1, <3>2 DEF GeneratedFiles
  <2>3. CASE \E j \in 1..k : i = n + j
    BY <1>1, <1>9, <2>1, <2>3
  <2>4. CASE i = m - 1 \/ i = m
    BY <1>1, <2>1, <2>4
  <2>5. QED
    BY <1>7, <2>2, <2>3, <2>4
<1>12. ASSUME NEW f, Has(Wanted(r), f)
       PROVE  f \in {Toolchain, Sidecar} \cup GeneratedFiles(r) \cup Range1(Payload)
  <2>1. PICK x \in Wanted(r) : x[1] = f
    BY <1>12 DEF Has
  <2>2. QED
    BY <1>11, <2>1 DEF GeneratedFiles
<1>13. ASSUME NEW f, f \in {Toolchain, Sidecar} \cup GeneratedFiles(r) \cup Range1(Payload)
       PROVE  Has(Wanted(r), f)
  <2>1. CASE f \in {Toolchain, Sidecar}
    <3>1. <<Toolchain, r.label>>[1] = Toolchain /\ <<Sidecar, Provenance(r)>>[1] = Sidecar
      OBVIOUS
    <3>2. QED
      BY <1>8, <2>1, <3>1, Zenon DEF Has
  <2>2. CASE f \in GeneratedFiles(r)
    <3>1. PICK x \in Range1(r.generated) : f = x[1]
      BY <2>2 DEF GeneratedFiles
    <3>2. PICK j \in 1..k : x = r.generated[j]
      BY <1>2, <3>1 DEF Range1
    <3>3. n + j \in DOMAIN w /\ w[n + j][1] = f
      BY <1>1, <1>6, <3>1, <3>2
    <3>4. QED
      BY <3>3, WantedHas DEF w
  <2>3. CASE f \in Range1(Payload)
    <3>1. PICK i \in 1..n : f = Payload[i]
      BY <1>2, <2>3 DEF Range1
    <3>2. i \in DOMAIN w /\ w[i][1] = f
      BY <1>1, <3>1 DEF m
    <3>3. QED
      BY <3>2, WantedHas DEF w
  <2>4. QED
    BY <1>13, <2>1, <2>2, <2>3
<1>14. QED
  BY <1>8, <1>11, <1>12, <1>13

\* A manifest that the policy refuses in a directory with all that r generates
\* is the payload's, and it would be in r's own directory.
LEMMA ManifestStays ==
  ASSUME NEW r \in Requests, NEW s \in Requests, Range1(r.generated) \subseteq Wanted(s),
         Has(Wanted(s), Manifest), ~ManifestAllowed(r, Wanted(s))
  PROVE  ~ManifestAllowed(r, Wanted(r))
<1>1. /\ r.policy = "ZeroPackages" /\ PayloadPackages
      /\ <<Manifest, "payload">> \in Wanted(s)
  BY DEF ManifestAllowed, Holds
<1>2. SUFFICES ASSUME Has(Wanted(r), Manifest) PROVE <<Manifest, "payload">> \in Wanted(r)
  BY <1>1 DEF ManifestAllowed, Holds
<1>3. PICK y \in Wanted(r) : y[1] = Manifest
  BY <1>2 DEF Has
<1>4. Manifest # Toolchain /\ Manifest # Sidecar
  BY DEF Manifest, Toolchain, Sidecar
<1>5. y # <<Toolchain, r.label>> /\ y # <<Sidecar, Provenance(r)>>
  BY <1>3, <1>4
<1>6. CASE y \in Range1(r.generated)
  <2>1. y \in Wanted(s)
    BY <1>6
  <2>2. <<Manifest, "payload">>[1] = Manifest
    OBVIOUS
  <2>3. y = <<Manifest, "payload">>
    BY <1>1, <1>3, <2>1, <2>2, WantedUnique
  <2>4. QED
    BY <1>3, <2>3
<1>7. CASE y = <<y[1], "payload">>
  BY <1>3, <1>7
<1>8. QED
  BY <1>3, <1>5, <1>6, <1>7, WantedParts

-----------------------------------------------------------------------------
(* What entry_matches says of an entry                                     *)

LEMMA VerdictHit ==
  ASSUME NEW r \in Requests, NEW d, Verdict(r, d) = "hit"
  PROVE  /\ Holds(d, Sidecar, Provenance(r)) /\ Range1(r.generated) \subseteq d
         /\ Checked(r, d)
<1> DEFINE present   == \A f \in Sentinels \cup {Manifest, Toolchain, Sidecar} : Has(d, f)
           owned     == Holds(d, Sidecar, Provenance(r))
           labelled  == Holds(d, Toolchain, r.label)
           differing == {i \in DOMAIN r.generated : r.generated[i] \notin d}
           firstDiff == CHOOSE i \in differing : \A j \in differing : i <= j
<1>1. Verdict(r, d) =
        IF ~(present /\ owned /\ labelled) THEN "miss"
        ELSE IF differing # {}
        THEN IF Has(d, r.generated[firstDiff][1]) THEN "miss" ELSE "error"
        ELSE IF ManifestAllowed(r, d) THEN "hit" ELSE "error"
  BY DEF Verdict
<1> HIDE DEF present, owned, labelled, differing, firstDiff
<1>2. present /\ owned /\ differing = {} /\ ManifestAllowed(r, d)
  BY <1>1
<1>3. QED
  BY <1>2 DEF present, owned, differing, Range1, Checked

LEMMA VerdictError ==
  ASSUME NEW r \in Requests, NEW d, Verdict(r, d) = "error"
  PROVE  /\ Holds(d, Sidecar, Provenance(r))
         /\ \/ Range1(r.generated) \subseteq d /\ Has(d, Manifest) /\ ~ManifestAllowed(r, d)
            \/ \E x \in Range1(r.generated) : ~Has(d, x[1])
<1> DEFINE present   == \A f \in Sentinels \cup {Manifest, Toolchain, Sidecar} : Has(d, f)
           owned     == Holds(d, Sidecar, Provenance(r))
           labelled  == Holds(d, Toolchain, r.label)
           differing == {i \in DOMAIN r.generated : r.generated[i] \notin d}
           least(i)  == \A j \in differing : i <= j
           firstDiff == CHOOSE i \in differing : least(i)
<1>1. Verdict(r, d) =
        IF ~(present /\ owned /\ labelled) THEN "miss"
        ELSE IF differing # {}
        THEN IF Has(d, r.generated[firstDiff][1]) THEN "miss" ELSE "error"
        ELSE IF ManifestAllowed(r, d) THEN "hit" ELSE "error"
  BY DEF Verdict
<1> HIDE DEF present, owned, labelled, firstDiff
<1>2. present /\ owned
  BY <1>1
<1>3. CASE differing = {}
  <2>1. ~ManifestAllowed(r, d) /\ Has(d, Manifest)
    BY <1>1, <1>2, <1>3 DEF present
  <2>2. Range1(r.generated) \subseteq d
    BY <1>3 DEF Range1
  <2>3. QED
    BY <1>2, <2>1, <2>2 DEF owned
<1>4. CASE differing # {}
  <2>1. differing \in SUBSET Nat
    BY SourcePackageAssumption
  <2>2. \E i \in differing : least(i)
    <3> HIDE DEF differing
    <3>1. QED
      BY <1>4, <2>1, LeastNatural
  <2>3. firstDiff \in differing
    <3> HIDE DEF differing, least
    <3>1. QED
      BY <2>2 DEF firstDiff
  <2>4. ~Has(d, r.generated[firstDiff][1])
    BY <1>1, <1>4
  <2>5. r.generated[firstDiff] \in Range1(r.generated)
    BY <2>3 DEF Range1
  <2>6. QED
    BY <1>2, <2>4, <2>5 DEF owned
<1>5. QED
  BY <1>3, <1>4

LEMMA VerdictType ==
  ASSUME NEW r, NEW d PROVE Verdict(r, d) \in {"hit", "miss", "error"}
BY DEF Verdict

\* The directory of some request is judged rightly for the request at hand.
LEMMA VerdictOfWanted ==
  ASSUME NEW r \in Requests, NEW s \in Requests
  PROVE  /\ Verdict(r, Wanted(s)) = "hit" =>
              SameOwner(r, s) /\ Accepts(r, s) /\ Checked(r, Wanted(s))
         /\ Verdict(r, Wanted(s)) = "error" =>
              ~Checked(r, Wanted(r)) \/ (SameOwner(r, s) /\ Lacks(r, s))
<1>1. ASSUME Holds(Wanted(s), Sidecar, Provenance(r))
      PROVE  SameOwner(r, s)
  <2>1. <<Sidecar, Provenance(r)>> \in Wanted(s) /\ <<Sidecar, Provenance(s)>> \in Wanted(s)
    BY <1>1, WantedParts DEF Holds
  <2>2. <<Sidecar, Provenance(r)>>[1] = <<Sidecar, Provenance(s)>>[1]
    OBVIOUS
  <2>3. <<Sidecar, Provenance(r)>> = <<Sidecar, Provenance(s)>>
    BY <2>1, <2>2, WantedUnique
  <2>4. QED
    BY <2>3 DEF SameOwner
<1>2. ASSUME Verdict(r, Wanted(s)) = "hit"
      PROVE  SameOwner(r, s) /\ Accepts(r, s) /\ Checked(r, Wanted(s))
  BY <1>1, <1>2, VerdictHit DEF Accepts
<1>3. ASSUME Verdict(r, Wanted(s)) = "error"
      PROVE  ~Checked(r, Wanted(r)) \/ (SameOwner(r, s) /\ Lacks(r, s))
  <2>1. SameOwner(r, s)
    BY <1>1, <1>3, VerdictError
  <2>2. CASE \E x \in Range1(r.generated) : ~Has(Wanted(s), x[1])
    BY <2>1, <2>2 DEF Lacks
  <2>3. CASE /\ Range1(r.generated) \subseteq Wanted(s)
             /\ Has(Wanted(s), Manifest) /\ ~ManifestAllowed(r, Wanted(s))
    BY <2>3, ManifestStays DEF Checked
  <2>4. QED
    BY <1>3, <2>2, <2>3, VerdictError
<1>4. QED
  BY <1>2, <1>3

\* A missing entry is a miss.
LEMMA VerdictOfNothing == ASSUME NEW r PROVE Verdict(r, {}) = "miss"
BY DEF Verdict, Has

-----------------------------------------------------------------------------
(* The inductive invariant                                                 *)

\* Where a process holds the lock of its entry.
Inside == {"match", "remove", "clean", "write", "check", "install"}

\* Where its entry is empty.
Emptied == {"clean"} \cup Building

\* The lock is that of one process.
LockInv == \A p \in Procs : pc[p] \in Inside => lock[Key(p)] = {p}

\* How far a process has got, and what it has made unless it was swept away.
BuildInv ==
  \A p \in Procs :
    /\ pc[p] \in {"idle", "lock", "match", "remove", "clean"} => written[p] = 0
    /\ pc[p] = "write" => written[p] < Len(Writes(request[p]))
    /\ pc[p] \in {"check", "install"} => written[p] = Len(Writes(request[p]))
    /\ pc[p] \in Building => temp[p] \subseteq Range1(Writes(request[p]))
    /\ pc[p] \in Building /\ p \notin stolen => temp[p] = Built(request[p], written[p])
    /\ pc[p] = "install" /\ p \notin stolen => Checked(request[p], Wanted(request[p]))
    /\ pc[p] = "clean" => temp[p] = {} \/ p \in sweep[p]

\* An entry that no removal cuts is a whole directory of one request.
Whole(e) == root[e] = {} \/ \E r \in Requests : Entry(r) = e /\ root[e] = Wanted(r)
Removing(e) == \E p \in Procs : pc[p] = "remove" /\ Key(p) = e

EntryInv ==
  /\ \A e \in Entries : Whole(e) \/ e \in cut \/ Removing(e)
  /\ \A p \in Procs : pc[p] \in Emptied => root[Key(p)] = {}

PackageInv == TypeOK /\ LockInv /\ BuildInv /\ EntryInv

LEMMA KeyType ==
  ASSUME TypeOK, NEW p \in Procs
  PROVE  request[p] \in Requests /\ Key(p) \in Entries
BY SourcePackageAssumption DEF TypeOK, Key, Entry

\* Two processes are not inside at one entry.
LEMMA OneInside ==
  ASSUME LockInv, NEW p \in Procs, NEW q \in Procs, pc[p] \in Inside, pc[q] \in Inside,
         Key(p) = Key(q)
  PROVE  p = q
BY DEF LockInv

-----------------------------------------------------------------------------
(* The invariant is inductive                                              *)

LEMMA PackageInit == Init => PackageInv
<1> SUFFICES ASSUME Init PROVE PackageInv
  OBVIOUS
<1>1. \A p \in Procs : request[p] \in Requests /\ pc[p] = "idle" /\ written[p] = 0 /\ temp[p] = {}
  BY DEF Init
<1>2. \A r \in Requests : Len(Writes(r)) \in Nat
  BY WritesAre DEF SidecarAt
<1>3. TypeOK
  <2>1. /\ pc \in [Procs -> {"idle", "lock", "match", "remove", "clean", "write",
                             "check", "install"}]
        /\ request \in [Procs -> Requests]
        /\ result \in [Procs -> {"none", "ok", "rejected", "io", "crashed"}]
        /\ lock \in [Entries -> SUBSET Procs]
        /\ sweep \in [Procs -> SUBSET Procs] /\ follows \in [Procs -> SUBSET Entries]
        /\ stolen \subseteq Procs /\ cut \subseteq Entries
        /\ calls \in 0 .. MaxCalls /\ written \in [Procs -> Nat]
        /\ temp \in [Procs -> SUBSET AllWrites] /\ root \in [Entries -> SUBSET AllWrites]
    BY SourcePackageAssumption DEF Init
  <2>2. ASSUME NEW p \in Procs
        PROVE  /\ written[p] \in 0 .. Len(Writes(request[p]))
               /\ \E r \in Requests : temp[p] \subseteq Range1(Writes(r))
    BY <1>1, <1>2
  <2>3. \A e \in Entries : root[e] = {}
    BY DEF Init
  <2>4. QED
    BY <2>1, <2>2, <2>3 DEF TypeOK
<1>4. LockInv
  BY <1>1 DEF LockInv, Inside
<1>5. BuildInv
  BY <1>1 DEF BuildInv, Building
<1>6. EntryInv
  BY <1>1 DEF EntryInv, Emptied, Building, Whole, Init
<1>7. QED
  BY <1>3, <1>4, <1>5, <1>6 DEF PackageInv

\* The types of what returning and going on write.
LEMMA GoesTo ==
  ASSUME TypeOK, NEW p \in Procs, NEW to, Goto(p, to)
  PROVE  /\ pc' = [pc EXCEPT ![p] = to] /\ result' = result /\ lock' = lock
         /\ stolen' = stolen
         /\ pc'[p] = to /\ \A q \in Procs \ {p} : pc'[q] = pc[q]
BY DEF TypeOK, Goto

LEMMA Returns ==
  ASSUME TypeOK, NEW p \in Procs, NEW how, Return(p, how)
  PROVE  /\ pc' = [pc EXCEPT ![p] = "idle"] /\ result' = [result EXCEPT ![p] = how]
         /\ pc'[p] = "idle" /\ \A q \in Procs \ {p} : pc'[q] = pc[q]
         /\ written' = [written EXCEPT ![p] = 0] /\ stolen' = stolen \ {p}
         /\ lock' \in [Entries -> SUBSET Procs]
         /\ \A e \in Entries : lock'[e] \subseteq lock[e] /\ lock[e] \ {p} \subseteq lock'[e]
BY DEF TypeOK, Return

\* Processes that go on keep their locks.
LEMMA GoingKeepsLocks ==
  ASSUME PackageInv, NEW p \in Procs, NEW to, Goto(p, to), request' = request,
         to \in Inside => pc[p] \in Inside
  PROVE  LockInv'
<1>1. TypeOK /\ LockInv
  BY DEF PackageInv
<1>2. ASSUME NEW q \in Procs, pc'[q] \in Inside PROVE lock'[Key(q)'] = {q}
  <2>1. pc[q] \in Inside /\ lock' = lock /\ Key(q)' = Key(q)
    BY <1>1, <1>2, GoesTo DEF Key
  <2>2. QED
    BY <1>1, <2>1 DEF LockInv
<1>3. QED
  BY <1>2 DEF LockInv

LEMMA ReturningKeepsLocks ==
  ASSUME PackageInv, NEW p \in Procs, NEW how, Return(p, how), request' = request
  PROVE  LockInv'
<1>1. TypeOK /\ LockInv
  BY DEF PackageInv
<1>2. ASSUME NEW q \in Procs, pc'[q] \in Inside PROVE lock'[Key(q)'] = {q}
  <2>1. q # p /\ pc[q] \in Inside
    BY <1>1, <1>2, Returns DEF Inside
  <2>2. Key(q)' = Key(q) /\ lock[Key(q)] = {q} /\ Key(q) \in Entries
    BY <1>1, <2>1, KeyType DEF LockInv, Key
  <2>3. QED
    BY <1>1, <2>1, <2>2, Returns
<1>3. QED
  BY <1>2 DEF LockInv

\* TypeOK by its parts.
Types ==
  /\ pc \in [Procs -> {"idle", "lock", "match", "remove", "clean", "write",
                       "check", "install"}]
  /\ request \in [Procs -> Requests]
  /\ result \in [Procs -> {"none", "ok", "rejected", "io", "crashed"}]
  /\ lock \in [Entries -> SUBSET Procs]
  /\ sweep \in [Procs -> SUBSET Procs] /\ follows \in [Procs -> SUBSET Entries]
  /\ stolen \subseteq Procs /\ cut \subseteq Entries
  /\ calls \in 0 .. MaxCalls /\ written \in [Procs -> Nat]
  /\ temp \in [Procs -> SUBSET AllWrites] /\ root \in [Entries -> SUBSET AllWrites]

ProcTypes(p) ==
  /\ written[p] \in 0 .. Len(Writes(request[p]))
  /\ \E r \in Requests : temp[p] \subseteq Range1(Writes(r))

RootType(e) ==
  root[e] = {} \/ \E r \in Requests : Entry(r) = e /\ root[e] \subseteq Range1(Writes(r))

LEMMA TypeParts ==
  /\ TypeOK <=> Types /\ (\A p \in Procs : ProcTypes(p)) /\ \A e \in Entries : RootType(e)
  /\ TypeOK' <=> Types' /\ (\A p \in Procs : ProcTypes(p)') /\ \A e \in Entries : RootType(e)'
BY DEF TypeOK, Types, ProcTypes, RootType

\* BuildInv and EntryInv by their parts.
BuildFits(p) ==
  /\ pc[p] \in {"idle", "lock", "match", "remove", "clean"} => written[p] = 0
  /\ pc[p] = "write" => written[p] < Len(Writes(request[p]))
  /\ pc[p] \in {"check", "install"} => written[p] = Len(Writes(request[p]))
  /\ pc[p] \in Building => temp[p] \subseteq Range1(Writes(request[p]))
  /\ pc[p] \in Building /\ p \notin stolen => temp[p] = Built(request[p], written[p])
  /\ pc[p] = "install" /\ p \notin stolen => Checked(request[p], Wanted(request[p]))
  /\ pc[p] = "clean" => temp[p] = {} \/ p \in sweep[p]

EntryFits(e) == Whole(e) \/ e \in cut \/ Removing(e)
EmptyFits(p) == pc[p] \in Emptied => root[Key(p)] = {}

LEMMA InvParts ==
  /\ BuildInv <=> \A p \in Procs : BuildFits(p)
  /\ BuildInv' <=> \A p \in Procs : BuildFits(p)'
  /\ EntryInv <=> (\A e \in Entries : EntryFits(e)) /\ \A p \in Procs : EmptyFits(p)
  /\ EntryInv' <=> (\A e \in Entries : EntryFits(e)') /\ \A p \in Procs : EmptyFits(p)'
BY DEF BuildInv, BuildFits, EntryInv, EntryFits, EmptyFits

\* A process whose own state does not change, whatever is stolen besides.
LEMMA BuildFrame ==
  ASSUME NEW p \in Procs, BuildFits(p), pc'[p] = pc[p], request'[p] = request[p],
         written'[p] = written[p], temp'[p] = temp[p], p \in stolen => p \in stolen',
         p \in sweep[p] => p \in sweep'[p]
  PROVE  BuildFits(p)'
BY DEF BuildFits

\* A step that touches no entry.
LEMMA EntryFrame ==
  ASSUME EntryInv, root' = root, cut \subseteq cut',
         \A q \in Procs : pc[q] = "remove" =>
           Key(q)' = Key(q) /\ (pc'[q] = "remove" \/ Key(q) \in cut'),
         \A q \in Procs : pc'[q] \in Emptied => Key(q)' = Key(q) /\ pc[q] \in Emptied
  PROVE  EntryInv'
<1>1. ASSUME NEW e \in Entries PROVE EntryFits(e)'
  <2>1. EntryFits(e)
    BY InvParts
  <2>2. CASE Whole(e)
    BY <2>2 DEF Whole, EntryFits
  <2>3. CASE e \in cut
    BY <2>3 DEF EntryFits
  <2>4. CASE Removing(e)
    BY <2>4 DEF Removing, EntryFits
  <2>5. QED
    BY <2>1, <2>2, <2>3, <2>4 DEF EntryFits
<1>2. ASSUME NEW q \in Procs PROVE EmptyFits(q)'
  BY InvParts DEF EmptyFits
<1>3. QED
  BY <1>1, <1>2, InvParts

\* A step that writes no file keeps the types of what is there.
LEMMA TypeFrame ==
  ASSUME TypeOK, Types', temp' = temp, root' = root,
         \A q \in Procs : written'[q] \in 0 .. Len(Writes(request'[q]))
  PROVE  TypeOK'
<1>1. \A q \in Procs : ProcTypes(q)'
  BY TypeParts DEF ProcTypes
<1>2. \A e \in Entries : RootType(e)'
  BY TypeParts DEF RootType
<1>3. QED
  BY <1>1, <1>2, TypeParts

\* What is known of the process that moves.
LEMMA Facts ==
  ASSUME PackageInv, NEW p \in Procs
  PROVE  /\ TypeOK /\ Types /\ LockInv /\ BuildInv /\ EntryInv
         /\ BuildFits(p) /\ EmptyFits(p) /\ ProcTypes(p)
         /\ request[p] \in Requests /\ Key(p) \in Entries /\ written[p] \in Nat
         /\ Len(Writes(request[p])) \in Nat /\ Len(Writes(request[p])) > 0
<1>1. TypeOK /\ LockInv /\ BuildInv /\ EntryInv
  BY DEF PackageInv
<1>2. Types /\ ProcTypes(p) /\ BuildFits(p) /\ EmptyFits(p)
  BY <1>1, TypeParts, InvParts
<1>3. request[p] \in Requests /\ Key(p) \in Entries
  BY <1>1, KeyType
<1>4. Len(Writes(request[p])) \in Nat /\ Len(Writes(request[p])) > 0
  BY <1>3, WritesAre DEF SidecarAt
<1>5. written[p] \in Nat
  BY <1>2 DEF Types
<1>6. QED
  BY <1>1, <1>2, <1>3, <1>4, <1>5

LEMMA BeginKeeps ==
  ASSUME PackageInv, NEW p \in Procs, NEW r \in Requests, Begin(p, r)
  PROVE  PackageInv'
<1>1. /\ TypeOK /\ Types /\ LockInv /\ BuildInv /\ EntryInv
      /\ pc[p] = "idle" /\ pc' = [pc EXCEPT ![p] = "lock"]
      /\ request' = [request EXCEPT ![p] = r] /\ written' = written
      /\ result' = [result EXCEPT ![p] = "none"]
      /\ calls < MaxCalls /\ calls' = calls + 1 /\ sweep' = sweep /\ follows' = follows
      /\ stolen' = stolen /\ written[p] = 0 /\ temp' = temp /\ root' = root /\ lock' = lock /\ cut' = cut
  BY Facts DEF Begin, BuildFits
<1>2. /\ pc'[p] = "lock" /\ request'[p] = r /\ written'[p] = 0
      /\ \A q \in Procs \ {p} : /\ pc'[q] = pc[q] /\ request'[q] = request[q]
                                /\ written'[q] = written[q] /\ Key(q)' = Key(q)
  BY <1>1 DEF Types, Key
<1>3. Types'
  <2>1. calls' \in 0 .. MaxCalls
    BY <1>1, SourcePackageAssumption DEF Types
  <2>2. QED
    BY <1>1, <2>1 DEF Types
<1>4. TypeOK'
  <2>1. ASSUME NEW q \in Procs PROVE written'[q] \in 0 .. Len(Writes(request'[q]))
    <3>1. CASE q = p
      <4>1. Len(Writes(r)) \in Nat
        BY WritesAre DEF SidecarAt
      <4>2. QED
        BY <1>2, <3>1, <4>1
    <3>2. CASE q # p
      BY <1>1, <1>2, <3>2, TypeParts DEF ProcTypes
    <3>3. QED
      BY <3>1, <3>2
  <2>2. QED
    BY <1>1, <1>3, <2>1, TypeFrame
<1>5. LockInv'
  BY <1>1, <1>2 DEF LockInv, Inside
<1>6. BuildInv'
  <2>1. ASSUME NEW q \in Procs PROVE BuildFits(q)'
    <3>1. CASE q = p
      BY <1>2, <3>1 DEF BuildFits, Building
    <3>2. CASE q # p
      BY <1>1, <1>2, <3>2, BuildFrame, InvParts
    <3>3. QED
      BY <3>1, <3>2
  <2>2. QED
    BY <2>1, InvParts
<1>7. EntryInv'
  <2>1. \A q \in Procs : pc[q] = "remove" => Key(q)' = Key(q) /\ pc'[q] = "remove"
    BY <1>1, <1>2
  <2>2. \A q \in Procs : pc'[q] \in Emptied => Key(q)' = Key(q) /\ pc[q] \in Emptied
    BY <1>2 DEF Emptied, Building
  <2>3. QED
    BY <1>1, <2>1, <2>2, EntryFrame
<1>8. QED
  BY <1>4, <1>5, <1>6, <1>7 DEF PackageInv

LEMMA LockKeeps ==
  ASSUME PackageInv, NEW p \in Procs, Lock(p)
  PROVE  PackageInv'
<1>1. /\ TypeOK /\ Types /\ LockInv /\ BuildInv /\ EntryInv /\ BuildFits(p) /\ Key(p) \in Entries
      /\ pc[p] = "lock" /\ pc' = [pc EXCEPT ![p] = "match"] /\ lock[Key(p)] = {}
      /\ lock' = [lock EXCEPT ![Key(p)] = {p}]
      /\ UNCHANGED <<request, result, calls, written, temp, root, sweep, follows, stolen, cut>>
  BY Facts DEF Lock
<1>2. /\ pc'[p] = "match" /\ \A q \in Procs \ {p} : pc'[q] = pc[q]
      /\ \A q \in Procs : Key(q)' = Key(q)
  BY <1>1 DEF Types, Key
<1>3. Types'
  BY <1>1 DEF Types
<1>4. TypeOK'
  BY <1>1, <1>3, TypeFrame, TypeParts DEF ProcTypes
<1>5. LockInv'
  <2>1. ASSUME NEW q \in Procs, pc'[q] \in Inside PROVE lock'[Key(q)'] = {q}
    <3>1. CASE q = p
      BY <1>1, <1>2, <3>1 DEF Types
    <3>2. CASE q # p
      <4>1. pc[q] \in Inside /\ lock[Key(q)] = {q}
        BY <1>1, <1>2, <2>1, <3>2 DEF LockInv
      <4>2. Key(q) # Key(p)
        BY <1>1, <4>1
      <4>3. Key(q) \in Entries
        BY <1>1, KeyType
      <4>4. QED
        BY <1>1, <1>2, <4>1, <4>2, <4>3 DEF Types
    <3>3. QED
      BY <3>1, <3>2
  <2>2. QED
    BY <2>1 DEF LockInv
<1>6. BuildInv'
  <2>1. ASSUME NEW q \in Procs PROVE BuildFits(q)'
    <3>1. CASE q = p
      BY <1>1, <1>2, <3>1 DEF BuildFits, Building
    <3>2. CASE q # p
      BY <1>1, <1>2, <3>2, BuildFrame, InvParts
    <3>3. QED
      BY <3>1, <3>2
  <2>2. QED
    BY <2>1, InvParts
<1>7. EntryInv'
  <2>1. \A q \in Procs : pc[q] = "remove" => Key(q)' = Key(q) /\ pc'[q] = "remove"
    BY <1>1, <1>2
  <2>2. \A q \in Procs : pc'[q] \in Emptied => Key(q)' = Key(q) /\ pc[q] \in Emptied
    BY <1>2 DEF Emptied, Building
  <2>3. QED
    BY <1>1, <2>1, <2>2, EntryFrame
<1>8. QED
  BY <1>4, <1>5, <1>6, <1>7 DEF PackageInv

\* A call that ends without an installation: what it holds of its lock is
\* released, and a removal it leaves half way is marked.
LEMMA ReturningKeeps ==
  ASSUME PackageInv, NEW p \in Procs, NEW how \in {"ok", "rejected", "io", "crashed"},
         Return(p, how), UNCHANGED <<request, calls, root>>,
         sweep' \in [Procs -> SUBSET Procs], follows' \in [Procs -> SUBSET Entries],
         \A q \in Procs \ {p} : q \in sweep[q] => q \in sweep'[q],
         cut \subseteq cut', cut' \subseteq Entries, pc[p] = "remove" => Key(p) \in cut',
         temp' = temp \/ temp' = [temp EXCEPT ![p] = {}]
  PROVE  PackageInv'
<1>1. /\ TypeOK /\ Types /\ LockInv /\ BuildInv /\ EntryInv
      /\ pc' = [pc EXCEPT ![p] = "idle"] /\ result' = [result EXCEPT ![p] = how]
      /\ pc'[p] = "idle" /\ \A q \in Procs \ {p} : pc'[q] = pc[q]
      /\ lock' \in [Entries -> SUBSET Procs]
      /\ written' = [written EXCEPT ![p] = 0] /\ stolen' = stolen \ {p}
      /\ \A q \in Procs : Key(q)' = Key(q)
  <2>1. TypeOK /\ Types /\ LockInv /\ BuildInv /\ EntryInv
    BY Facts
  <2>2. /\ pc' = [pc EXCEPT ![p] = "idle"] /\ result' = [result EXCEPT ![p] = how]
        /\ pc'[p] = "idle" /\ \A q \in Procs \ {p} : pc'[q] = pc[q]
        /\ lock' \in [Entries -> SUBSET Procs]
        /\ written' = [written EXCEPT ![p] = 0] /\ stolen' = stolen \ {p}
    BY <2>1, Returns
  <2>3. \A q \in Procs : Key(q)' = Key(q)
    BY DEF Key
  <2>4. QED
    BY <2>1, <2>2, <2>3
<1>2. /\ temp' \in [Procs -> SUBSET AllWrites] /\ \A q \in Procs \ {p} : temp'[q] = temp[q]
      /\ temp'[p] \subseteq temp[p]
      /\ written' \in [Procs -> Nat] /\ written'[p] = 0
      /\ \A q \in Procs \ {p} : written'[q] = written[q] /\ (q \in stolen => q \in stolen')
  BY <1>1 DEF Types
<1>3. Types'
  BY <1>1, <1>2 DEF Types
<1>4. TypeOK'
  <2>1. ASSUME NEW q \in Procs PROVE ProcTypes(q)'
    <3>1. ProcTypes(q) /\ temp'[q] \subseteq temp[q]
      BY <1>1, <1>2, TypeParts
    <3>2. written'[q] \in 0 .. Len(Writes(request[q]))
      BY <1>1, <1>2, <3>1, Facts DEF ProcTypes
    <3>3. QED
      BY <3>1, <3>2 DEF ProcTypes
  <2>2. ASSUME NEW e \in Entries PROVE RootType(e)'
    BY <1>1, TypeParts DEF RootType
  <2>3. QED
    BY <1>3, <2>1, <2>2, TypeParts
<1>5. LockInv'
  BY ReturningKeepsLocks
<1>6. BuildInv'
  <2>1. ASSUME NEW q \in Procs PROVE BuildFits(q)'
    <3>1. CASE q = p
      BY <1>1, <1>2, <3>1 DEF BuildFits, Building
    <3>2. CASE q # p
      BY <1>1, <1>2, <3>2, BuildFrame, InvParts
    <3>3. QED
      BY <3>1, <3>2
  <2>2. QED
    BY <2>1, InvParts
<1>7. EntryInv'
  <2>1. \A q \in Procs : pc[q] = "remove" =>
          Key(q)' = Key(q) /\ (pc'[q] = "remove" \/ Key(q) \in cut')
    BY <1>1
  <2>2. \A q \in Procs : pc'[q] \in Emptied => Key(q)' = Key(q) /\ pc[q] \in Emptied
    BY <1>1 DEF Emptied, Building
  <2>3. QED
    BY <1>1, <2>1, <2>2, EntryFrame
<1>8. QED
  BY <1>4, <1>5, <1>6, <1>7 DEF PackageInv

LEMMA MatchKeeps ==
  ASSUME PackageInv, NEW p \in Procs, Match(p)
  PROVE  PackageInv'
<1>1. /\ TypeOK /\ Types /\ LockInv /\ BuildInv /\ EntryInv /\ BuildFits(p)
      /\ pc[p] = "match" /\ cut \subseteq Entries
  BY Facts DEF Match, Types
<1>2. /\ UNCHANGED <<request, calls, temp, root, sweep, follows, crashes, faults, cut>>
      /\ sweep \in [Procs -> SUBSET Procs] /\ follows \in [Procs -> SUBSET Entries]
  BY <1>1 DEF Match, Types
<1>3. CASE Return(p, "ok") \/ Return(p, "rejected")
  BY <1>1, <1>2, <1>3, ReturningKeeps
<1>4. CASE Goto(p, "remove") /\ written' = written
  <2>1. /\ pc' = [pc EXCEPT ![p] = "remove"] /\ result' = result /\ lock' = lock
        /\ stolen' = stolen /\ pc'[p] = "remove" /\ \A q \in Procs \ {p} : pc'[q] = pc[q]
        /\ \A q \in Procs : Key(q)' = Key(q)
    BY <1>1, <1>2, <1>4, GoesTo DEF Key
  <2>2. Types'
    BY <1>1, <1>2, <1>4, <2>1 DEF Types
  <2>3. TypeOK'
    BY <1>1, <1>2, <1>4, <2>2, TypeFrame, TypeParts DEF ProcTypes
  <2>4. LockInv'
    BY <1>1, <1>2, <1>4, GoingKeepsLocks DEF Inside
  <2>5. BuildInv'
    <3>1. ASSUME NEW q \in Procs PROVE BuildFits(q)'
      <4>1. CASE q = p
        BY <1>1, <1>2, <1>4, <2>1, <4>1 DEF BuildFits, Building
      <4>2. CASE q # p
        BY <1>1, <1>2, <1>4, <2>1, <4>2, BuildFrame, InvParts
      <4>3. QED
        BY <4>1, <4>2
    <3>2. QED
      BY <3>1, InvParts
  <2>6. EntryInv'
    <3>1. \A q \in Procs : pc[q] = "remove" => Key(q)' = Key(q) /\ pc'[q] = "remove"
      BY <1>1, <2>1
    <3>2. \A q \in Procs : pc'[q] \in Emptied => Key(q)' = Key(q) /\ pc[q] \in Emptied
      BY <2>1 DEF Emptied, Building
    <3>3. QED
      BY <1>1, <1>2, <3>1, <3>2, EntryFrame
  <2>7. QED
    BY <2>3, <2>4, <2>5, <2>6 DEF PackageInv
<1>5. QED
  BY <1>3, <1>4 DEF Match

LEMMA RemoveStaleKeeps ==
  ASSUME PackageInv, NEW p \in Procs, RemoveStale(p)
  PROVE  PackageInv'
<1> DEFINE k == Key(p)
<1>1. /\ TypeOK /\ Types /\ LockInv /\ BuildInv /\ EntryInv /\ BuildFits(p)
      /\ pc[p] = "remove" /\ cut \subseteq Entries /\ k \in Entries
      /\ UNCHANGED <<request, calls, written, temp, crashes, faults>>
  BY Facts DEF RemoveStale, Types
<1>2. PICK to \in {"remove", "clean"} :
        /\ Goto(p, to)
        /\ \/ /\ to = "remove" /\ cut' = cut /\ sweep' = sweep /\ follows' = follows
              /\ \E x \in root[k] : root' = [root EXCEPT ![k] = @ \ {x}]
           \/ /\ to = "clean" /\ cut' = cut \ {k} /\ root' = root /\ root[k] = {}
              /\ sweep' = [sweep EXCEPT ![p] = {q \in Procs : temp[q] # {}}]
              /\ follows' = [q \in Procs |-> follows[q] \ {k}]
  BY DEF RemoveStale
<1>3. /\ pc' = [pc EXCEPT ![p] = to] /\ result' = result /\ lock' = lock
      /\ stolen' = stolen /\ pc'[p] = to /\ \A q \in Procs \ {p} : pc'[q] = pc[q]
      /\ \A q \in Procs : Key(q)' = Key(q)
  BY <1>1, <1>2, GoesTo DEF Key
<1>4. /\ root' \in [Entries -> SUBSET AllWrites] /\ root'[k] \subseteq root[k]
      /\ \A e \in Entries \ {k} : root'[e] = root[e] /\ (e \in cut' <=> e \in cut)
      /\ cut' \subseteq Entries
  <2> HIDE DEF k
  <2>1. QED
    BY <1>1, <1>2 DEF Types
<1>10. /\ sweep' \in [Procs -> SUBSET Procs] /\ follows' \in [Procs -> SUBSET Entries]
       /\ \A q \in Procs \ {p} : q \in sweep[q] => q \in sweep'[q]
       /\ to = "clean" => temp[p] = {} \/ p \in sweep'[p]
  <2> HIDE DEF k
  <2>1. QED
    BY <1>1, <1>2 DEF Types
<1>5. TypeOK'
  <2>1. Types'
    BY <1>1, <1>3, <1>4, <1>10 DEF Types
  <2>2. ASSUME NEW q \in Procs PROVE ProcTypes(q)'
    BY <1>1, TypeParts DEF ProcTypes
  <2>3. ASSUME NEW e \in Entries PROVE RootType(e)'
    <3>1. RootType(e) /\ root'[e] \subseteq root[e]
      BY <1>1, <1>4, TypeParts
    <3>2. QED
      BY <3>1 DEF RootType
  <2>4. QED
    BY <2>1, <2>2, <2>3, TypeParts
<1>6. LockInv'
  BY <1>1, <1>2, GoingKeepsLocks DEF Inside
<1>7. BuildInv'
  <2>1. ASSUME NEW q \in Procs PROVE BuildFits(q)'
    <3>1. CASE q = p
      BY <1>1, <1>2, <1>3, <1>10, <3>1 DEF BuildFits, Building
    <3>2. CASE q # p
      BY <1>1, <1>3, <1>10, <3>2, BuildFrame, InvParts
    <3>3. QED
      BY <3>1, <3>2
  <2>2. QED
    BY <2>1, InvParts
<1>8. EntryInv'
  <2>1. ASSUME NEW e \in Entries PROVE EntryFits(e)'
    <3>1. CASE e = k /\ to = "remove"
      BY <1>3, <3>1 DEF EntryFits, Removing
    <3>2. CASE e = k /\ to = "clean"
      BY <1>2, <3>2 DEF EntryFits, Whole
    <3>3. CASE e # k
      <4>1. EntryFits(e) /\ root'[e] = root[e] /\ (e \in cut' <=> e \in cut)
        BY <1>1, <1>4, <3>3, InvParts
      <4>2. CASE Whole(e)
        BY <4>1, <4>2 DEF Whole, EntryFits
      <4>3. CASE e \in cut
        BY <4>1, <4>3 DEF EntryFits
      <4>4. CASE Removing(e)
        <5>1. PICK q \in Procs : pc[q] = "remove" /\ Key(q) = e
          BY <4>4 DEF Removing
        <5>2. pc'[q] = "remove" /\ Key(q)' = e
          BY <1>3, <3>3, <5>1
        <5>3. QED
          BY <5>2 DEF Removing, EntryFits
      <4>5. QED
        BY <4>1, <4>2, <4>3, <4>4 DEF EntryFits
    <3>4. QED
      BY <1>2, <3>1, <3>2, <3>3
  <2>2. ASSUME NEW q \in Procs, pc'[q] \in Emptied PROVE root'[Key(q)'] = {}
    <3>1. CASE q = p
      BY <1>2, <1>3, <2>2, <3>1 DEF Emptied, Building
    <3>2. CASE q # p
      <4>1. pc[q] \in Emptied /\ root[Key(q)] = {} /\ Key(q) \in Entries
        BY <1>1, <1>3, <2>2, <3>2, InvParts, KeyType DEF EmptyFits
      <4>2. Key(q) # k
        BY <1>1, <3>2, <4>1, OneInside DEF Inside, Emptied, Building
      <4>3. QED
        BY <1>3, <1>4, <4>1, <4>2
    <3>3. QED
      BY <3>1, <3>2
  <2>3. QED
    BY <2>1, <2>2, InvParts DEF EmptyFits
<1>9. QED
  BY <1>5, <1>6, <1>7, <1>8 DEF PackageInv

\* The directory of another process that goes on building loses a file only to
\* the sweep under another entry's lock, and then it is marked.
LEMMA SweepFileKeeps ==
  ASSUME PackageInv, NEW p \in Procs, SweepFile(p)
  PROVE  PackageInv'
<1>1. /\ TypeOK /\ Types /\ LockInv /\ BuildInv /\ EntryInv /\ pc[p] = "clean"
      /\ UNCHANGED <<pc, request, result, calls, written, root, lock, follows, cut>>
      /\ \A q \in Procs : Key(q)' = Key(q)
  BY Facts DEF SweepFile, Key
<1>2. PICK q \in Procs :
        /\ \E x \in temp[q] : temp' = [temp EXCEPT ![q] = @ \ {x}]
        /\ sweep' = [sweep EXCEPT ![p] = @ \cup {q}]
        /\ stolen' = IF pc[q] \in Building /\ Key(q) # Key(p)
                     THEN stolen \cup {q} ELSE stolen
  BY DEF SweepFile
<1>3. /\ temp' \in [Procs -> SUBSET AllWrites] /\ sweep' \in [Procs -> SUBSET Procs]
      /\ temp'[q] \subseteq temp[q] /\ \A s \in Procs \ {q} : temp'[s] = temp[s]
      /\ \A s, t \in Procs : s \in sweep[t] => s \in sweep'[t]
      /\ stolen \subseteq stolen' /\ stolen' \subseteq Procs
      /\ pc[q] \in Building /\ Key(q) # Key(p) => q \in stolen'
  BY <1>1, <1>2 DEF Types
<1>4. TypeOK'
  <2>1. Types'
    BY <1>1, <1>3 DEF Types
  <2>2. ASSUME NEW s \in Procs PROVE ProcTypes(s)'
    <3>1. ProcTypes(s) /\ temp'[s] \subseteq temp[s]
      BY <1>1, <1>3, TypeParts
    <3>2. QED
      BY <1>1, <3>1 DEF ProcTypes
  <2>3. ASSUME NEW e \in Entries PROVE RootType(e)'
    BY <1>1, TypeParts DEF RootType
  <2>4. QED
    BY <2>1, <2>2, <2>3, TypeParts
<1>5. LockInv'
  BY <1>1 DEF LockInv
<1>6. BuildInv'
  <2>1. ASSUME NEW s \in Procs PROVE BuildFits(s)'
    <3>1. CASE s = q
      <4>1. BuildFits(q)
        BY <1>1, InvParts
      <4>2. pc[q] \in Building => q \in stolen'
        <5>1. ASSUME pc[q] \in Building PROVE Key(q) # Key(p)
          BY <1>1, <5>1, OneInside DEF Inside, Building
        <5>2. QED
          BY <1>3, <5>1
      <4>3. QED
        BY <1>1, <1>3, <3>1, <4>1, <4>2 DEF BuildFits, Building
    <3>2. CASE s # q
      BY <1>1, <1>3, <3>2, BuildFrame, InvParts
    <3>3. QED
      BY <3>1, <3>2
  <2>2. QED
    BY <2>1, InvParts
<1>7. EntryInv'
  BY <1>1, EntryFrame
<1>8. QED
  BY <1>4, <1>5, <1>6, <1>7 DEF PackageInv

\* An entry that loses a file to a sweep is marked; it is nobody's empty one.
LEMMA SweepInstalledKeeps ==
  ASSUME PackageInv, NEW p \in Procs, SweepInstalled(p)
  PROVE  PackageInv'
<1>1. /\ TypeOK /\ Types /\ LockInv /\ BuildInv /\ EntryInv
      /\ UNCHANGED <<pc, request, result, calls, written, temp, lock, sweep, follows, stolen>>
      /\ \A q \in Procs : Key(q)' = Key(q)
  BY Facts DEF SweepInstalled, Key
<1>2. PICK e \in follows[p] :
        (\E x \in root[e] : root' = [root EXCEPT ![e] = @ \ {x}]) /\ cut' = cut \cup {e}
  BY DEF SweepInstalled
<1>3. /\ e \in Entries /\ e \in cut' /\ cut' \subseteq Entries /\ cut \subseteq cut'
      /\ root' \in [Entries -> SUBSET AllWrites]
      /\ \A k \in Entries : root'[k] \subseteq root[k] /\ (k # e => root'[k] = root[k])
  BY <1>1, <1>2 DEF Types
<1>4. TypeOK'
  <2>1. Types'
    BY <1>1, <1>3 DEF Types
  <2>2. ASSUME NEW q \in Procs PROVE ProcTypes(q)'
    BY <1>1, TypeParts DEF ProcTypes
  <2>3. ASSUME NEW k \in Entries PROVE RootType(k)'
    <3>1. RootType(k) /\ root'[k] \subseteq root[k]
      BY <1>1, <1>3, TypeParts
    <3>2. QED
      BY <3>1 DEF RootType
  <2>4. QED
    BY <2>1, <2>2, <2>3, TypeParts
<1>5. LockInv'
  BY <1>1 DEF LockInv
<1>6. BuildInv'
  <2>1. ASSUME NEW q \in Procs PROVE BuildFits(q)'
    BY <1>1, BuildFrame, InvParts
  <2>2. QED
    BY <2>1, InvParts
<1>7. EntryInv'
  <2>1. ASSUME NEW k \in Entries PROVE EntryFits(k)'
    <3>1. CASE k = e
      BY <1>3, <3>1 DEF EntryFits
    <3>2. CASE k # e
      <4>1. EntryFits(k) /\ root'[k] = root[k]
        BY <1>1, <1>3, <3>2, InvParts
      <4>2. QED
        BY <1>1, <1>3, <4>1 DEF EntryFits, Whole, Removing
    <3>3. QED
      BY <3>1, <3>2
  <2>2. ASSUME NEW q \in Procs, pc'[q] \in Emptied PROVE root'[Key(q)'] = {}
    <3>1. root[Key(q)] = {} /\ Key(q) \in Entries
      BY <1>1, <2>2, InvParts, KeyType DEF EmptyFits
    <3>2. QED
      BY <1>1, <1>3, <3>1
  <2>3. QED
    BY <2>1, <2>2, InvParts DEF EmptyFits
<1>8. QED
  BY <1>4, <1>5, <1>6, <1>7 DEF PackageInv

LEMMA SweepNextKeeps ==
  ASSUME PackageInv, NEW p \in Procs, SweepNext(p)
  PROVE  PackageInv'
<1>1. /\ TypeOK /\ Types /\ LockInv /\ BuildInv /\ EntryInv
      /\ UNCHANGED <<pc, request, result, calls, written, temp, root, lock, follows, stolen, cut>>
      /\ \A q \in Procs : Key(q)' = Key(q)
  BY Facts DEF SweepNext, Key
<1>2. PICK q \in sweep[p] : temp[q] = {} /\ sweep' = [sweep EXCEPT ![p] = @ \ {q}]
  BY DEF SweepNext
<1>3. /\ sweep' \in [Procs -> SUBSET Procs]
      /\ \A s \in Procs : s \in sweep[s] => temp[s] = {} \/ s \in sweep'[s]
  BY <1>1, <1>2 DEF Types
<1>4. TypeOK'
  <2>1. Types'
    BY <1>1, <1>3 DEF Types
  <2>2. QED
    BY <1>1, <2>1, TypeFrame, TypeParts DEF ProcTypes
<1>5. LockInv'
  BY <1>1 DEF LockInv
<1>6. BuildInv'
  <2>1. ASSUME NEW s \in Procs PROVE BuildFits(s)'
    <3>1. BuildFits(s)
      BY <1>1, InvParts
    <3>2. QED
      BY <1>1, <1>3, <3>1 DEF BuildFits
  <2>2. QED
    BY <2>1, InvParts
<1>7. EntryInv'
  BY <1>1, EntryFrame
<1>8. QED
  BY <1>4, <1>5, <1>6, <1>7 DEF PackageInv

\* The sweep leaves nothing of the process's own: its directory is built from
\* nothing.
LEMMA SweepEndsKeeps ==
  ASSUME PackageInv, NEW p \in Procs, SweepEnds(p)
  PROVE  PackageInv'
<1>1. /\ TypeOK /\ Types /\ LockInv /\ BuildInv /\ EntryInv /\ BuildFits(p)
      /\ request[p] \in Requests /\ Len(Writes(request[p])) > 0
      /\ pc[p] = "clean" /\ sweep[p] = {} /\ Goto(p, "write")
      /\ follows' = [follows EXCEPT ![p] = {}]
      /\ UNCHANGED <<request, calls, written, temp, root, sweep, crashes, faults, cut>>
  BY Facts DEF SweepEnds
<1>2. /\ pc' = [pc EXCEPT ![p] = "write"] /\ result' = result /\ lock' = lock
      /\ stolen' = stolen /\ pc'[p] = "write" /\ \A q \in Procs \ {p} : pc'[q] = pc[q]
      /\ \A q \in Procs : Key(q)' = Key(q)
  BY <1>1, GoesTo DEF Key
<1>3. TypeOK'
  <2>1. follows' \in [Procs -> SUBSET Entries]
    BY <1>1 DEF Types
  <2>2. Types'
    BY <1>1, <1>2, <2>1 DEF Types
  <2>3. QED
    BY <1>1, <2>2, TypeFrame, TypeParts DEF ProcTypes
<1>4. LockInv'
  BY <1>1, GoingKeepsLocks DEF Inside
<1>5. BuildInv'
  <2>1. ASSUME NEW q \in Procs PROVE BuildFits(q)'
    <3>1. CASE q = p
      <4>1. written[p] = 0 /\ temp[p] = {} /\ temp[p] = Built(request[p], 0)
        BY <1>1, BuiltFirst DEF BuildFits
      <4>2. QED
        BY <1>1, <1>2, <3>1, <4>1 DEF BuildFits
    <3>2. CASE q # p
      BY <1>1, <1>2, <3>2, BuildFrame, InvParts
    <3>3. QED
      BY <3>1, <3>2
  <2>2. QED
    BY <2>1, InvParts
<1>6. EntryInv'
  <2>1. \A q \in Procs : pc[q] = "remove" => Key(q)' = Key(q) /\ pc'[q] = "remove"
    BY <1>1, <1>2
  <2>2. \A q \in Procs : pc'[q] \in Emptied => Key(q)' = Key(q) /\ pc[q] \in Emptied
    BY <1>1, <1>2 DEF Emptied, Building
  <2>3. QED
    BY <1>1, <2>1, <2>2, EntryFrame
<1>7. QED
  BY <1>3, <1>4, <1>5, <1>6 DEF PackageInv

LEMMA WriteNextKeeps ==
  ASSUME PackageInv, NEW p \in Procs, WriteNext(p)
  PROVE  PackageInv'
<1> DEFINE r == request[p]
           n == written[p]
           x == Writes(r)[n + 1]
<1>1. /\ TypeOK /\ Types /\ LockInv /\ BuildInv /\ EntryInv /\ BuildFits(p)
      /\ r \in Requests /\ Len(Writes(r)) \in Nat /\ n \in Nat /\ n < Len(Writes(r))
      /\ pc[p] = "write"
      /\ UNCHANGED <<request, calls, root, sweep, follows, crashes, faults, cut>>
  BY Facts DEF WriteNext, BuildFits
<1>2. PICK to \in {"write", "check"} :
        /\ Goto(p, to)
        /\ to = IF written'[p] = Len(Writes(r)) THEN "check" ELSE "write"
  BY DEF WriteNext
<1>3. /\ pc' = [pc EXCEPT ![p] = to] /\ result' = result /\ lock' = lock
      /\ stolen' = stolen /\ pc'[p] = to /\ \A q \in Procs \ {p} : pc'[q] = pc[q]
      /\ \A q \in Procs : Key(q)' = Key(q)
  BY <1>1, <1>2, GoesTo DEF Key
<1>4. /\ temp' = [temp EXCEPT ![p] = Put(temp[p], x[1], x[2])]
      /\ written' = [written EXCEPT ![p] = n + 1]
  BY DEF WriteNext
<1>5. x \in Range1(Writes(r)) /\ x = <<x[1], x[2]>>
  <2>1. n + 1 \in DOMAIN Writes(r)
    BY <1>1, WritesAre
  <2>2. QED
    BY <1>1, <2>1, WritesArePairs DEF Range1
<1> HIDE DEF x, n
<1>6. Put(temp[p], x[1], x[2]) \subseteq temp[p] \cup {x}
  BY <1>5 DEF Put
<1>7. temp[p] \subseteq Range1(Writes(r))
  BY <1>1 DEF BuildFits, Building
<1>8. Put(temp[p], x[1], x[2]) \subseteq Range1(Writes(r))
  BY <1>5, <1>6, <1>7
<1>9. /\ written'[p] = n + 1 /\ temp'[p] = Put(temp[p], x[1], x[2])
      /\ \A q \in Procs \ {p} : written'[q] = written[q] /\ temp'[q] = temp[q]
      /\ n + 1 \in Nat /\ n + 1 \in 0 .. Len(Writes(r))
  BY <1>1, <1>4 DEF Types
<1>10. TypeOK'
  <2>1. temp' \in [Procs -> SUBSET AllWrites]
    <3>1. Put(temp[p], x[1], x[2]) \in SUBSET AllWrites
      BY <1>1, <1>8 DEF AllWrites
    <3>2. QED
      BY <1>1, <1>4, <3>1 DEF Types
  <2>2. written' \in [Procs -> Nat]
    BY <1>1, <1>4, <1>9 DEF Types
  <2>3. Types'
    BY <1>1, <1>3, <2>1, <2>2 DEF Types
  <2>4. ASSUME NEW q \in Procs PROVE ProcTypes(q)'
    <3>1. CASE q = p
      BY <1>1, <1>8, <1>9, <3>1 DEF ProcTypes
    <3>2. CASE q # p
      BY <1>1, <1>9, <3>2, TypeParts DEF ProcTypes
    <3>3. QED
      BY <3>1, <3>2
  <2>5. ASSUME NEW e \in Entries PROVE RootType(e)'
    BY <1>1, TypeParts DEF RootType
  <2>6. QED
    BY <2>3, <2>4, <2>5, TypeParts
<1>11. LockInv'
  BY <1>1, <1>2, GoingKeepsLocks DEF Inside
<1>12. BuildInv'
  <2>1. ASSUME NEW q \in Procs PROVE BuildFits(q)'
    <3>1. CASE q = p
      <4>1. p \notin stolen => temp'[p] = Built(r, n + 1)
        <5>1. ASSUME p \notin stolen PROVE temp[p] = Built(r, n)
          BY <1>1, <5>1 DEF BuildFits, Building, n
        <5>2. QED
          BY <1>1, <1>9, <5>1, BuiltNext DEF x
      <4>2. request'[p] = r /\ stolen' = stolen
        BY <1>1, <1>3
      <4>3. to = "write" => n + 1 < Len(Writes(r))
        BY <1>1, <1>2, <1>9
      <4>4. to = "check" => n + 1 = Len(Writes(r))
        BY <1>2, <1>9
      <4> HIDE DEF r
      <4>5. QED
        BY <1>2, <1>3, <1>8, <1>9, <3>1, <4>1, <4>2, <4>3, <4>4 DEF BuildFits, Building
    <3>2. CASE q # p
      BY <1>1, <1>3, <1>9, <3>2, BuildFrame, InvParts
    <3>3. QED
      BY <3>1, <3>2
  <2>2. QED
    BY <2>1, InvParts
<1>13. EntryInv'
  <2>1. \A q \in Procs : pc[q] = "remove" => Key(q)' = Key(q) /\ pc'[q] = "remove"
    BY <1>1, <1>3
  <2>2. \A q \in Procs : pc'[q] \in Emptied => Key(q)' = Key(q) /\ pc[q] \in Emptied
    BY <1>1, <1>3 DEF Emptied, Building
  <2>3. QED
    BY <1>1, <2>1, <2>2, EntryFrame
<1>14. QED
  BY <1>10, <1>11, <1>12, <1>13 DEF PackageInv

LEMMA CheckNewKeeps ==
  ASSUME PackageInv, NEW p \in Procs, CheckNew(p)
  PROVE  PackageInv'
<1>1. /\ TypeOK /\ Types /\ LockInv /\ BuildInv /\ EntryInv /\ BuildFits(p)
      /\ pc[p] = "check" /\ cut \subseteq Entries
      /\ UNCHANGED <<request, calls, temp, root, sweep, follows, crashes, faults, cut>>
      /\ sweep \in [Procs -> SUBSET Procs] /\ follows \in [Procs -> SUBSET Entries]
  BY Facts DEF CheckNew, Types
<1>2. CASE Return(p, "rejected")
  BY <1>1, <1>2, ReturningKeeps
<1>3. CASE Goto(p, "install") /\ written' = written /\ Checked(request[p], temp[p])
  <2>1. /\ pc' = [pc EXCEPT ![p] = "install"] /\ result' = result /\ lock' = lock
        /\ stolen' = stolen /\ pc'[p] = "install" /\ \A q \in Procs \ {p} : pc'[q] = pc[q]
        /\ \A q \in Procs : Key(q)' = Key(q)
    BY <1>1, <1>3, GoesTo DEF Key
  <2>2. Types'
    BY <1>1, <1>3, <2>1 DEF Types
  <2>3. TypeOK'
    BY <1>1, <1>3, <2>2, TypeFrame, TypeParts DEF ProcTypes
  <2>4. LockInv'
    BY <1>1, <1>3, GoingKeepsLocks DEF Inside
  <2>5. BuildInv'
    <3>1. ASSUME NEW q \in Procs PROVE BuildFits(q)'
      <4>1. CASE q = p
        <5>1. p \notin stolen => temp[p] = Wanted(request[p])
          BY <1>1 DEF BuildFits, Building, Wanted
        <5>2. QED
          BY <1>1, <1>3, <2>1, <4>1, <5>1 DEF BuildFits, Building
      <4>2. CASE q # p
        BY <1>1, <1>3, <2>1, <4>2, BuildFrame, InvParts
      <4>3. QED
        BY <4>1, <4>2
    <3>2. QED
      BY <3>1, InvParts
  <2>6. EntryInv'
    <3>1. \A q \in Procs : pc[q] = "remove" => Key(q)' = Key(q) /\ pc'[q] = "remove"
      BY <1>1, <2>1
    <3>2. \A q \in Procs : pc'[q] \in Emptied => Key(q)' = Key(q) /\ pc[q] \in Emptied
      BY <1>1, <2>1 DEF Emptied, Building
    <3>3. QED
      BY <1>1, <3>1, <3>2, EntryFrame
  <2>7. QED
    BY <2>3, <2>4, <2>5, <2>6 DEF PackageInv
<1>4. QED
  BY <1>2, <1>3 DEF CheckNew

LEMMA InstallKeeps ==
  ASSUME PackageInv, NEW p \in Procs, Install(p)
  PROVE  PackageInv'
<1> DEFINE k == Key(p)
           r == request[p]
<1>1. /\ TypeOK /\ Types /\ LockInv /\ BuildInv /\ EntryInv /\ BuildFits(p)
      /\ pc[p] = "install" /\ cut \subseteq Entries /\ k \in Entries /\ r \in Requests
      /\ temp' = [temp EXCEPT ![p] = {}]
      /\ sweep' = [q \in Procs |-> sweep[q] \ {p}]
      /\ UNCHANGED <<request, calls, crashes, faults>>
  BY Facts DEF Install, Types
<1>5. /\ sweep' \in [Procs -> SUBSET Procs] /\ follows \in [Procs -> SUBSET Entries]
      /\ \A q \in Procs \ {p} : q \in sweep[q] => q \in sweep'[q]
  BY <1>1 DEF Types
<1>2. CASE Return(p, "rejected") /\ UNCHANGED <<root, cut, follows>>
  BY <1>1, <1>5, <1>2, ReturningKeeps
<1>3. CASE /\ root' = [root EXCEPT ![k] = temp[p]] /\ Return(p, "ok")
           /\ cut' = IF p \in stolen THEN cut \cup {k} ELSE cut
           /\ \E opened \in SUBSET Sweepers(p) :
                follows' = [q \in Procs |-> IF q \in opened THEN follows[q] \cup {k}
                                           ELSE follows[q]]
  <2>1. /\ pc' = [pc EXCEPT ![p] = "idle"] /\ result' = [result EXCEPT ![p] = "ok"]
        /\ pc'[p] = "idle" /\ \A q \in Procs \ {p} : pc'[q] = pc[q]
        /\ lock' \in [Entries -> SUBSET Procs]
        /\ written' = [written EXCEPT ![p] = 0] /\ stolen' = stolen \ {p}
    BY <1>1, <1>3, Returns
  <2>2. \A q \in Procs : Key(q)' = Key(q)
    BY <1>1 DEF Key
  <2>3. /\ temp' \in [Procs -> SUBSET AllWrites] /\ \A q \in Procs \ {p} : temp'[q] = temp[q]
        /\ temp'[p] = {} /\ written' \in [Procs -> Nat] /\ written'[p] = 0
        /\ \A q \in Procs \ {p} : written'[q] = written[q] /\ (q \in stolen => q \in stolen')
        /\ stolen' \subseteq Procs
    BY <1>1, <2>1 DEF Types
  <2>4. temp[p] \in SUBSET AllWrites
    BY <1>1 DEF Types
  <2>5. /\ root' \in [Entries -> SUBSET AllWrites] /\ root'[k] = temp[p]
        /\ \A e \in Entries \ {k} : root'[e] = root[e] /\ (e \in cut' <=> e \in cut)
        /\ cut' \subseteq Entries /\ follows' \in [Procs -> SUBSET Entries]
    <3> HIDE DEF k
    <3>1. QED
      BY <1>1, <1>3, <2>4 DEF Types
  <2>6. Entry(r) = k
    BY DEF Key
  <2>7. temp[p] \subseteq Range1(Writes(r)) /\ (p \notin stolen => temp[p] = Wanted(r))
    BY <1>1 DEF BuildFits, Building, Wanted
  <2> HIDE DEF k, r
  <2>8. TypeOK'
    <3>1. Types'
      BY <1>1, <1>5, <2>1, <2>3, <2>5 DEF Types
    <3>2. ASSUME NEW q \in Procs PROVE ProcTypes(q)'
      <4>1. ProcTypes(q) /\ temp'[q] \subseteq temp[q]
        BY <1>1, <2>3, TypeParts
      <4>2. written'[q] \in 0 .. Len(Writes(request[q]))
        BY <1>1, <2>3, <4>1, Facts DEF ProcTypes
      <4>3. QED
        BY <1>1, <4>1, <4>2 DEF ProcTypes
    <3>3. ASSUME NEW e \in Entries PROVE RootType(e)'
      <4>1. CASE e = k
        BY <1>1, <2>5, <2>6, <2>7, <4>1 DEF RootType
      <4>2. CASE e # k
        BY <1>1, <2>5, <4>2, TypeParts DEF RootType
      <4>3. QED
        BY <4>1, <4>2
    <3>4. QED
      BY <3>1, <3>2, <3>3, TypeParts
  <2>9. LockInv'
    BY <1>1, <1>3, ReturningKeepsLocks
  <2>10. BuildInv'
    <3>1. ASSUME NEW q \in Procs PROVE BuildFits(q)'
      <4>1. CASE q = p
        BY <2>1, <2>3, <4>1 DEF BuildFits, Building
      <4>2. CASE q # p
        BY <1>1, <1>5, <2>1, <2>3, <4>2, BuildFrame, InvParts
      <4>3. QED
        BY <4>1, <4>2
    <3>2. QED
      BY <3>1, InvParts
  <2>11. EntryInv'
    <3>1. ASSUME NEW e \in Entries PROVE EntryFits(e)'
      <4>1. CASE e = k /\ p \in stolen
        BY <1>3, <4>1 DEF EntryFits
      <4>2. CASE e = k /\ p \notin stolen
        BY <1>1, <2>5, <2>6, <2>7, <4>2 DEF EntryFits, Whole
      <4>3. CASE e # k
        <5>1. EntryFits(e) /\ root'[e] = root[e] /\ (e \in cut' <=> e \in cut)
          BY <1>1, <2>5, <4>3, InvParts
        <5>2. CASE Whole(e)
          BY <5>1, <5>2 DEF Whole, EntryFits
        <5>3. CASE e \in cut
          BY <5>1, <5>3 DEF EntryFits
        <5>4. CASE Removing(e)
          BY <1>1, <2>1, <2>2, <5>4 DEF Removing, EntryFits
        <5>5. QED
          BY <5>1, <5>2, <5>3, <5>4 DEF EntryFits
      <4>4. QED
        BY <4>1, <4>2, <4>3
    <3>2. ASSUME NEW q \in Procs, pc'[q] \in Emptied PROVE root'[Key(q)'] = {}
      <4>1. q # p
        BY <2>1, <3>2 DEF Emptied, Building
      <4>2. pc[q] \in Emptied /\ root[Key(q)] = {} /\ Key(q) \in Entries
        BY <1>1, <2>1, <3>2, <4>1, InvParts, KeyType DEF EmptyFits
      <4>3. Key(q) # k
        BY <1>1, <4>1, <4>2, OneInside DEF Inside, Emptied, Building, k
      <4>4. QED
        BY <2>2, <2>5, <4>2, <4>3
    <3>3. QED
      BY <3>1, <3>2, InvParts DEF EmptyFits
  <2>12. QED
    BY <2>8, <2>9, <2>10, <2>11 DEF PackageInv
<1>4. QED
  BY <1>2, <1>3 DEF Install

\* Failing and dying: a removal that is cut short is marked.
LEMMA EndingKeeps ==
  ASSUME PackageInv, NEW p \in Procs, FailIo(p) \/ Crash(p)
  PROVE  PackageInv'
<1>1. /\ cut \subseteq Entries /\ Key(p) \in Entries
      /\ sweep \in [Procs -> SUBSET Procs] /\ follows \in [Procs -> SUBSET Entries]
  BY Facts DEF Types
<1>2. cut' = CutShort(p) /\ cut \subseteq cut' /\ cut' \subseteq Entries
      /\ (pc[p] = "remove" => Key(p) \in cut')
  BY <1>1 DEF FailIo, Crash, CutShort
<1>3. /\ UNCHANGED <<request, calls, root>>
      /\ temp' = temp \/ temp' = [temp EXCEPT ![p] = {}]
      /\ sweep' = [sweep EXCEPT ![p] = {}] /\ follows' = [follows EXCEPT ![p] = {}]
  BY DEF FailIo, Crash
<1>6. /\ sweep' \in [Procs -> SUBSET Procs] /\ follows' \in [Procs -> SUBSET Entries]
      /\ \A q \in Procs \ {p} : q \in sweep[q] => q \in sweep'[q]
  BY <1>1, <1>3
<1>4. Return(p, "io") \/ Return(p, "crashed")
  BY DEF FailIo, Crash
<1>5. QED
  BY <1>2, <1>3, <1>4, <1>6, ReturningKeeps

LEMMA PackageStep == PackageInv /\ [Next]_vars => PackageInv'
<1> SUFFICES ASSUME PackageInv, [Next]_vars PROVE PackageInv'
  OBVIOUS
<1>1. CASE UNCHANGED vars
  BY <1>1 DEF vars, PackageInv, TypeOK, LockInv, BuildInv, EntryInv, Whole, Removing, Key
<1>2. CASE Next
  <2>1. PICK p \in Procs :
          \/ \E r \in Requests : Begin(p, r)
          \/ Lock(p) \/ Match(p) \/ RemoveStale(p)
          \/ SweepFile(p) \/ SweepInstalled(p) \/ SweepNext(p) \/ SweepEnds(p)
          \/ WriteNext(p) \/ CheckNew(p) \/ Install(p)
          \/ FailIo(p) \/ Crash(p)
    BY <1>2 DEF Next
  <2>2. CASE \E r \in Requests : Begin(p, r)
    BY <2>2, BeginKeeps
  <2>3. CASE Lock(p)
    BY <2>3, LockKeeps
  <2>4. CASE Match(p)
    BY <2>4, MatchKeeps
  <2>5. CASE RemoveStale(p)
    BY <2>5, RemoveStaleKeeps
  <2>6. CASE SweepFile(p) \/ SweepInstalled(p) \/ SweepNext(p) \/ SweepEnds(p)
    BY <2>6, SweepFileKeeps, SweepInstalledKeeps, SweepNextKeeps, SweepEndsKeeps
  <2>7. CASE WriteNext(p)
    BY <2>7, WriteNextKeeps
  <2>8. CASE CheckNew(p)
    BY <2>8, CheckNewKeeps
  <2>9. CASE Install(p)
    BY <2>9, InstallKeeps
  <2>10. CASE FailIo(p) \/ Crash(p)
    BY <2>10, EndingKeeps
  <2>11. QED
    BY <2>1, <2>2, <2>3, <2>4, <2>5, <2>6, <2>7, <2>8, <2>9, <2>10
<1>3. QED
  BY <1>1, <1>2

\* Inductive: one process at a time works below an entry, what it has built is
\* what it has written unless another label's sweep took it, and an entry is
\* whole unless a removal stopped half way or a sweep took from it.
THEOREM PackageSafe == Spec => []PackageInv
<1>1. Init => PackageInv
  BY PackageInit
<1>2. PackageInv /\ [Next]_vars => PackageInv'
  BY PackageStep
<1>3. QED
  BY <1>1, <1>2, PTL DEF Spec

\* TypeOK: every variable of the processes, their temporary directories and
\* the entries keeps its type.
THEOREM PackageTypeCorrect == Spec => []TypeOK
<1>1. PackageInv => TypeOK
  BY DEF PackageInv
<1>2. QED
  BY <1>1, PackageSafe, PTL

-----------------------------------------------------------------------------
(* How calls end                                                           *)

\* What CallsEndRightly says of one process.
EndsRightly(p) ==
  LET r == request[p]
  IN  /\ Ends(p, "ok") =>
          \/ Key(p) \in cut'
          \/ /\ Checked(r, root'[Key(p)])
             /\ \E s \in Requests : /\ SameOwner(r, s) /\ Accepts(r, s)
                                   /\ root'[Key(p)] = Wanted(s)
      /\ Ends(p, "rejected") =>
          \/ ~Checked(r, Wanted(r))
          \/ \E s \in Requests : /\ SameOwner(r, s) /\ Lacks(r, s)
                                /\ root[Key(p)] = Wanted(s)
          \/ Excused(p)

\* A step that does not end the call of a process.
LEMMA StaysRight ==
  ASSUME NEW p \in Procs, pc'[p] # "idle" \/ pc[p] = "idle"
  PROVE  EndsRightly(p)
BY DEF EndsRightly, Ends

LEMMA OthersStay ==
  ASSUME TypeOK, NEW p \in Procs, NEW q \in Procs, q # p,
         \/ \E to : Goto(p, to)
         \/ \E how : Return(p, how)
         \/ \E to : pc' = [pc EXCEPT ![p] = to]
         \/ pc' = pc
  PROVE  pc'[q] = pc[q]
BY DEF TypeOK, Goto, Return

LEMMA MatchEnds ==
  ASSUME PackageInv, NEW p \in Procs, Match(p)
  PROVE  EndsRightly(p)
<1> DEFINE r == request[p]
           k == Key(p)
           verdict == Verdict(r, root[k])
<1>1. /\ TypeOK /\ LockInv /\ EntryInv /\ r \in Requests /\ k \in Entries /\ pc[p] = "match"
      /\ root' = root /\ cut' = cut
  BY Facts DEF Match
<1>2. \/ verdict = "hit" /\ Return(p, "ok")
      \/ verdict = "error" /\ Return(p, "rejected")
      \/ verdict = "miss" /\ Goto(p, "remove")
  BY DEF Match
<1>3. CASE verdict = "miss" /\ Goto(p, "remove")
  BY <1>1, <1>3, GoesTo, StaysRight
<1>4. CASE k \in cut
  BY <1>1, <1>4 DEF EndsRightly, Excused
<1>5. CASE /\ k \notin cut
           /\ \/ verdict = "hit" /\ Return(p, "ok")
              \/ verdict = "error" /\ Return(p, "rejected")
  <2>1. ~Removing(k)
    BY <1>1, OneInside DEF Removing, Inside
  <2>2. Whole(k)
    BY <1>1, <1>5, <2>1 DEF EntryInv
  <2>3. root[k] # {}
    <3>1. verdict # "miss"
      BY <1>5
    <3>2. QED
      BY <3>1, VerdictOfNothing
  <2>4. PICK s \in Requests : root[k] = Wanted(s)
    BY <2>2, <2>3 DEF Whole
  <2>5. /\ verdict = "hit" => SameOwner(r, s) /\ Accepts(r, s) /\ Checked(r, root[k])
        /\ verdict = "error" => ~Checked(r, Wanted(r)) \/ (SameOwner(r, s) /\ Lacks(r, s))
    BY <1>1, <2>4, VerdictOfWanted
  <2>6. /\ Return(p, "ok") => result'[p] = "ok"
        /\ Return(p, "rejected") => result'[p] = "rejected"
    BY <1>1 DEF Return, TypeOK
  <2> HIDE DEF verdict
  <2>7. QED
    BY <1>1, <1>5, <2>4, <2>5, <2>6 DEF EndsRightly, Ends
<1>6. QED
  BY <1>2, <1>3, <1>4, <1>5

LEMMA CheckNewEnds ==
  ASSUME PackageInv, NEW p \in Procs, CheckNew(p)
  PROVE  EndsRightly(p)
<1>1. TypeOK /\ BuildFits(p) /\ pc[p] = "check" /\ root' = root /\ cut' = cut
  BY Facts DEF CheckNew
<1>2. p \notin stolen => temp[p] = Wanted(request[p])
  BY <1>1 DEF BuildFits, Building, Wanted
<1>3. CASE ~Checked(request[p], temp[p]) /\ Return(p, "rejected")
  <2>1. result'[p] = "rejected"
    BY <1>1, <1>3 DEF Return, TypeOK
  <2>2. QED
    BY <1>2, <1>3, <2>1 DEF EndsRightly, Ends, Excused
<1>4. CASE Goto(p, "install")
  BY <1>1, <1>4, GoesTo, StaysRight
<1>5. QED
  BY <1>3, <1>4 DEF CheckNew

LEMMA InstallEnds ==
  ASSUME PackageInv, NEW p \in Procs, Install(p)
  PROVE  EndsRightly(p)
<1> DEFINE r == request[p]
           k == Key(p)
<1>1. /\ TypeOK /\ Types /\ BuildFits(p) /\ EmptyFits(p) /\ pc[p] = "install"
      /\ r \in Requests /\ k \in Entries
  BY Facts DEF Install
<1>2. root[k] = {}
  BY <1>1 DEF EmptyFits, Emptied, Building
<1>3. p \notin stolen => temp[p] = Wanted(r) /\ Checked(r, Wanted(r))
  BY <1>1 DEF BuildFits, Building, Wanted
<1>4. Wanted(r) # {} /\ SameOwner(r, r) /\ Accepts(r, r)
  BY <1>1, WantedParts DEF SameOwner, Accepts
<1>5. CASE (temp[p] = {} \/ root[k] # {}) /\ Return(p, "rejected")
  <2>1. p \in stolen
    BY <1>2, <1>3, <1>4, <1>5
  <2>2. result'[p] = "rejected"
    BY <1>1, <1>5 DEF Return, TypeOK
  <2>3. QED
    BY <2>1, <2>2 DEF EndsRightly, Ends, Excused
<1>6. CASE /\ root' = [root EXCEPT ![k] = temp[p]] /\ Return(p, "ok")
           /\ cut' = IF p \in stolen THEN cut \cup {k} ELSE cut
  <2>1. result'[p] = "ok" /\ root'[k] = temp[p]
    BY <1>1, <1>6 DEF Return, TypeOK
  <2>2. QED
    BY <1>1, <1>3, <1>4, <1>6, <2>1 DEF EndsRightly, Ends
<1>7. QED
  BY <1>5, <1>6 DEF Install

LEMMA EndsStep == PackageInv /\ [Next]_vars => \A q \in Procs : EndsRightly(q)
<1> SUFFICES ASSUME PackageInv, [Next]_vars, NEW q \in Procs PROVE EndsRightly(q)
  OBVIOUS
<1>1. TypeOK
  BY DEF PackageInv
<1>2. CASE UNCHANGED vars
  BY <1>2, StaysRight DEF vars
<1>3. CASE Next
  <2>1. PICK p \in Procs :
          \/ \E r \in Requests : Begin(p, r)
          \/ Lock(p) \/ Match(p) \/ RemoveStale(p)
          \/ SweepFile(p) \/ SweepInstalled(p) \/ SweepNext(p) \/ SweepEnds(p)
          \/ WriteNext(p) \/ CheckNew(p) \/ Install(p)
          \/ FailIo(p) \/ Crash(p)
    BY <1>3 DEF Next
  <2>2. CASE q # p
    <3>1. \/ \E to : Goto(p, to)
          \/ \E how : Return(p, how)
          \/ \E to : pc' = [pc EXCEPT ![p] = to]
          \/ pc' = pc
      BY <2>1, Zenon DEF Begin, Lock, Match, RemoveStale, SweepFile, SweepInstalled,
         SweepNext, SweepEnds, WriteNext, CheckNew, Install, FailIo, Crash
    <3>2. pc'[q] = pc[q]
      BY <1>1, <2>2, <3>1, OthersStay
    <3>3. QED
      BY <3>2, StaysRight
  <2>3. CASE q = p
    <3>1. CASE \/ \E r \in Requests : Begin(p, r)
               \/ Lock(p) \/ RemoveStale(p)
               \/ SweepFile(p) \/ SweepInstalled(p) \/ SweepNext(p) \/ SweepEnds(p)
               \/ WriteNext(p)
      <4>1. pc[p] = "idle" \/ pc'[p] # "idle"
        BY <1>1, <3>1 DEF Begin, Lock, RemoveStale, SweepFile, SweepInstalled, SweepNext,
           SweepEnds, WriteNext, Goto, TypeOK
      <4>2. QED
        BY <2>3, <4>1, StaysRight
    <3>2. CASE Match(p)
      BY <2>3, <3>2, MatchEnds
    <3>3. CASE CheckNew(p)
      BY <2>3, <3>3, CheckNewEnds
    <3>4. CASE Install(p)
      BY <2>3, <3>4, InstallEnds
    <3>5. CASE FailIo(p) \/ Crash(p)
      <4>1. result'[p] \in {"io", "crashed"}
        BY <1>1, <3>5 DEF FailIo, Crash, Return, TypeOK
      <4>2. QED
        BY <2>3, <4>1 DEF EndsRightly, Ends
    <3>6. QED
      BY <2>1, <3>1, <3>2, <3>3, <3>4, <3>5
  <2>4. QED
    BY <2>2, <2>3
<1>4. QED
  BY <1>2, <1>3

\* CallsEndRightly: a call that succeeds returns the whole directory of a request
\* of its owner and label, with what it checks and generates, and one that is
\* rejected is so for its own request or for a file that request does not
\* generate; except where another label's sweep took from the directory, before
\* or after it was renamed, or a removal of the entry stopped half way.
THEOREM CallsEndWell == Spec => CallsEndRightly
<1>1. PackageInv /\ [Next]_vars => \A p \in Procs : EndsRightly(p)
  BY EndsStep
<1>2. (\A p \in Procs : EndsRightly(p)) <=>
        \A p \in Procs :
          LET r == request[p]
          IN  /\ Ends(p, "ok") =>
                  \/ Key(p) \in cut'
                  \/ /\ Checked(r, root'[Key(p)])
                     /\ \E s \in Requests : /\ SameOwner(r, s) /\ Accepts(r, s)
                                           /\ root'[Key(p)] = Wanted(s)
              /\ Ends(p, "rejected") =>
                  \/ ~Checked(r, Wanted(r))
                  \/ \E s \in Requests : /\ SameOwner(r, s) /\ Lacks(r, s)
                                        /\ root[Key(p)] = Wanted(s)
                  \/ Excused(p)
  BY DEF EndsRightly
<1>3. QED
  BY <1>1, <1>2, PackageSafe, PTL DEF Spec, CallsEndRightly

-----------------------------------------------------------------------------
(* The build cache and the manifests: the inductive invariant.              *)

Dependencies == {"missing", "bare", "shims"}
LibraryNames == {"shims", "initialized", "plain"}

DylibType == [from : [Files -> Nat], deps : Dependencies,
              tool : Tools \cup {"none"}, mtime : Nat]
ManifestType == [tool : Tools \cup {"none"}, libs : SUBSET LibraryNames,
                 whole : BOOLEAN, mtime : Nat, exact : BOOLEAN]
ScanType == {Cardinality(S) : S \in SUBSET Files} \X Nat
NoKey == {<<"none">>, <<"torn">>}
CacheType == NoKey \cup (Dependencies \X ScanType \X (Tools \cup {"ambient"}))
BuildType == [pc : {"idle", "probe", "lake", "cache", "stamp", "rename"},
              opt : Options \cup {Idle.opt}, tool : Tools \cup {"none"},
              scan : ScanType, deps : Dependencies, draft : ManifestType,
              result : {"none", "built", "failed", "crashed"}]
LoadType == [pc : {"idle", "check", "reread", "load"},
             exports : ExportSets \cup {Free.exports},
             checked : ManifestType, held : ManifestType, seen : DylibType,
             result : {"none", "missing", "malformed", "refused", "loaded"},
             got : DylibType]

\* Every variable has its type, the history included.
FilesType ==
    /\ clock \in Nat
    /\ src \in [Files -> 0 .. clock]
    /\ deps \in Dependencies /\ gone \subseteq LibraryNames /\ ambient \in Tools
    /\ dylib \in DylibType /\ dylib.mtime <= clock
    /\ cache \in CacheType
    /\ manifest \in [ExportSets -> ManifestType]
    /\ \A e \in ExportSets : manifest[e].mtime <= clock
ActorsType ==
    /\ build \in [Builders -> BuildType]
    /\ load \in [Loaders -> LoadType]
    /\ \A b \in Builders :
        build[b].pc # "idle" =>
            build[b].opt \in Options /\ build[b].tool \in Tools /\ build[b].result = "none"
    /\ \A l \in Loaders :
        load[l].pc # "idle" =>
            load[l].exports \in ExportSets /\ load[l].result = "none"
HistoryType ==
    /\ unseen \in BOOLEAN /\ sound \in [ExportSets -> BOOLEAN]
    /\ settled \in [Builders -> BOOLEAN]

\* A library is younger than what it was compiled from, and what has run Lake
\* has one.
LibraryInv ==
    /\ dylib = NoDylib \/ /\ dylib.tool \in Tools /\ dylib.deps # "missing"
                          /\ \A f \in Files : dylib.from[f] < dylib.mtime
                          /\ 0 < dylib.mtime
    /\ deps = "missing" => dylib = NoDylib
    /\ cache \notin NoKey => dylib # NoDylib
    /\ \A b \in Builders :
        build[b].pc \in {"cache", "stamp", "rename"} => dylib # NoDylib

\* "missing" is below "bare" is below "shims"
Below(d, e) == d = e \/ d = "missing" \/ e = "shims"
SelectedBy(sysroot) == IF sysroot = "ambient" THEN ambient ELSE sysroot

\* Unless something happened that no key can see: sources and dependencies only
\* go forward from what the library was compiled from, and the key was found
\* before the library was made.
ForwardInv ==
    /\ Below(dylib.deps, deps)
    /\ dylib # NoDylib =>
        \A f \in Files : src[f] = dylib.from[f] \/ dylib.mtime < src[f]
    /\ cache \notin NoKey => /\ cache[2][2] < dylib.mtime
                             /\ Below(cache[1], dylib.deps)
                             /\ dylib.tool = SelectedBy(cache[3])
BuildersForward ==
    \A b \in Builders :
        /\ build[b].pc # "idle" =>
            /\ build[b].tool = Selected(build[b].opt)
            /\ build[b].scan[2] = 0 \/ \E f \in Files : build[b].scan[2] <= src[f]
        /\ build[b].pc = "cache" =>
            /\ build[b].scan[2] < dylib.mtime
            /\ dylib.tool = Selected(build[b].opt)
SeenInv == ~unseen => ForwardInv /\ BuildersForward

\* What a settled build found is still there.
SettledInv ==
    \A b \in Builders :
        settled[b] =>
            /\ build[b].pc # "idle" \/ build[b].result = "built"
               => build[b].scan = Scanned
            /\ build[b].pc = "probe" => build[b].deps = deps
            /\ build[b].pc \in {"stamp", "rename"} \/ build[b].result = "built"
               => /\ cache = CacheKey(build[b].opt, deps, build[b].scan)
                  /\ dylib # NoDylib
            /\ build[b].pc = "rename" =>
                /\ dylib.mtime <= build[b].draft.mtime
                /\ deps = "shims" => "shims" \in build[b].draft.libs

\* A manifest that is younger than the library names its toolchain, if the
\* build's fingerprint was the library's when it was written.
Faithful(m) == m.exact /\ dylib.mtime <= m.mtime => dylib.tool = m.tool
ManifestInv ==
    /\ \A e \in ExportSets :
        /\ Faithful(manifest[e])
        /\ sound[e] => /\ manifest[e].whole
                       /\ dylib.mtime <= manifest[e].mtime
                       /\ Sound(manifest[e])
    /\ \A b \in Builders :
        build[b].pc = "rename" => /\ build[b].draft.mtime <= clock
                                  /\ build[b].draft.whole
                                  /\ Faithful(build[b].draft)

\* No two manifests that were published or will be bear one stamp, and what a
\* loader has checked is not published again.
StampsInv ==
    \A b \in Builders :
        build[b].pc = "rename" =>
            /\ \A e \in ExportSets : manifest[e].mtime # build[b].draft.mtime
            /\ \A c \in Builders : c # b /\ build[c].pc = "rename"
                                   => build[c].draft.mtime # build[b].draft.mtime
            /\ \A l \in Loaders : load[l].checked.mtime # build[b].draft.mtime

\* What a loader has read is a manifest that some build wrote, and what it has
\* checked is not older than the library it saw, if that is what it opens.
LoaderInv ==
    \A l \in Loaders :
        /\ load[l].checked.mtime <= clock /\ load[l].held.mtime <= clock
        /\ Faithful(load[l].held)
        /\ load[l].pc = "check" => load[l].held = load[l].checked
        /\ load[l].pc \in {"reread", "load"} =>
            /\ Fits(load[l].checked)
            /\ manifest[load[l].exports] = load[l].checked
               => load[l].seen.mtime <= load[l].checked.mtime
        /\ load[l].pc = "load" /\ load[l].held = load[l].checked
           => load[l].seen.mtime <= load[l].checked.mtime

ArtifactsInv == /\ FilesType /\ ActorsType /\ HistoryType
                /\ LibraryInv /\ SeenInv /\ SettledInv
                /\ ManifestInv /\ StampsInv /\ LoaderInv /\ LoadedFits

\* A scan sees the newest time stamp.
LEMMA NewestIs ==
  ASSUME NEW n \in Nat, NEW S \in SUBSET (0 .. n)
  PROVE  /\ Newest(S) \in S \cup {0}
         /\ \A u \in S : u <= Newest(S)
<1> DEFINE P(t) == \A u \in S \cup {0} : u <= t
<1>1. \E t \in S \cup {0} : P(t)
  <2>1. CASE S \ {0} = {}
    <3>1. P(0)
      BY <2>1
    <3>2. QED
      BY <3>1
  <2>2. CASE S \ {0} # {}
    <3>1. S \ {0} \in SUBSET (1..n)
      OBVIOUS
    <3>2. PICK m \in S \ {0} : \A k \in S \ {0} : k <= m
      BY <2>2, <3>1, GreatestNatural
    <3>3. P(m)
      BY <3>1, <3>2
    <3>4. QED
      BY <3>3
  <2>3. QED
    BY <2>1, <2>2
<1>2. Newest(S) = CHOOSE t \in S \cup {0} : P(t)
  BY DEF Newest
<1>3. Newest(S) \in S \cup {0} /\ P(Newest(S))
  <2> HIDE DEF P
  <2>1. QED
    BY <1>1, <1>2, Zenon
<1>4. QED
  BY <1>3

LEMMA ScannedIs ==
  ASSUME clock \in Nat, src \in [Files -> 0 .. clock]
  PROVE  /\ Scanned \in ScanType
         /\ Scanned[2] = 0 \/ \E f \in Files : Scanned[2] = src[f]
         /\ \A f \in Files : src[f] <= Scanned[2]
<1> DEFINE S == {src[f] : f \in Present}
<1>1. S \in SUBSET (0 .. clock) /\ Present \subseteq Files
  BY DEF Present
<1>2. /\ Newest(S) \in S \cup {0}
      /\ \A u \in S : u <= Newest(S)
  <2> HIDE DEF S
  <2>1. QED
    BY <1>1, NewestIs
<1>3. Scanned = <<Cardinality(Present), Newest(S)>>
  BY DEF Scanned
<1>4. Newest(S) \in Nat
  BY <1>1, <1>2
<1>5. Scanned \in ScanType
  BY <1>1, <1>3, <1>4 DEF ScanType
<1>6. Scanned[2] = Newest(S)
  BY <1>3
<1>7. Newest(S) = 0 \/ \E f \in Files : Newest(S) = src[f]
  BY <1>1, <1>2
<1>8. ASSUME NEW f \in Files PROVE src[f] <= Newest(S)
  <2>1. CASE f \in Present
    BY <1>2, <2>1
  <2>2. CASE f \notin Present
    BY <1>4, <2>2 DEF Present
  <2>3. QED
    BY <2>1, <2>2
<1>9. QED
  BY <1>5, <1>6, <1>7, <1>8

LEMMA ManifestTypes ==
  /\ NoManifest \in ManifestType
  /\ \A o \in Options : \A t \in Tools :
        /\ Fingerprint(o, t) \in Tools
        /\ Libraries(o) \in SUBSET LibraryNames
        /\ Selected(o) \in Tools \cup {ambient}
        /\ o.sysroot \in Tools \cup {"ambient"}
        /\ o.exports \in ExportSets
<1>1. NoManifest \in ManifestType
  BY DEF NoManifest, ManifestType
<1>2. ASSUME NEW o \in Options, NEW t \in Tools
      PROVE  /\ Fingerprint(o, t) \in Tools
             /\ Libraries(o) \in SUBSET LibraryNames
             /\ Selected(o) \in Tools \cup {ambient}
             /\ o.sysroot \in Tools \cup {"ambient"}
             /\ o.exports \in ExportSets
  <2>1. o.sysroot \in Tools \cup {"ambient"} /\ o.explicit \subseteq {"initialized", "plain"}
        /\ RuntimeTool \in Tools
    BY ArtifactsAssumption
  <2>2. QED
    BY <2>1 DEF Fingerprint, Libraries, Selected, ExportSets, LibraryNames
<1>3. QED
  BY <1>1, <1>2

LEMMA IdleTypes ==
  /\ Idle \in BuildType /\ Idle.pc = "idle" /\ Idle.result = "none"
  /\ Idle.draft = NoManifest
  /\ Free \in LoadType /\ Free.pc = "idle" /\ Free.result = "none"
<1>1. <<0, 0>> \in ScanType
  <2>1. Cardinality({}) = 0
    BY FS_EmptySet
  <2>2. 0 \in {Cardinality(S) : S \in SUBSET Files}
    BY <2>1
  <2>3. QED
    BY <2>2 DEF ScanType
<1>2. NoManifest \in ManifestType
  BY ManifestTypes
<1>3. Idle \in BuildType /\ Idle.pc = "idle" /\ Idle.result = "none" /\ Idle.draft = NoManifest
  BY <1>1, <1>2 DEF Idle, BuildType, Dependencies
<1>4. NoDylib \in DylibType
  BY DEF NoDylib, DylibType, Dependencies
<1>5. Free \in LoadType /\ Free.pc = "idle" /\ Free.result = "none"
  BY <1>2, <1>4 DEF Free, LoadType
<1>6. QED
  BY <1>3, <1>5

-----------------------------------------------------------------------------
(* The build cache and the manifests: types.                                *)

\* A later time keeps the stamps of the past.
LEMMA LaterFiles ==
  ASSUME FilesType, clock' \in {clock, clock + 1},
         UNCHANGED <<src, deps, gone, ambient, dylib, cache, manifest>>
  PROVE  FilesType'
<1>1. clock \in Nat /\ clock' \in Nat /\ clock <= clock'
  BY DEF FilesType
<1>2. src \in [Files -> 0 .. clock]
  BY DEF FilesType
<1>3. src' \in [Files -> 0 .. clock']
  BY <1>1, <1>2
<1>4. dylib.mtime \in Nat /\ \A e \in ExportSets : manifest[e].mtime \in Nat
  BY DEF FilesType, DylibType, ManifestType
<1>5. /\ dylib'.mtime <= clock'
      /\ \A e \in ExportSets : manifest'[e].mtime <= clock'
  BY <1>1, <1>4 DEF FilesType
<1>6. QED
  BY <1>1, <1>3, <1>5 DEF FilesType

LEMMA FilesTypeStep ==
  ASSUME ArtifactsInv, [ArtifactsNext]_artifactVars
  PROVE  FilesType'
<1> USE DEF ArtifactsInv
<1> clock \in Nat /\ src \in [Files -> 0 .. clock]
  BY DEF FilesType
<1>1. CASE UNCHANGED artifactVars
  BY <1>1, LaterFiles DEF artifactVars, project
<1>2. ASSUME NEW b \in Builders, NEW o \in Options, Scan(b, o) PROVE FilesType'
  BY <1>2, LaterFiles DEF Scan, project
<1>3. ASSUME NEW b \in Builders, Probe(b) PROVE FilesType'
  BY <1>3, LaterFiles DEF Probe, project
<1>4. ASSUME NEW b \in Builders, Lake(b) PROVE FilesType'
  <2>1. /\ deps' = IF deps = "missing" THEN "bare" ELSE deps
        /\ UNCHANGED <<src, gone, ambient, cache, manifest>>
    BY <1>4 DEF Lake
  <2>2. deps' \in Dependencies
    BY <2>1 DEF FilesType, Dependencies
  <2>3. CASE UNCHANGED <<clock, dylib>>
    BY <2>1, <2>2, <2>3 DEF FilesType
  <2>4. CASE dylib' = LakeOutput(b) /\ clock' = clock + 1
    <3>1. build[b].opt \in Options /\ build[b].tool \in Tools
      BY <1>4 DEF Lake, ActorsType
    <3>2. Selected(build[b].opt) \in Tools
      BY <3>1, ManifestTypes DEF FilesType
    <3>3. src \in [Files -> Nat]
      OBVIOUS
    <3>4. dylib' \in DylibType /\ dylib'.mtime = clock + 1
      BY <2>4, <3>2, <3>3 DEF LakeOutput, DylibType, FilesType, Dependencies
    <3>5. src' \in [Files -> 0 .. clock'] /\ clock' \in Nat
      BY <2>1, <2>4
    <3>6. \A e \in ExportSets : manifest[e].mtime \in Nat /\ manifest[e].mtime <= clock
      BY DEF FilesType, ManifestType
    <3>7. \A e \in ExportSets : manifest'[e].mtime <= clock'
      BY <2>1, <2>4, <3>6
    <3>8. QED
      BY <2>1, <2>2, <2>4, <3>4, <3>5, <3>7 DEF FilesType
  <2>5. QED
    BY <1>4, <2>3, <2>4 DEF Lake
<1>5. ASSUME NEW b \in Builders, WriteCache(b) PROVE FilesType'
  <2>1. build[b] \in BuildType /\ build[b].opt \in Options
    BY <1>5 DEF WriteCache, ActorsType
  <2>2. build[b].scan \in ScanType /\ build[b].opt.sysroot \in Tools \cup {"ambient"}
    BY <2>1, ArtifactsAssumption DEF BuildType
  <2>3. cache' = <<deps, build[b].scan, build[b].opt.sysroot>>
    BY <1>5 DEF WriteCache, CacheKey
  <2>4. cache' \in CacheType
    BY <2>2, <2>3 DEF CacheType, FilesType
  <2>5. UNCHANGED <<clock, src, deps, gone, ambient, dylib, manifest>>
    BY <1>5 DEF WriteCache, project
  <2>6. QED
    BY <2>4, <2>5 DEF FilesType
<1>6. ASSUME NEW b \in Builders, Stamp(b) PROVE FilesType'
  BY <1>6, LaterFiles DEF Stamp, project
<1>7. ASSUME NEW b \in Builders, Publish(b) PROVE FilesType'
  <2>1. /\ build[b].draft \in ManifestType /\ build[b].draft.mtime <= clock
    BY <1>7 DEF Publish, ManifestInv, ActorsType, BuildType
  <2>2. /\ manifest' = [manifest EXCEPT ![build[b].opt.exports] = build[b].draft]
        /\ UNCHANGED <<clock, src, deps, gone, ambient, dylib, cache>>
    BY <1>7 DEF Publish, project
  <2>3. manifest' \in [ExportSets -> ManifestType]
    BY <2>1, <2>2 DEF FilesType
  <2>4. \A e \in ExportSets : manifest'[e].mtime <= clock'
    BY <2>1, <2>2 DEF FilesType
  <2>5. QED
    BY <2>2, <2>3, <2>4 DEF FilesType
<1>8. ASSUME NEW b \in Builders, BuildFails(b) \/ BuilderCrash(b) PROVE FilesType'
  <2>1. /\ UNCHANGED <<clock, src, deps, gone, ambient, dylib, manifest>>
        /\ cache' = cache \/ cache' = <<"torn">>
    BY <1>8 DEF BuildFails, BuilderCrash, CacheCutShort, project
  <2>2. cache' \in CacheType
    BY <2>1 DEF FilesType, CacheType, NoKey
  <2>3. QED
    BY <2>1, <2>2 DEF FilesType
<1>9. ASSUME NEW f \in Files, Edit(f) PROVE FilesType'
  <2>1. /\ src' = [src EXCEPT ![f] = clock + 1] /\ clock' = clock + 1
        /\ UNCHANGED <<deps, gone, ambient, dylib, cache, manifest>>
    BY <1>9 DEF Edit, ProjectChange
  <2>2. src' \in [Files -> 0 .. clock'] /\ clock' \in Nat
    BY <2>1
  <2>3. dylib.mtime \in Nat /\ \A e \in ExportSets : manifest[e].mtime \in Nat
    BY DEF FilesType, DylibType, ManifestType
  <2>4. dylib'.mtime <= clock' /\ \A e \in ExportSets : manifest'[e].mtime <= clock'
    BY <2>1, <2>3 DEF FilesType
  <2>5. QED
    BY <2>1, <2>2, <2>4 DEF FilesType
<1>10. ASSUME NEW f \in Files, NEW g \in Files, Move(f, g) PROVE FilesType'
  <2>1. /\ src' = [src EXCEPT ![g] = src[f], ![f] = 0]
        /\ UNCHANGED <<clock, deps, gone, ambient, dylib, cache, manifest>>
    BY <1>10 DEF Move, ProjectChange
  <2>2. src' \in [Files -> 0 .. clock']
    BY <2>1
  <2>3. QED
    BY <2>1, <2>2 DEF FilesType
<1>11. CASE UpdateDeps
  BY <1>11 DEF UpdateDeps, ProjectChange, FilesType, Dependencies
<1>12. ASSUME NEW t \in Tools, SwitchTool(t) PROVE FilesType'
  BY <1>12 DEF SwitchTool, ProjectChange, FilesType
<1>13. ASSUME NEW d \in LibraryNames, RemoveLibrary(d) PROVE FilesType'
  BY <1>13 DEF RemoveLibrary, ProjectChange, FilesType
<1>14. ASSUME NEW l \in Loaders,
              (\E e \in ExportSets : Open(l, e)) \/ Check(l) \/ Reread(l) \/ LoadBundle(l)
       PROVE  FilesType'
  BY <1>14, LaterFiles
     DEF Open, Check, Reread, LoadBundle, WhileLoading, project
<1>15. QED
  BY <1>1, <1>2, <1>3, <1>4, <1>5, <1>6, <1>7, <1>8, <1>9, <1>10, <1>11, <1>12, <1>13,
     <1>14 DEF ArtifactsNext, LibraryNames

LEMMA StepTypes ==
  ASSUME build \in [Builders -> BuildType], NEW b \in Builders,
         NEW at \in {"idle", "probe", "lake", "cache", "stamp", "rename"}
  PROVE  /\ Step(b, at) =>
              /\ build' \in [Builders -> BuildType]
              /\ build'[b] = [build[b] EXCEPT !.pc = at]
              /\ \A c \in Builders : c # b => build'[c] = build[c]
         /\ \A how \in {"built", "failed", "crashed"} : End(b, how) =>
              /\ build' \in [Builders -> BuildType]
              /\ build'[b] = [build[b] EXCEPT !.pc = "idle", !.result = how]
              /\ \A c \in Builders : c # b => build'[c] = build[c]
<1>1. build[b] \in BuildType
  OBVIOUS
<1>2. [build[b] EXCEPT !.pc = at] \in BuildType
  BY <1>1 DEF BuildType
<1>3. ASSUME Step(b, at)
      PROVE  /\ build' \in [Builders -> BuildType]
             /\ build'[b] = [build[b] EXCEPT !.pc = at]
             /\ \A c \in Builders : c # b => build'[c] = build[c]
  <2>1. build' = [build EXCEPT ![b] = [build[b] EXCEPT !.pc = at]]
    BY <1>3 DEF Step
  <2>2. QED
    BY <1>2, <2>1
<1>4. ASSUME NEW how \in {"built", "failed", "crashed"}, End(b, how)
      PROVE  /\ build' \in [Builders -> BuildType]
             /\ build'[b] = [build[b] EXCEPT !.pc = "idle", !.result = how]
             /\ \A c \in Builders : c # b => build'[c] = build[c]
  <2>1. PICK x : x = [build[b] EXCEPT !.pc = "idle"]
    OBVIOUS
  <2>2. x \in BuildType
    BY <1>1, <2>1 DEF BuildType
  <2>3. [x EXCEPT !.result = how] \in BuildType
    BY <2>2 DEF BuildType
  <2>4. [x EXCEPT !.result = how] = [build[b] EXCEPT !.pc = "idle", !.result = how]
    BY <2>1
  <2>5. build' = [build EXCEPT ![b] = [build[b] EXCEPT !.pc = "idle", !.result = how]]
    BY <1>4 DEF End
  <2>6. QED
    BY <2>3, <2>4, <2>5
<1>5. QED
  BY <1>3, <1>4

LEMMA ScanTypes ==
  ASSUME FilesType, ActorsType, NEW b \in Builders, NEW o \in Options, Scan(b, o)
  PROVE  /\ build' \in [Builders -> BuildType]
         /\ build'[b].pc = "probe" /\ build'[b].opt = o
         /\ build'[b].tool = Selected(o) /\ build'[b].tool \in Tools
         /\ build'[b].scan = Scanned /\ build'[b].deps = deps
         /\ build'[b].result = "none"
         /\ \A c \in Builders : c # b => build'[c] = build[c]
<1>1. /\ Scanned \in ScanType
      /\ Selected(o) \in Tools
      /\ deps \in Dependencies
  <2>1. Scanned \in ScanType /\ deps \in Dependencies
    BY ScannedIs DEF FilesType
  <2>2. RuntimeTool \in Tools
    BY ArtifactsAssumption
  <2>3. Selected(o) \in Tools
    BY <2>2, ManifestTypes DEF FilesType
  <2>4. QED
    BY <2>1, <2>3
<1>2. PICK i, t, s : i = Idle /\ t = Selected(o) /\ s = Scanned
  OBVIOUS
<1>3. i \in BuildType /\ i.result = "none"
  BY <1>2, IdleTypes
<1>4. PICK x : x = [i EXCEPT !.pc = "probe", !.opt = o]
  OBVIOUS
<1>5. x \in BuildType /\ x.pc = "probe" /\ x.opt = o /\ x.result = "none"
  BY <1>3, <1>4 DEF BuildType
<1>6. PICK y : y = [x EXCEPT !.tool = t, !.scan = s]
  OBVIOUS
<1>7. /\ y \in BuildType /\ y.pc = "probe" /\ y.opt = o /\ y.result = "none"
      /\ y.tool = t /\ y.scan = s
  BY <1>1, <1>2, <1>5, <1>6 DEF BuildType
<1>8. PICK z : z = [y EXCEPT !.deps = deps]
  OBVIOUS
<1>9. /\ z \in BuildType /\ z.pc = "probe" /\ z.opt = o /\ z.result = "none"
      /\ z.tool = t /\ z.scan = s /\ z.deps = deps
  BY <1>1, <1>7, <1>8 DEF BuildType
<1>10. z = [i EXCEPT !.pc = "probe", !.opt = o, !.tool = t, !.scan = s, !.deps = deps]
  BY <1>4, <1>6, <1>8
<1>11. build' = [build EXCEPT ![b] = z]
  BY <1>2, <1>10 DEF Scan
<1>12. build \in [Builders -> BuildType]
  BY DEF ActorsType
<1>13. build' \in [Builders -> BuildType] /\ build'[b] = z
      /\ \A c \in Builders : c # b => build'[c] = build[c]
  BY <1>9, <1>11, <1>12
<1>14. QED
  BY <1>1, <1>2, <1>9, <1>13

\* The manifest Stamp writes to a temporary file.
Draft(b) ==
    LET tool == Fingerprint(build[b].opt, build[b].tool)
    IN  [tool |-> tool, libs |-> Libraries(build[b].opt), whole |-> TRUE,
         mtime |-> clock + 1, exact |-> tool = dylib.tool]

LEMMA StampTypes ==
  ASSUME FilesType, ActorsType, NEW b \in Builders, Stamp(b)
  PROVE  /\ build' \in [Builders -> BuildType]
         /\ build'[b].pc = "rename" /\ build'[b].draft = Draft(b)
         /\ build'[b].opt = build[b].opt /\ build'[b].tool = build[b].tool
         /\ build'[b].scan = build[b].scan /\ build'[b].result = build[b].result
         /\ \A c \in Builders : c # b => build'[c] = build[c]
<1>1. /\ build[b].opt \in Options /\ build[b].tool \in Tools
      /\ build \in [Builders -> BuildType]
  BY DEF Stamp, ActorsType
<1>2. PICK m : m = Draft(b)
  OBVIOUS
<1>3. m \in ManifestType
  <2>1. Fingerprint(build[b].opt, build[b].tool) \in Tools
        /\ Libraries(build[b].opt) \in SUBSET LibraryNames
    BY <1>1, ManifestTypes
  <2>2. clock + 1 \in Nat
    BY DEF FilesType
  <2>3. QED
    BY <1>2, <2>1, <2>2 DEF Draft, ManifestType
<1>4. PICK x : x = [build[b] EXCEPT !.pc = "rename"]
  OBVIOUS
<1>5. PICK y : y = [x EXCEPT !.draft = m]
  OBVIOUS
<1>6. build[b] \in BuildType
  BY <1>1
<1>7. /\ x \in BuildType /\ x.pc = "rename" /\ x.opt = build[b].opt
      /\ x.tool = build[b].tool /\ x.scan = build[b].scan /\ x.result = build[b].result
  BY <1>4, <1>6 DEF BuildType
<1>8. /\ y \in BuildType /\ y.pc = "rename" /\ y.opt = build[b].opt /\ y.draft = m
      /\ y.tool = build[b].tool /\ y.scan = build[b].scan /\ y.result = build[b].result
  BY <1>3, <1>5, <1>7 DEF BuildType
<1>9. y = [build[b] EXCEPT !.pc = "rename", !.draft = m]
  BY <1>4, <1>5
<1>10. build' = [build EXCEPT ![b] = [build[b] EXCEPT !.pc = "rename", !.draft = m]]
  BY <1>2 DEF Stamp, Draft
<1>11. build' = [build EXCEPT ![b] = y]
  BY <1>9, <1>10
<1>12. QED
  BY <1>1, <1>2, <1>8, <1>11

LEMMA OpenTypes ==
  ASSUME FilesType, ActorsType, NEW l \in Loaders, NEW e \in ExportSets, Open(l, e)
  PROVE  /\ load' \in [Loaders -> LoadType]
         /\ load'[l].exports = e
         /\ load'[l].held = manifest[e] /\ load'[l].checked = manifest[e]
         /\ \/ /\ load'[l].pc = "check" /\ load'[l].result = "none"
            \/ /\ load'[l].pc = "idle"
               /\ load'[l].result \in {"missing", "malformed"}
               /\ ~(Written(manifest[e]) /\ Readable(manifest[e]))
         /\ \A k \in Loaders : k # l => load'[k] = load[k]
<1>1. PICK f, m : f = Free /\ m = manifest[e]
  OBVIOUS
<1>2. f \in LoadType /\ f.pc = "idle" /\ f.result = "none"
  BY <1>1, IdleTypes
<1>3. m \in ManifestType /\ load \in [Loaders -> LoadType]
  BY <1>1 DEF FilesType, ActorsType
<1>4. PICK s : s = [f EXCEPT !.exports = e, !.checked = m, !.held = m]
  OBVIOUS
<1>5. /\ s \in LoadType /\ s.exports = e /\ s.held = m /\ s.checked = m
      /\ s.pc = "idle" /\ s.result = "none"
  <2>1. PICK x : x = [f EXCEPT !.exports = e]
    OBVIOUS
  <2>2. /\ x \in LoadType /\ x.exports = e /\ x.pc = "idle" /\ x.result = "none"
    BY <1>2, <2>1 DEF LoadType
  <2>3. PICK y : y = [x EXCEPT !.checked = m]
    OBVIOUS
  <2>4. /\ y \in LoadType /\ y.exports = e /\ y.checked = m
        /\ y.pc = "idle" /\ y.result = "none"
    BY <1>3, <2>2, <2>3 DEF LoadType
  <2>5. s = [y EXCEPT !.held = m]
    BY <1>4, <2>1, <2>3
  <2>6. QED
    BY <1>3, <2>4, <2>5 DEF LoadType
<1>6. PICK x : x = IF Written(m) /\ Readable(m) THEN [s EXCEPT !.pc = "check"]
                   ELSE [s EXCEPT !.result =
                            IF Written(m) THEN "malformed" ELSE "missing"]
  OBVIOUS
<1>7. /\ x \in LoadType /\ x.exports = e /\ x.held = m /\ x.checked = m
      /\ \/ x.pc = "check" /\ x.result = "none"
         \/ /\ x.pc = "idle" /\ x.result \in {"missing", "malformed"}
            /\ ~(Written(m) /\ Readable(m))
  <2>1. CASE Written(m) /\ Readable(m)
    <3>1. x = [s EXCEPT !.pc = "check"]
      BY <1>6, <2>1
    <3>2. QED
      BY <1>5, <3>1 DEF LoadType
  <2>2. CASE ~(Written(m) /\ Readable(m))
    <3>1. PICK r \in {"missing", "malformed"} : x = [s EXCEPT !.result = r]
      <4>1. CASE Written(m)
        BY <1>6, <2>2, <4>1
      <4>2. CASE ~Written(m)
        BY <1>6, <2>2, <4>2
      <4>3. QED
        BY <4>1, <4>2
    <3>2. QED
      BY <1>5, <2>2, <3>1 DEF LoadType
  <2>3. QED
    BY <2>1, <2>2
<1>8. load' = [load EXCEPT ![l] = x]
  BY <1>1, <1>4, <1>6 DEF Open
<1>9. QED
  BY <1>1, <1>3, <1>7, <1>8

\* How the later steps of a loader end.
Passed(l, x) ==
    /\ Check(l) /\ Fits(load[l].held) /\ ~Stale(load[l].exports)
    /\ x.pc = "reread" /\ x.result = "none"
    /\ x.held = load[l].held /\ x.seen = dylib
Refused(l, x) ==
    /\ \/ Check(l) /\ ~(/\ Fits(load[l].held) /\ ~Stale(load[l].exports)
                        /\ Sound(load[l].held))
       \/ LoadBundle(l) /\ ~Sound(load[l].held)
    /\ x.pc = "idle" /\ x.result = "refused" /\ x.held = load[l].held
ReadAgain(l, x) ==
    /\ Reread(l)
    /\ x.pc = "load" /\ x.result = "none"
    /\ x.held = manifest[load[l].exports] /\ x.seen = load[l].seen
Unreadable(l, x) ==
    /\ Reread(l) /\ ~Readable(manifest[load[l].exports])
    /\ x.pc = "idle" /\ x.result = "malformed"
    /\ x.held = manifest[load[l].exports]
Loaded(l, x) ==
    /\ LoadBundle(l)
    /\ x.pc = "idle" /\ x.result = "loaded"
    /\ x.held = load[l].held /\ x.seen = load[l].seen /\ x.got = dylib

LEMMA LoadMoves ==
  ASSUME FilesType, ActorsType, NEW l \in Loaders,
         Check(l) \/ Reread(l) \/ LoadBundle(l)
  PROVE  \E x \in LoadType :
            /\ load' = [load EXCEPT ![l] = x]
            /\ x.exports = load[l].exports /\ x.checked = load[l].checked
            /\ \/ Passed(l, x) \/ Refused(l, x) \/ ReadAgain(l, x)
               \/ Unreadable(l, x) \/ Loaded(l, x)
<1>1. /\ load \in [Loaders -> LoadType] /\ load[l] \in LoadType
      /\ load[l].result = "none" /\ load[l].pc # "idle" /\ load[l].exports \in ExportSets
  BY DEF ActorsType, Check, Reread, LoadBundle
<1>2. PICK m : m = manifest[load[l].exports]
  OBVIOUS
<1>3. m \in ManifestType /\ dylib \in DylibType
  BY <1>1, <1>2 DEF FilesType
<1> DEFINE Same(x) == x.exports = load[l].exports /\ x.checked = load[l].checked
<1>4. ASSUME Refuse(l, "refused")
      PROVE  \E x \in LoadType :
                /\ load' = [load EXCEPT ![l] = x] /\ Same(x)
                /\ x.pc = "idle" /\ x.result = "refused" /\ x.held = load[l].held
  <2>1. PICK x : x = [load[l] EXCEPT !.pc = "idle"]
    OBVIOUS
  <2>2. x \in LoadType /\ Same(x) /\ x.pc = "idle" /\ x.held = load[l].held
    BY <1>1, <2>1 DEF LoadType
  <2>3. PICK y : y = [x EXCEPT !.result = "refused"]
    OBVIOUS
  <2>4. /\ y \in LoadType /\ Same(y) /\ y.pc = "idle" /\ y.held = load[l].held
        /\ y.result = "refused"
    BY <2>2, <2>3 DEF LoadType
  <2>5. load' = [load EXCEPT ![l].pc = "idle", ![l].result = "refused"]
    BY <1>4 DEF Refuse
  <2>6. load' = [load EXCEPT ![l] = y]
    BY <1>1, <2>1, <2>3, <2>5
  <2>7. QED
    BY <2>4, <2>6
<1>5. CASE Check(l)
  <2>1. CASE Fits(load[l].held) /\ ~Stale(load[l].exports) /\ Sound(load[l].held)
    <3>1. load' = [load EXCEPT ![l].pc = "reread", ![l].seen = dylib]
      BY <1>5, <2>1 DEF Check
    <3>2. PICK x : x = [load[l] EXCEPT !.pc = "reread"]
      OBVIOUS
    <3>3. /\ x \in LoadType /\ Same(x) /\ x.pc = "reread" /\ x.result = "none"
          /\ x.held = load[l].held
      BY <1>1, <3>2 DEF LoadType
    <3>4. PICK y : y = [x EXCEPT !.seen = dylib]
      OBVIOUS
    <3>5. /\ y \in LoadType /\ Same(y) /\ y.pc = "reread" /\ y.result = "none"
          /\ y.held = load[l].held /\ y.seen = dylib
      BY <1>3, <3>3, <3>4 DEF LoadType
    <3>6. load' = [load EXCEPT ![l] = y]
      BY <1>1, <3>1, <3>2, <3>4
    <3>7. Passed(l, y)
      BY <1>5, <2>1, <3>5 DEF Passed
    <3>8. QED
      BY <3>5, <3>6, <3>7
  <2>2. CASE ~(Fits(load[l].held) /\ ~Stale(load[l].exports) /\ Sound(load[l].held))
    <3>1. Refuse(l, "refused")
      BY <1>5, <2>2 DEF Check
    <3>2. QED
      BY <1>4, <1>5, <2>2, <3>1 DEF Refused
  <2>3. QED
    BY <2>1, <2>2
<1>6. CASE Reread(l)
  <2>1. PICK x : x = [load[l] EXCEPT !.held = m]
    OBVIOUS
  <2>2. /\ x \in LoadType /\ Same(x) /\ x.result = "none" /\ x.held = m
        /\ x.seen = load[l].seen
    BY <1>1, <1>3, <2>1 DEF LoadType
  <2>3. CASE Readable(m)
    <3>1. load' = [load EXCEPT ![l].held = m, ![l].pc = "load"]
      BY <1>2, <1>6, <2>3 DEF Reread
    <3>2. PICK y : y = [x EXCEPT !.pc = "load"]
      OBVIOUS
    <3>3. /\ y \in LoadType /\ Same(y) /\ y.result = "none" /\ y.held = m
          /\ y.seen = load[l].seen /\ y.pc = "load"
      BY <2>2, <3>2 DEF LoadType
    <3>4. load' = [load EXCEPT ![l] = y]
      BY <1>1, <2>1, <3>1, <3>2
    <3>5. ReadAgain(l, y)
      BY <1>2, <1>6, <3>3 DEF ReadAgain
    <3>6. QED
      BY <3>3, <3>4, <3>5
  <2>4. CASE ~Readable(m)
    <3>1. load' = [load EXCEPT ![l].held = m, ![l].pc = "idle", ![l].result = "malformed"]
      BY <1>2, <1>6, <2>4 DEF Reread
    <3>2. PICK y : y = [x EXCEPT !.pc = "idle"]
      OBVIOUS
    <3>3. y \in LoadType /\ Same(y) /\ y.held = m /\ y.pc = "idle"
      BY <2>2, <3>2 DEF LoadType
    <3>4. PICK z : z = [y EXCEPT !.result = "malformed"]
      OBVIOUS
    <3>5. /\ z \in LoadType /\ Same(z) /\ z.held = m /\ z.pc = "idle"
          /\ z.result = "malformed"
      BY <3>3, <3>4 DEF LoadType
    <3>6. load' = [load EXCEPT ![l] = z]
      BY <1>1, <2>1, <3>1, <3>2, <3>4
    <3>7. Unreadable(l, z)
      BY <1>2, <1>6, <2>4, <3>5 DEF Unreadable
    <3>8. QED
      BY <3>5, <3>6, <3>7
  <2>5. QED
    BY <2>3, <2>4
<1>7. CASE LoadBundle(l)
  <2>1. CASE Sound(load[l].held)
    <3>1. load' = [load EXCEPT ![l].pc = "idle", ![l].result = "loaded",
                               ![l].got = dylib]
      BY <1>7, <2>1 DEF LoadBundle
    <3>2. PICK x : x = [load[l] EXCEPT !.pc = "idle"]
      OBVIOUS
    <3>3. /\ x \in LoadType /\ Same(x) /\ x.pc = "idle" /\ x.held = load[l].held
          /\ x.seen = load[l].seen
      BY <1>1, <3>2 DEF LoadType
    <3>4. PICK y : y = [x EXCEPT !.result = "loaded"]
      OBVIOUS
    <3>5. /\ y \in LoadType /\ Same(y) /\ y.pc = "idle" /\ y.held = load[l].held
          /\ y.seen = load[l].seen /\ y.result = "loaded"
      BY <3>3, <3>4 DEF LoadType
    <3>6. PICK z : z = [y EXCEPT !.got = dylib]
      OBVIOUS
    <3>7. /\ z \in LoadType /\ Same(z) /\ z.pc = "idle" /\ z.held = load[l].held
          /\ z.seen = load[l].seen /\ z.result = "loaded" /\ z.got = dylib
      BY <1>3, <3>5, <3>6 DEF LoadType
    <3>8. load' = [load EXCEPT ![l] = z]
      BY <1>1, <3>1, <3>2, <3>4, <3>6
    <3>9. Loaded(l, z)
      BY <1>7, <3>7 DEF Loaded
    <3>10. QED
      BY <3>7, <3>8, <3>9
  <2>2. CASE ~Sound(load[l].held)
    <3>1. Refuse(l, "refused")
      BY <1>7, <2>2 DEF LoadBundle
    <3>2. QED
      BY <1>4, <1>7, <2>2, <3>1 DEF Refused
  <2>3. QED
    BY <2>1, <2>2
<1>8. QED
  BY <1>5, <1>6, <1>7

LEMMA LoadTypes ==
  ASSUME FilesType, ActorsType, NEW l \in Loaders,
         Check(l) \/ Reread(l) \/ LoadBundle(l)
  PROVE  /\ load' \in [Loaders -> LoadType]
         /\ load'[l].exports = load[l].exports
         /\ load'[l].checked = load[l].checked
         /\ load'[l].pc # "idle" => load'[l].result = "none"
         /\ \/ Passed(l, load'[l]) \/ Refused(l, load'[l]) \/ ReadAgain(l, load'[l])
            \/ Unreadable(l, load'[l]) \/ Loaded(l, load'[l])
         /\ \A k \in Loaders : k # l => load'[k] = load[k]
<1>1. load \in [Loaders -> LoadType]
  BY DEF ActorsType
<1>2. PICK x \in LoadType :
            /\ load' = [load EXCEPT ![l] = x]
            /\ x.exports = load[l].exports /\ x.checked = load[l].checked
            /\ \/ Passed(l, x) \/ Refused(l, x) \/ ReadAgain(l, x)
               \/ Unreadable(l, x) \/ Loaded(l, x)
  BY LoadMoves
<1>3. /\ load' \in [Loaders -> LoadType] /\ load'[l] = x
      /\ \A k \in Loaders : k # l => load'[k] = load[k]
  BY <1>1, <1>2
<1>4. x.pc # "idle" => x.result = "none"
  BY <1>2 DEF Passed, Refused, ReadAgain, Unreadable, Loaded
<1>5. QED
  BY <1>2, <1>3, <1>4

-----------------------------------------------------------------------------
(* Who moves.                                                               *)

LoaderStep(l) ==
    \/ \E e \in ExportSets : Open(l, e)
    \/ Check(l) \/ Reread(l) \/ LoadBundle(l)
PeopleStep ==
    \/ \E f \in Files : Edit(f) \/ \E g \in Files : Move(f, g)
    \/ UpdateDeps
    \/ \E t \in Tools : SwitchTool(t)
    \/ \E d \in LibraryNames : RemoveLibrary(d)

\* A loader writes nothing the others read, and people write no build output.
LEMMA LoaderLeaves ==
  ASSUME NEW l \in Loaders, LoaderStep(l)
  PROVE  /\ UNCHANGED <<clock, src, deps, gone, ambient, dylib, cache, manifest, build,
                        unseen, sound, settled>>
BY DEF LoaderStep, Open, Check, Reread, LoadBundle, WhileLoading, project

LEMMA PeopleLeave ==
  ASSUME PeopleStep
  PROVE  /\ UNCHANGED <<dylib, cache, manifest, build, load>>
         /\ settled' = [b \in Builders |-> FALSE]
         /\ clock' \in {clock, clock + 1}
  <1>1. CASE \E f \in Files : Edit(f)
    BY <1>1 DEF Edit, ProjectChange
  <1>2. CASE \E f, g \in Files : Move(f, g)
    BY <1>2 DEF Move, ProjectChange
  <1>3. CASE UpdateDeps
    BY <1>3 DEF UpdateDeps, ProjectChange
  <1>4. CASE \E t \in Tools : SwitchTool(t)
    BY <1>4 DEF SwitchTool, ProjectChange
  <1>5. CASE \E d \in LibraryNames : RemoveLibrary(d)
    BY <1>5 DEF RemoveLibrary, ProjectChange
  <1>6. QED
    BY <1>1, <1>2, <1>3, <1>4, <1>5 DEF PeopleStep

BuilderStep(b) ==
    \/ \E o \in Options : Scan(b, o)
    \/ Probe(b) \/ Lake(b) \/ BuildFails(b) \/ WriteCache(b)
    \/ Stamp(b) \/ Publish(b) \/ BuilderCrash(b)

LEMMA WhoMoves ==
  ASSUME [ArtifactsNext]_artifactVars
  PROVE  \/ UNCHANGED artifactVars
         \/ \E b \in Builders : BuilderStep(b)
         \/ \E l \in Loaders : LoaderStep(l)
         \/ PeopleStep
BY DEF ArtifactsNext, BuilderStep, LoaderStep, PeopleStep, LibraryNames

LEMMA BuilderLeaves ==
  ASSUME FilesType, ActorsType, NEW b \in Builders, BuilderStep(b)
  PROVE  /\ UNCHANGED <<src, gone, ambient, load>>
         /\ build' \in [Builders -> BuildType]
         /\ \A c \in Builders : c # b => build'[c] = build[c]
         /\ build'[b].pc # "idle" =>
                /\ build'[b].opt \in Options /\ build'[b].tool \in Tools
                /\ build'[b].result = "none"
<1>1. build \in [Builders -> BuildType] /\ build[b] \in BuildType
  BY DEF ActorsType
<1>2. build[b].pc # "idle" =>
        build[b].opt \in Options /\ build[b].tool \in Tools /\ build[b].result = "none"
  BY DEF ActorsType
<1> DEFINE Goal == /\ build' \in [Builders -> BuildType]
                   /\ \A c \in Builders : c # b => build'[c] = build[c]
                   /\ build'[b].pc # "idle" =>
                        /\ build'[b].opt \in Options /\ build'[b].tool \in Tools
                        /\ build'[b].result = "none"
<1>3. ASSUME NEW at \in {"lake", "cache", "stamp"}, Step(b, at), build[b].pc # "idle"
      PROVE  Goal
  <2>1. /\ build' \in [Builders -> BuildType]
        /\ build'[b] = [build[b] EXCEPT !.pc = at]
        /\ \A c \in Builders : c # b => build'[c] = build[c]
    BY <1>1, <1>3, StepTypes
  <2>2. /\ build'[b].opt = build[b].opt /\ build'[b].tool = build[b].tool
        /\ build'[b].result = build[b].result
    BY <1>1, <2>1 DEF BuildType
  <2>3. QED
    BY <1>2, <1>3, <2>1, <2>2
<1>4. ASSUME NEW how \in {"built", "failed", "crashed"}, End(b, how)
      PROVE  Goal
  <2>1. /\ build' \in [Builders -> BuildType]
        /\ build'[b] = [build[b] EXCEPT !.pc = "idle", !.result = how]
        /\ \A c \in Builders : c # b => build'[c] = build[c]
    BY <1>1, <1>4, StepTypes
  <2>2. build'[b].pc = "idle"
    BY <1>1, <2>1 DEF BuildType
  <2>3. QED
    BY <2>1, <2>2
<1>5. CASE \E o \in Options : Scan(b, o)
  <2>1. PICK o \in Options : Scan(b, o)
    BY <1>5
  <2>2. UNCHANGED <<src, gone, ambient, load>>
    BY <2>1 DEF Scan, project
  <2>3. QED
    BY <2>1, <2>2, ScanTypes
<1>6. CASE Probe(b)
  <2>1. UNCHANGED <<src, gone, ambient, load>> /\ build[b].pc # "idle"
    BY <1>6 DEF Probe, project
  <2>2. Step(b, "stamp") \/ Step(b, "lake")
    BY <1>6 DEF Probe
  <2>3. QED
    BY <1>3, <2>1, <2>2
<1>7. CASE Lake(b) \/ WriteCache(b)
  <2>1. UNCHANGED <<src, gone, ambient, load>> /\ build[b].pc # "idle"
    BY <1>7 DEF Lake, WriteCache, project
  <2>2. Step(b, "cache") \/ Step(b, "stamp")
    BY <1>7 DEF Lake, WriteCache
  <2>3. QED
    BY <1>3, <2>1, <2>2
<1>8. CASE Stamp(b)
  <2>1. UNCHANGED <<src, gone, ambient, load>> /\ build[b].pc # "idle"
    BY <1>8 DEF Stamp, project
  <2>2. QED
    BY <1>2, <1>8, <2>1, StampTypes
<1>9. CASE Publish(b) \/ BuildFails(b) \/ BuilderCrash(b)
  <2>1. UNCHANGED <<src, gone, ambient, load>>
    BY <1>9 DEF Publish, BuildFails, BuilderCrash, project
  <2>2. End(b, "built") \/ End(b, "failed") \/ End(b, "crashed")
    BY <1>9 DEF Publish, BuildFails, BuilderCrash
  <2>3. QED
    BY <1>4, <2>1, <2>2
<1>10. QED
  BY <1>5, <1>6, <1>7, <1>8, <1>9 DEF BuilderStep

LEMMA ActorsTypeStep ==
  ASSUME ArtifactsInv, [ArtifactsNext]_artifactVars
  PROVE  ActorsType'
<1> FilesType /\ ActorsType
  BY DEF ArtifactsInv
<1>1. CASE UNCHANGED artifactVars
  BY <1>1 DEF artifactVars, ActorsType
<1>2. ASSUME NEW b \in Builders, BuilderStep(b) PROVE ActorsType'
  <2>1. /\ UNCHANGED load
        /\ build' \in [Builders -> BuildType]
        /\ \A c \in Builders : c # b => build'[c] = build[c]
        /\ build'[b].pc # "idle" =>
            build'[b].opt \in Options /\ build'[b].tool \in Tools /\ build'[b].result = "none"
    BY <1>2, BuilderLeaves
  <2>2. QED
    BY <2>1 DEF ActorsType
<1>3. ASSUME NEW l \in Loaders, LoaderStep(l) PROVE ActorsType'
  <2>1. UNCHANGED build
    BY <1>3, LoaderLeaves
  <2>2. /\ load' \in [Loaders -> LoadType]
        /\ \A k \in Loaders : k # l => load'[k] = load[k]
        /\ load'[l].pc # "idle" =>
            load'[l].exports \in ExportSets /\ load'[l].result = "none"
    <3>1. CASE \E e \in ExportSets : Open(l, e)
      BY <3>1, OpenTypes
    <3>2. CASE Check(l) \/ Reread(l) \/ LoadBundle(l)
      <4>1. load[l].exports \in ExportSets
        BY <3>2 DEF ActorsType, Check, Reread, LoadBundle
      <4>2. QED
        BY <3>2, <4>1, LoadTypes
    <3>3. QED
      BY <1>3, <3>1, <3>2 DEF LoaderStep
  <2>3. QED
    BY <2>1, <2>2 DEF ActorsType
<1>4. CASE PeopleStep
  <2>1. UNCHANGED <<build, load>>
    BY <1>4, PeopleLeave
  <2>2. QED
    BY <2>1 DEF ActorsType
<1>5. QED
  BY <1>1, <1>2, <1>3, <1>4, WhoMoves

LEMMA HistoryTypeStep ==
  ASSUME ArtifactsInv, [ArtifactsNext]_artifactVars
  PROVE  HistoryType'
<1> /\ unseen \in BOOLEAN /\ sound \in [ExportSets -> BOOLEAN]
    /\ settled \in [Builders -> BOOLEAN]
  BY DEF ArtifactsInv, HistoryType
<1>1. CASE UNCHANGED artifactVars
  BY <1>1 DEF artifactVars, history, HistoryType
<1>2. ASSUME NEW b \in Builders, BuilderStep(b) PROVE HistoryType'
  <2>1. unseen' \in BOOLEAN
    BY <1>2 DEF BuilderStep, Scan, Probe, Lake, WriteCache, Stamp, Publish, BuildFails,
                BuilderCrash, history
  <2>2. sound' = sound \/ NothingSound \/ (\E e \in ExportSets :
            sound' = [sound EXCEPT ![e] = settled[b] /\ gone = {} /\ ~unseen])
        \/ UNCHANGED sound
    <3>1. CASE Publish(b)
      <4>1. build[b].opt \in Options
        BY <3>1 DEF Publish, ArtifactsInv, ActorsType
      <4>2. build[b].opt.exports \in ExportSets
        BY <4>1 DEF ExportSets
      <4>3. QED
        BY <3>1, <4>2 DEF Publish
    <3>2. QED
      BY <1>2, <3>1 DEF BuilderStep, Scan, Probe, Lake, WriteCache, Stamp, BuildFails,
                BuilderCrash, history
  <2>3. sound' \in [ExportSets -> BOOLEAN]
    BY <2>2 DEF NothingSound
  <2>4. settled' = settled \/ Unsettle(b) \/ settled' = [settled EXCEPT ![b] = TRUE]
    BY <1>2 DEF BuilderStep, Scan, Probe, Lake, WriteCache, Stamp, Publish, BuildFails,
                BuilderCrash, CacheCutShort, history
  <2>5. settled' \in [Builders -> BOOLEAN]
    BY <2>4 DEF Unsettle
  <2>6. QED
    BY <2>1, <2>3, <2>5 DEF HistoryType
<1>3. ASSUME NEW l \in Loaders, LoaderStep(l) PROVE HistoryType'
  BY <1>3, LoaderLeaves DEF HistoryType
<1>4. CASE PeopleStep
  <2>1. settled' = [b \in Builders |-> FALSE]
    BY <1>4, PeopleLeave
  <2>2. unseen' \in BOOLEAN /\ (sound' = sound \/ NothingSound)
    BY <1>4 DEF PeopleStep, Edit, Move, UpdateDeps, SwitchTool, RemoveLibrary
  <2>3. QED
    BY <2>1, <2>2 DEF HistoryType, NothingSound
<1>5. QED
  BY <1>1, <1>2, <1>3, <1>4, WhoMoves

-----------------------------------------------------------------------------
(* The library.                                                             *)

\* After Lake the library is that of the sources, the dependencies and the
\* toolchain of the build, rewritten or not.
LEMMA LakeMakes ==
  ASSUME FilesType, ActorsType, LibraryInv, NEW b \in Builders, Lake(b)
  PROVE  /\ dylib'.from = src /\ dylib'.deps = deps'
         /\ dylib'.tool = Selected(build[b].opt) /\ dylib'.tool \in Tools
         /\ deps' = (IF deps = "missing" THEN "bare" ELSE deps) /\ deps' # "missing"
         /\ dylib' # NoDylib
         /\ \/ UNCHANGED <<clock, deps, dylib, unseen, sound, settled>>
            \/ /\ clock' = clock + 1 /\ dylib'.mtime = clock + 1
               /\ unseen' = (unseen \/ dylib.tool \notin {"none", dylib'.tool})
               /\ NothingSound /\ Unsettle(b)
         /\ UNCHANGED <<src, gone, ambient, cache, manifest, load>>
<1>1. build[b].opt \in Options /\ dylib \in DylibType
  BY DEF Lake, ActorsType, FilesType
<1>2. Selected(build[b].opt) \in Tools
  <2>1. RuntimeTool \in Tools
    BY ArtifactsAssumption
  <2>2. QED
    BY <1>1, <2>1, ManifestTypes DEF FilesType
<1>3. /\ deps' = (IF deps = "missing" THEN "bare" ELSE deps)
      /\ UNCHANGED <<src, gone, ambient, cache, manifest, load>>
  BY DEF Lake
<1>4. PICK new : new = LakeOutput(b)
  OBVIOUS
<1>5. /\ new.from = src /\ new.deps = deps' /\ new.tool = Selected(build[b].opt)
      /\ new.mtime = clock + 1
  BY <1>3, <1>4 DEF LakeOutput
<1>6. deps' # "missing" /\ NoDylib.tool = "none" /\ NoDylib.deps = "missing"
  BY <1>3 DEF NoDylib
<1>7. CASE [new EXCEPT !.mtime = dylib.mtime] = dylib
  <2>1. UNCHANGED <<clock, dylib, unseen, sound, settled>>
    BY <1>4, <1>7 DEF Lake
  <2>2. dylib.from = src /\ dylib.deps = deps' /\ dylib.tool = Selected(build[b].opt)
    BY <1>4, <1>5, <1>7 DEF LakeOutput
  <2>3. dylib # NoDylib
    BY <1>6, <2>2
  <2>4. deps' = deps
    BY <1>3, <2>3 DEF LibraryInv
  <2>5. QED
    BY <1>2, <1>3, <1>6, <2>1, <2>2, <2>3, <2>4
<1>8. CASE [new EXCEPT !.mtime = dylib.mtime] # dylib
  <2>1. /\ dylib' = new /\ clock' = clock + 1
        /\ unseen' = (unseen \/ dylib.tool \notin {"none", new.tool})
        /\ NothingSound /\ Unsettle(b)
    BY <1>4, <1>8 DEF Lake
  <2>2. dylib' # NoDylib
    BY <1>5, <1>6, <2>1
  <2>3. QED
    BY <1>2, <1>3, <1>5, <1>6, <2>1, <2>2
<1>9. QED
  BY <1>7, <1>8

\* The phase a builder comes to.
LEMMA Phases ==
  ASSUME ActorsType, NEW b \in Builders
  PROVE  /\ Probe(b) => /\ build'[b] = [build[b] EXCEPT !.pc =
                                            IF Matches(b) THEN "stamp" ELSE "lake"]
                        /\ build'[b].pc = IF Matches(b) THEN "stamp" ELSE "lake"
         /\ Lake(b) => /\ build'[b] = [build[b] EXCEPT !.pc = "cache"]
                       /\ build'[b].pc = "cache"
         /\ WriteCache(b) => /\ build'[b] = [build[b] EXCEPT !.pc = "stamp"]
                             /\ build'[b].pc = "stamp"
         /\ Publish(b) => build'[b].pc = "idle" /\ build'[b].result = "built"
         /\ BuildFails(b) \/ BuilderCrash(b) =>
                build'[b].pc = "idle" /\ build'[b].result \in {"failed", "crashed"}
         /\ Probe(b) \/ Lake(b) \/ WriteCache(b) \/ Publish(b)
                \/ BuildFails(b) \/ BuilderCrash(b) =>
                /\ build'[b].opt = build[b].opt /\ build'[b].tool = build[b].tool
                /\ build'[b].scan = build[b].scan /\ build'[b].deps = build[b].deps
                /\ build'[b].draft = build[b].draft
<1>1. build \in [Builders -> BuildType] /\ build[b] \in BuildType
  BY DEF ActorsType
<1> DEFINE Keeps == /\ build'[b].opt = build[b].opt /\ build'[b].tool = build[b].tool
                    /\ build'[b].scan = build[b].scan /\ build'[b].deps = build[b].deps
                    /\ build'[b].draft = build[b].draft
<1>2. ASSUME NEW at \in {"lake", "cache", "stamp"}, Step(b, at)
      PROVE  build'[b] = [build[b] EXCEPT !.pc = at] /\ build'[b].pc = at /\ Keeps
  <2>1. build'[b] = [build[b] EXCEPT !.pc = at]
    BY <1>1, <1>2, StepTypes
  <2>2. QED
    BY <1>1, <2>1 DEF BuildType
<1>3. ASSUME NEW how \in {"built", "failed", "crashed"}, End(b, how)
      PROVE  build'[b].pc = "idle" /\ build'[b].result = how /\ Keeps
  <2>1. build'[b] = [build[b] EXCEPT !.pc = "idle", !.result = how]
    BY <1>1, <1>3, StepTypes
  <2>2. QED
    BY <1>1, <2>1 DEF BuildType
<1>4. ASSUME Probe(b)
      PROVE  /\ build'[b] = [build[b] EXCEPT !.pc = IF Matches(b) THEN "stamp" ELSE "lake"]
             /\ build'[b].pc = (IF Matches(b) THEN "stamp" ELSE "lake")
             /\ Keeps
  <2>1. CASE Matches(b)
    <3>1. Step(b, "stamp")
      BY <1>4, <2>1 DEF Probe
    <3>2. QED
      BY <1>2, <2>1, <3>1
  <2>2. CASE ~Matches(b)
    <3>1. Step(b, "lake")
      BY <1>4, <2>2 DEF Probe
    <3>2. QED
      BY <1>2, <2>2, <3>1
  <2>3. QED
    BY <2>1, <2>2
<1>5. Lake(b) => Step(b, "cache")
  BY DEF Lake
<1>6. WriteCache(b) => Step(b, "stamp")
  BY DEF WriteCache
<1>7. Publish(b) => End(b, "built")
  BY DEF Publish
<1>8. (BuildFails(b) => End(b, "failed")) /\ (BuilderCrash(b) => End(b, "crashed"))
  BY DEF BuildFails, BuilderCrash
<1>9. QED
  BY <1>2, <1>3, <1>4, <1>5, <1>6, <1>7, <1>8

LEMMA LibraryStep ==
  ASSUME ArtifactsInv, [ArtifactsNext]_artifactVars
  PROVE  LibraryInv'
<1> /\ FilesType /\ ActorsType /\ LibraryInv
  BY DEF ArtifactsInv
<1>1. CASE UNCHANGED artifactVars
  BY <1>1 DEF artifactVars, project, LibraryInv
<1>2. ASSUME NEW b \in Builders, BuilderStep(b) PROVE LibraryInv'
  <2>1. \A c \in Builders : c # b => build'[c] = build[c]
    BY <1>2, BuilderLeaves
  <2>2. CASE Lake(b)
    <3>1. /\ dylib' # NoDylib /\ dylib'.from = src /\ dylib'.deps = deps'
          /\ dylib'.tool \in Tools /\ deps' # "missing"
          /\ dylib' = dylib \/ (dylib'.mtime = clock + 1)
      BY <2>2, LakeMakes
    <3>2. clock \in Nat /\ \A f \in Files : src[f] \in 0 .. clock
      BY DEF FilesType
    <3>3. 0 < dylib'.mtime /\ \A f \in Files : dylib'.from[f] < dylib'.mtime
      <4>1. CASE dylib' = dylib
        BY <3>1, <4>1 DEF LibraryInv
      <4>2. CASE dylib'.mtime = clock + 1
        BY <3>1, <3>2, <4>2
      <4>3. QED
        BY <3>1, <4>1, <4>2
    <3>4. QED
      BY <3>1, <3>3 DEF LibraryInv
  <2>3. CASE \E o \in Options : Scan(b, o)
    <3>1. PICK o \in Options : Scan(b, o)
      BY <2>3
    <3>2. build'[b].pc = "probe"
      BY <3>1, ScanTypes
    <3>3. UNCHANGED <<dylib, deps, cache>>
      BY <3>1 DEF Scan, project
    <3>4. QED
      BY <2>1, <3>2, <3>3 DEF LibraryInv
  <2>4. CASE Probe(b)
    <3>1. UNCHANGED <<dylib, deps, cache>>
      BY <2>4 DEF Probe, project
    <3>2. build'[b].pc = IF Matches(b) THEN "stamp" ELSE "lake"
      BY <2>4, Phases
    <3>3. build'[b].pc # "lake" => dylib # NoDylib
      BY <3>2 DEF Matches
    <3>4. build'[b].pc \in {"cache", "stamp", "rename"} => dylib # NoDylib
      BY <3>3
    <3>5. QED
      BY <2>1, <3>1, <3>4 DEF LibraryInv
  <2>5. CASE WriteCache(b)
    <3>1. UNCHANGED <<dylib, deps>> /\ build[b].pc = "cache"
      BY <2>5 DEF WriteCache, project
    <3>2. dylib # NoDylib
      BY <3>1 DEF LibraryInv
    <3>3. QED
      BY <2>1, <3>1, <3>2 DEF LibraryInv
  <2>6. CASE Stamp(b)
    <3>1. UNCHANGED <<dylib, deps, cache>> /\ build[b].pc = "stamp"
      BY <2>6 DEF Stamp, project
    <3>2. QED
      BY <2>1, <3>1 DEF LibraryInv
  <2>7. CASE Publish(b)
    <3>1. UNCHANGED <<dylib, deps, cache>> /\ build'[b].pc = "idle"
      BY <2>7, Phases DEF Publish, project
    <3>2. QED
      BY <2>1, <3>1 DEF LibraryInv
  <2>8. CASE BuildFails(b) \/ BuilderCrash(b)
    <3>1. /\ UNCHANGED <<dylib, deps>> /\ build'[b].pc = "idle"
          /\ cache' = cache \/ (build[b].pc = "cache" /\ cache' = <<"torn">>)
      BY <2>8, Phases DEF BuildFails, BuilderCrash, CacheCutShort, project
    <3>2. cache' \notin NoKey => dylib # NoDylib
      BY <3>1 DEF LibraryInv, NoKey
    <3>3. QED
      BY <2>1, <3>1, <3>2 DEF LibraryInv
  <2>9. QED
    BY <1>2, <2>2, <2>3, <2>4, <2>5, <2>6, <2>7, <2>8 DEF BuilderStep
<1>3. ASSUME NEW l \in Loaders, LoaderStep(l) PROVE LibraryInv'
  BY <1>3, LoaderLeaves DEF LibraryInv
<1>4. CASE PeopleStep
  <2>1. UNCHANGED <<dylib, cache, build>>
    BY <1>4, PeopleLeave
  <2>2. deps' = "missing" => deps = "missing"
    BY <1>4 DEF PeopleStep, Edit, Move, UpdateDeps, SwitchTool, RemoveLibrary
  <2>3. QED
    BY <2>1, <2>2 DEF LibraryInv
<1>5. QED
  BY <1>1, <1>2, <1>3, <1>4, WhoMoves

-----------------------------------------------------------------------------
(* What a cache key can see.                                                *)

LEMMA BelowOrders ==
  /\ \A d, e, f \in Dependencies : Below(d, e) /\ Below(e, f) => Below(d, f)
  /\ \A d, e \in Dependencies : Below(d, e) /\ Below(e, d) => d = e
BY DEF Below, Dependencies

LEMMA UnseenStays ==
  ASSUME [ArtifactsNext]_artifactVars, ~unseen'
  PROVE  ~unseen
<1>1. CASE UNCHANGED artifactVars
  BY <1>1 DEF artifactVars, history
<1>2. ASSUME NEW b \in Builders, BuilderStep(b) PROVE ~unseen
  BY <1>2 DEF BuilderStep, Scan, Probe, Lake, WriteCache, Stamp, Publish, BuildFails,
              BuilderCrash, history
<1>3. ASSUME NEW l \in Loaders, LoaderStep(l) PROVE ~unseen
  BY <1>3, LoaderLeaves
<1>4. CASE PeopleStep
  BY <1>4 DEF PeopleStep, Edit, Move, UpdateDeps, SwitchTool, RemoveLibrary
<1>5. QED
  BY <1>1, <1>2, <1>3, <1>4, WhoMoves

LEMMA ForwardStep ==
  ASSUME ArtifactsInv, [ArtifactsNext]_artifactVars, ~unseen'
  PROVE  ForwardInv'
<1> /\ FilesType /\ ActorsType /\ LibraryInv
  BY DEF ArtifactsInv
<1>1. ForwardInv /\ BuildersForward
  BY UnseenStays DEF ArtifactsInv, SeenInv
<1>2. /\ clock \in Nat /\ src \in [Files -> 0 .. clock]
      /\ dylib \in DylibType /\ dylib.mtime \in Nat /\ dylib.mtime <= clock
  BY DEF FilesType, DylibType
<1>3. ASSUME UNCHANGED <<src, deps, ambient, dylib, cache>> PROVE ForwardInv'
  BY <1>1, <1>3 DEF ForwardInv, SelectedBy
<1>4. CASE UNCHANGED artifactVars
  BY <1>3, <1>4 DEF artifactVars, project
<1>5. ASSUME NEW b \in Builders, BuilderStep(b) PROVE ForwardInv'
  <2>1. CASE (\E o \in Options : Scan(b, o)) \/ Probe(b) \/ Stamp(b) \/ Publish(b)
    BY <1>3, <2>1 DEF Scan, Probe, Stamp, Publish, project
  <2>2. CASE Lake(b)
    <3>1. /\ dylib'.from = src /\ dylib'.deps = deps' /\ dylib'.tool \in Tools
          /\ deps' = (IF deps = "missing" THEN "bare" ELSE deps)
          /\ \/ UNCHANGED dylib
             \/ /\ dylib'.mtime = clock + 1
                /\ unseen' = (unseen \/ dylib.tool \notin {"none", dylib'.tool})
          /\ UNCHANGED <<src, ambient, cache>>
      BY <2>2, LakeMakes
    <3>2. CASE cache \in NoKey
      BY <3>1, <3>2 DEF ForwardInv, Below, NoKey
    <3>3. CASE cache \notin NoKey
      <4>1. /\ cache[2][2] < dylib.mtime /\ Below(cache[1], dylib.deps)
            /\ dylib.tool = SelectedBy(cache[3]) /\ dylib # NoDylib
            /\ Below(dylib.deps, deps)
        BY <1>1, <3>3 DEF ForwardInv, LibraryInv
      <4>2. dylib.tool \in Tools
        BY <4>1 DEF LibraryInv
      <4>3. dylib'.tool = dylib.tool
        <5>1. "none" \notin Tools
          BY ArtifactsAssumption
        <5>2. QED
          BY <3>1, <4>2, <5>1
      <4>4. cache[2][2] \in Nat /\ cache[1] \in Dependencies
        BY <3>3 DEF FilesType, CacheType, ScanType
      <4>5. dylib.mtime <= dylib'.mtime
        BY <1>2, <3>1
      <4>6. dylib'.mtime \in Nat
        BY <1>2, <3>1
      <4>7. cache'[2][2] < dylib'.mtime
        BY <1>2, <3>1, <4>1, <4>4, <4>5, <4>6
      <4>8. Below(cache[1], deps')
        <5>1. /\ dylib.deps \in Dependencies /\ deps \in Dependencies
              /\ deps' \in Dependencies
          BY <3>1 DEF FilesType, DylibType, Dependencies
        <5>2. Below(deps, deps')
          BY <3>1 DEF Below
        <5>3. Below(cache[1], deps)
          BY <4>1, <4>4, <5>1, BelowOrders
        <5>4. QED
          BY <4>4, <5>1, <5>2, <5>3, BelowOrders
      <4>9. SelectedBy(cache[3])' = SelectedBy(cache[3])
        BY <3>1 DEF SelectedBy
      <4>10. Below(cache'[1], dylib'.deps) /\ Below(dylib'.deps, deps')
        BY <3>1, <4>8 DEF Below
      <4>11. \A f \in Files : src'[f] = dylib'.from[f]
        BY <3>1
      <4>12. dylib'.tool = SelectedBy(cache[3])'
        BY <4>1, <4>3, <4>9
      <4>13. QED
        BY <4>7, <4>10, <4>11, <4>12 DEF ForwardInv
    <3>4. QED
      BY <3>2, <3>3
  <2>3. CASE WriteCache(b)
    <3>1. /\ cache' = <<deps, build[b].scan, build[b].opt.sysroot>>
          /\ UNCHANGED <<src, deps, ambient, dylib>>
          /\ build[b].pc = "cache" /\ deps = dylib.deps
      BY <2>3 DEF WriteCache, CacheKey, project
    <3>2. /\ build[b].scan[2] < dylib.mtime
          /\ dylib.tool = Selected(build[b].opt)
      BY <1>1, <3>1 DEF BuildersForward
    <3>3. /\ cache'[1] = deps /\ cache'[2][2] = build[b].scan[2]
          /\ cache'[3] = build[b].opt.sysroot
      BY <3>1
    <3>4. /\ cache'[2][2] < dylib'.mtime
          /\ Below(cache'[1], dylib'.deps)
          /\ dylib'.tool = SelectedBy(cache[3])'
      BY <3>1, <3>2, <3>3 DEF Below, Selected, SelectedBy
    <3>5. QED
      BY <1>1, <3>1, <3>4 DEF ForwardInv
  <2>4. CASE BuildFails(b) \/ BuilderCrash(b)
    <3>1. /\ UNCHANGED <<src, deps, ambient, dylib>>
          /\ cache' = cache \/ cache' = <<"torn">>
      BY <2>4 DEF BuildFails, BuilderCrash, CacheCutShort, project
    <3>2. CASE cache' = cache
      BY <1>3, <3>1, <3>2
    <3>3. CASE cache' = <<"torn">>
      BY <1>1, <3>1, <3>3 DEF ForwardInv, NoKey
    <3>4. QED
      BY <3>1, <3>2, <3>3
  <2>5. QED
    BY <1>5, <2>1, <2>2, <2>3, <2>4 DEF BuilderStep
<1>6. ASSUME NEW l \in Loaders, LoaderStep(l) PROVE ForwardInv'
  BY <1>3, <1>6, LoaderLeaves
<1>7. CASE PeopleStep
  <2>1. UNCHANGED <<dylib, cache>>
    BY <1>7, PeopleLeave
  <2>2. ASSUME NEW f \in Files, Edit(f) PROVE ForwardInv'
    <3>1. src' = [src EXCEPT ![f] = clock + 1] /\ UNCHANGED <<deps, ambient>>
      BY <2>2 DEF Edit
    <3>2. \A g \in Files : src'[g] = src[g] \/ dylib'.mtime < src'[g]
      BY <1>2, <2>1, <3>1
    <3>3. QED
      BY <1>1, <2>1, <3>1, <3>2 DEF ForwardInv, SelectedBy
  <2>3. CASE UpdateDeps
    <3>1. deps' = "shims" /\ UNCHANGED <<src, ambient>>
      BY <2>3 DEF UpdateDeps, FilesType, Dependencies
    <3>2. QED
      BY <1>1, <2>1, <3>1 DEF ForwardInv, SelectedBy, Below
  <2>4. ASSUME NEW d \in LibraryNames, RemoveLibrary(d) PROVE ForwardInv'
    BY <1>3, <2>1, <2>4 DEF RemoveLibrary
  <2>5. QED
    BY <1>7, <2>2, <2>3, <2>4 DEF PeopleStep, Move, SwitchTool
<1>8. QED
  BY <1>4, <1>5, <1>6, <1>7, WhoMoves

LEMMA BuildersForwardStep ==
  ASSUME ArtifactsInv, [ArtifactsNext]_artifactVars, ~unseen'
  PROVE  BuildersForward'
<1> /\ FilesType /\ ActorsType /\ LibraryInv
  BY DEF ArtifactsInv
<1>1. ForwardInv /\ BuildersForward
  BY UnseenStays DEF ArtifactsInv, SeenInv
<1>2. /\ clock \in Nat /\ src \in [Files -> 0 .. clock]
      /\ dylib.mtime \in Nat /\ dylib.mtime <= clock
  BY DEF FilesType, DylibType
<1> DEFINE Looked(c) == /\ build[c].tool = Selected(build[c].opt)
                        /\ build[c].scan[2] = 0 \/ \E f \in Files : build[c].scan[2] <= src[f]
           Made(c)   == /\ build[c].scan[2] < dylib.mtime
                        /\ dylib.tool = Selected(build[c].opt)
<1>3. \A c \in Builders : /\ build[c].pc # "idle" => Looked(c)
                          /\ build[c].pc = "cache" => Made(c)
  BY <1>1 DEF BuildersForward
<1>4. SUFFICES \A c \in Builders : /\ build'[c].pc # "idle" => Looked(c)'
                                   /\ build'[c].pc = "cache" => Made(c)'
  BY DEF BuildersForward
<1>5. ASSUME NEW c \in Builders, UNCHANGED <<src, ambient, dylib, build[c]>>
      PROVE  /\ build'[c].pc # "idle" => Looked(c)'
             /\ build'[c].pc = "cache" => Made(c)'
  BY <1>3, <1>5 DEF Selected
<1>6. CASE UNCHANGED artifactVars
  BY <1>5, <1>6 DEF artifactVars, project
<1>7. ASSUME NEW b \in Builders, BuilderStep(b), NEW c \in Builders
      PROVE  /\ build'[c].pc # "idle" => Looked(c)'
             /\ build'[c].pc = "cache" => Made(c)'
  <2>1. UNCHANGED <<src, ambient>> /\ (c # b => build'[c] = build[c])
    BY <1>7, BuilderLeaves
  <2>2. CASE Lake(b)
    <3>1. /\ dylib'.from = src /\ dylib'.tool = Selected(build[b].opt) /\ dylib'.tool \in Tools
          /\ dylib' # NoDylib
          /\ \/ UNCHANGED dylib
             \/ /\ dylib'.mtime = clock + 1
                /\ unseen' = (unseen \/ dylib.tool \notin {"none", dylib'.tool})
      BY <2>2, LakeMakes
    <3>2. CASE c = b
      <4>1. build[b].pc # "idle" /\ build[b].scan \in ScanType
        BY <2>2 DEF Lake, ActorsType, BuildType
      <4>2. Looked(b)
        BY <1>3, <4>1
      <4>3. build'[b].opt = build[b].opt /\ build'[b].tool = build[b].tool
            /\ build'[b].scan = build[b].scan
        BY <2>2, Phases
      <4>4. Looked(b)'
        BY <2>1, <4>2, <4>3 DEF Selected
      <4>5. 0 < dylib'.mtime /\ \A f \in Files : dylib'.from[f] < dylib'.mtime
        BY <3>1, LibraryStep DEF LibraryInv
      <4>6. dylib'.mtime \in Nat /\ build[b].scan[2] \in Nat
        BY <1>2, <3>1, <4>1 DEF ScanType
      <4>7. build[b].scan[2] < dylib'.mtime
        <5>1. CASE build[b].scan[2] = 0
          BY <4>5, <5>1
        <5>2. CASE \E f \in Files : build[b].scan[2] <= src[f]
          <6>1. PICK f \in Files : build[b].scan[2] <= src[f]
            BY <5>2
          <6>2. src[f] \in Nat /\ src[f] < dylib'.mtime
            BY <1>2, <3>1, <4>5
          <6>3. QED
            BY <4>6, <6>1, <6>2
        <5>3. QED
          BY <4>2, <5>1, <5>2
      <4>8. Made(b)'
        BY <2>1, <3>1, <4>3, <4>7 DEF Selected
      <4>9. QED
        BY <3>2, <4>4, <4>8
    <3>3. CASE c # b
      <4>1. build'[c].pc # "idle" => Looked(c)'
        BY <1>3, <2>1, <3>3 DEF Selected
      <4>2. ASSUME build'[c].pc = "cache" PROVE Made(c)'
        <5>1. build[c].pc = "cache" /\ build'[c] = build[c] /\ Made(c)
          BY <1>3, <2>1, <3>3, <4>2
        <5>2. dylib # NoDylib /\ dylib.tool \in Tools
          BY <5>1 DEF LibraryInv
        <5>3. "none" \notin Tools
          BY ArtifactsAssumption
        <5>4. dylib'.tool = dylib.tool
          BY <3>1, <5>2, <5>3
        <5>5. build[c].scan[2] \in Nat
          BY DEF ActorsType, BuildType, ScanType
        <5>6. build[c].scan[2] < dylib'.mtime
          BY <1>2, <3>1, <5>1, <5>5
        <5>7. QED
          BY <2>1, <5>1, <5>4, <5>6 DEF Selected
      <4>3. QED
        BY <4>1, <4>2
    <3>4. QED
      BY <3>2, <3>3
  <2>3. CASE ~Lake(b)
    <3>1. UNCHANGED dylib
      BY <1>7, <2>3 DEF BuilderStep, Scan, Probe, WriteCache, Stamp, Publish, BuildFails,
                        BuilderCrash
    <3>2. CASE c # b
      BY <1>5, <2>1, <3>1, <3>2
    <3>3. CASE c = b /\ \E o \in Options : Scan(b, o)
      <4>1. PICK o \in Options : Scan(b, o)
        BY <3>3
      <4>2. /\ build'[b].pc = "probe" /\ build'[b].opt = o /\ build'[b].tool = Selected(o)
            /\ build'[b].scan = Scanned
        BY <4>1, ScanTypes
      <4>3. Scanned[2] = 0 \/ \E f \in Files : Scanned[2] = src[f]
        BY <1>2, ScannedIs
      <4>4. \A f \in Files : src[f] <= src[f]
        BY <1>2
      <4>5. QED
        BY <2>1, <3>3, <4>2, <4>3, <4>4 DEF Selected
    <3>4. CASE c = b /\ (Probe(b) \/ WriteCache(b) \/ Stamp(b))
      <4>1. /\ build'[b].opt = build[b].opt /\ build'[b].tool = build[b].tool
            /\ build'[b].scan = build[b].scan /\ build'[b].pc # "cache"
        BY <3>4, Phases, StampTypes
      <4>2. build[b].pc # "idle"
        BY <3>4 DEF Probe, WriteCache, Stamp
      <4>3. Looked(b)
        BY <1>3, <4>2
      <4>4. QED
        BY <2>1, <3>4, <4>1, <4>3 DEF Selected
    <3>5. CASE c = b /\ (Publish(b) \/ BuildFails(b) \/ BuilderCrash(b))
      <4>1. build'[b].pc = "idle"
        BY <3>5, Phases
      <4>2. QED
        BY <3>5, <4>1
    <3>6. QED
      BY <1>7, <2>3, <3>2, <3>3, <3>4, <3>5 DEF BuilderStep
  <2>4. QED
    BY <2>2, <2>3
<1>8. ASSUME NEW l \in Loaders, LoaderStep(l), NEW c \in Builders
      PROVE  /\ build'[c].pc # "idle" => Looked(c)'
             /\ build'[c].pc = "cache" => Made(c)'
  BY <1>5, <1>8, LoaderLeaves
<1>9. ASSUME PeopleStep, NEW c \in Builders
      PROVE  /\ build'[c].pc # "idle" => Looked(c)'
             /\ build'[c].pc = "cache" => Made(c)'
  <2>1. UNCHANGED <<dylib, build>>
    BY <1>9, PeopleLeave
  <2>2. UNCHANGED ambient /\ (UNCHANGED src \/ \E f \in Files : src' = [src EXCEPT ![f] = clock + 1])
    BY <1>9 DEF PeopleStep, Edit, Move, UpdateDeps, SwitchTool, RemoveLibrary
  <2>3. \A g \in Files : src[g] <= src'[g] /\ src'[g] \in Nat /\ src[g] \in Nat
    BY <1>2, <2>2
  <2>4. build[c].scan[2] \in Nat
    BY DEF ActorsType, BuildType, ScanType
  <2>5. ASSUME build[c].pc # "idle" PROVE Looked(c)'
    <3>1. Looked(c)
      BY <1>3, <2>5
    <3>2. build[c].scan[2] = 0 \/ \E f \in Files : build[c].scan[2] <= src'[f]
      <4>1. CASE build[c].scan[2] = 0
        BY <4>1
      <4>2. CASE \E f \in Files : build[c].scan[2] <= src[f]
        <5>1. PICK f \in Files : build[c].scan[2] <= src[f]
          BY <4>2
        <5>2. build[c].scan[2] <= src'[f]
          BY <2>3, <2>4, <5>1
        <5>3. QED
          BY <5>2
      <4>3. QED
        BY <3>1, <4>1, <4>2
    <3>3. QED
      BY <2>1, <2>2, <3>1, <3>2 DEF Selected
  <2>6. build[c].pc = "cache" => Made(c)'
    BY <1>3, <2>1, <2>2 DEF Selected
  <2>7. QED
    BY <2>1, <2>5, <2>6
<1>10. QED
  BY <1>6, <1>7, <1>8, <1>9, WhoMoves

-----------------------------------------------------------------------------
(* What a settled build found.                                              *)

LEMMA SettledStep ==
  ASSUME ArtifactsInv, [ArtifactsNext]_artifactVars
  PROVE  SettledInv'
<1> /\ FilesType /\ ActorsType /\ LibraryInv
    /\ settled \in [Builders -> BOOLEAN]
  BY DEF ArtifactsInv, HistoryType
<1> DEFINE Found(c) ==
            /\ build[c].pc # "idle" \/ build[c].result = "built"
               => build[c].scan = Scanned
            /\ build[c].pc = "probe" => build[c].deps = deps
            /\ build[c].pc \in {"stamp", "rename"} \/ build[c].result = "built"
               => /\ cache = CacheKey(build[c].opt, deps, build[c].scan)
                  /\ dylib # NoDylib
            /\ build[c].pc = "rename" =>
                /\ dylib.mtime <= build[c].draft.mtime
                /\ deps = "shims" => "shims" \in build[c].draft.libs
<1>1. \A c \in Builders : settled[c] => Found(c)
  BY DEF ArtifactsInv, SettledInv
<1>2. SUFFICES \A c \in Builders : settled'[c] => Found(c)'
  BY DEF SettledInv
<1>3. UNCHANGED src => UNCHANGED Scanned
  BY DEF Scanned, Present
<1>4. ASSUME NEW c \in Builders, UNCHANGED <<src, deps, dylib, cache, build[c]>>,
             settled[c]
      PROVE  Found(c)'
  <2>1. UNCHANGED CacheKey(build[c].opt, deps, build[c].scan)
    BY <1>4 DEF CacheKey
  <2>2. QED
    BY <1>1, <1>3, <1>4, <2>1
<1>5. CASE UNCHANGED artifactVars
  BY <1>4, <1>5 DEF artifactVars, project, history
<1>6. ASSUME NEW b \in Builders, BuilderStep(b), NEW c \in Builders, settled'[c]
      PROVE  Found(c)'
  <2>1. UNCHANGED src /\ (c # b => build'[c] = build[c]) /\ UNCHANGED Scanned
    BY <1>3, <1>6, BuilderLeaves
  <2>2. CASE c # b
    <3>1. ~Unsettle(b)
      BY <1>6, <2>2 DEF Unsettle
    <3>2. CASE \E o \in Options : Scan(b, o)
      <4>1. PICK o \in Options : Scan(b, o)
        BY <3>2
      <4>2. settled[c] /\ UNCHANGED <<deps, dylib, cache>>
        BY <1>6, <2>2, <4>1 DEF Scan, project
      <4>3. QED
        BY <1>4, <2>1, <2>2, <4>2
    <3>3. CASE Probe(b) \/ Stamp(b) \/ Publish(b)
      <4>1. UNCHANGED <<deps, dylib, cache, settled>>
        BY <3>3 DEF Probe, Stamp, Publish, project, history
      <4>2. QED
        BY <1>4, <1>6, <2>1, <2>2, <4>1
    <3>4. CASE Lake(b)
      <4>1. UNCHANGED <<deps, dylib, cache, settled>>
        BY <3>1, <3>4, LakeMakes
      <4>2. QED
        BY <1>4, <1>6, <2>1, <2>2, <4>1
    <3>5. CASE WriteCache(b)
      BY <3>1, <3>5 DEF WriteCache
    <3>6. CASE BuildFails(b) \/ BuilderCrash(b)
      <4>1. UNCHANGED <<deps, dylib, cache, settled>>
        BY <3>1, <3>6 DEF BuildFails, BuilderCrash, CacheCutShort, project
      <4>2. QED
        BY <1>4, <1>6, <2>1, <2>2, <4>1
    <3>7. QED
      BY <1>6, <3>2, <3>3, <3>4, <3>5, <3>6 DEF BuilderStep
  <2>3. CASE c = b /\ \E o \in Options : Scan(b, o)
    <3>1. PICK o \in Options : Scan(b, o)
      BY <2>3
    <3>2. /\ build'[b].pc = "probe" /\ build'[b].scan = Scanned /\ build'[b].deps = deps
          /\ build'[b].result = "none"
      BY <3>1, ScanTypes
    <3>3. UNCHANGED deps
      BY <3>1 DEF Scan, project
    <3>4. QED
      BY <2>1, <2>3, <3>2, <3>3
  <2>4. CASE c = b /\ ~(\E o \in Options : Scan(b, o)) /\ ~(BuildFails(b) \/ BuilderCrash(b))
    <3>1. \/ Probe(b) \/ Lake(b) \/ WriteCache(b) \/ Stamp(b) \/ Publish(b)
      BY <1>6, <2>4 DEF BuilderStep
    <3>2. settled[b]
      BY <1>6, <2>4, <3>1, LakeMakes
         DEF Probe, WriteCache, Stamp, Publish, Unsettle, history
    <3>3. build[b].pc # "idle" /\ build[b].result = "none" /\ Found(b)
      BY <1>1, <3>1, <3>2 DEF Probe, Lake, WriteCache, Stamp, Publish, ActorsType
    <3>4. /\ build'[b].scan = build[b].scan /\ build'[b].opt = build[b].opt
          /\ build'[b].pc # "idle" => build'[b].result = "none"
      BY <1>6, <3>1, Phases, StampTypes, BuilderLeaves
    <3>5. build[b].scan = Scanned /\ build'[b].scan = Scanned'
      BY <2>1, <3>3, <3>4
    <3>6. CASE Probe(b)
      <4>1. /\ build'[b].pc = IF Matches(b) THEN "stamp" ELSE "lake"
            /\ build[b].deps = deps /\ build'[b].deps = build[b].deps
            /\ UNCHANGED <<deps, dylib, cache>>
        BY <3>3, <3>6, Phases DEF Probe, project
      <4>2. CASE Matches(b)
        <5>1. /\ dylib # NoDylib
              /\ cache = CacheKey(build[b].opt, deps, build[b].scan)
          BY <4>1, <4>2 DEF Matches
        <5>2. cache' = CacheKey(build[b].opt, deps, build[b].scan)'
          BY <3>4, <4>1, <5>1 DEF CacheKey
        <5>3. QED
          BY <2>4, <3>4, <3>5, <4>1, <4>2, <5>1, <5>2
      <4>3. CASE ~Matches(b)
        BY <2>4, <3>4, <3>5, <4>1, <4>3
      <4>4. QED
        BY <4>2, <4>3
    <3>7. CASE Lake(b)
      <4>1. build'[b].pc = "cache"
        BY <3>7, Phases
      <4>2. QED
        BY <2>4, <3>4, <3>5, <4>1
    <3>8. CASE WriteCache(b)
      <4>1. /\ build'[b].pc = "stamp" /\ UNCHANGED <<deps, dylib>> /\ build[b].pc = "cache"
            /\ cache' = CacheKey(build[b].opt, deps, build[b].scan)
        BY <3>8, Phases DEF WriteCache, project
      <4>2. dylib # NoDylib
        BY <4>1 DEF LibraryInv
      <4>3. cache' = CacheKey(build[b].opt, deps, build[b].scan)'
        BY <3>4, <4>1 DEF CacheKey
      <4>4. QED
        BY <2>4, <3>4, <3>5, <4>1, <4>2, <4>3
    <3>9. CASE Stamp(b)
      <4>1. /\ build'[b].pc = "rename" /\ build'[b].draft = Draft(b)
            /\ UNCHANGED <<deps, dylib, cache>> /\ build[b].pc = "stamp"
        BY <3>9, StampTypes DEF Stamp, project
      <4>2. /\ Draft(b).mtime = clock + 1
            /\ deps = "shims" => "shims" \in Draft(b).libs
        BY DEF Draft, Libraries
      <4>3. dylib.mtime <= clock + 1
        BY DEF FilesType, DylibType
      <4>4. cache = CacheKey(build[b].opt, deps, build[b].scan) /\ dylib # NoDylib
        BY <3>3, <4>1
      <4>5. cache' = CacheKey(build[b].opt, deps, build[b].scan)'
        BY <3>4, <4>1, <4>4 DEF CacheKey
      <4>6. QED
        BY <2>4, <3>4, <3>5, <4>1, <4>2, <4>3, <4>4, <4>5
    <3>10. CASE Publish(b)
      <4>1. /\ build'[b].pc = "idle" /\ build[b].pc = "rename"
            /\ UNCHANGED <<deps, dylib, cache>>
        BY <3>10, Phases DEF Publish, project
      <4>2. cache = CacheKey(build[b].opt, deps, build[b].scan) /\ dylib # NoDylib
        BY <3>3, <4>1
      <4>3. cache' = CacheKey(build[b].opt, deps, build[b].scan)'
        BY <3>4, <4>1, <4>2 DEF CacheKey
      <4>4. QED
        BY <2>4, <3>5, <4>1, <4>2, <4>3
    <3>11. QED
      BY <3>1, <3>6, <3>7, <3>8, <3>9, <3>10
  <2>5. CASE c = b /\ (BuildFails(b) \/ BuilderCrash(b))
    <3>1. build'[b].pc = "idle" /\ build'[b].result \in {"failed", "crashed"}
      BY <2>5, Phases
    <3>2. QED
      BY <2>5, <3>1
  <2>6. QED
    BY <2>2, <2>3, <2>4, <2>5
<1>7. ASSUME NEW l \in Loaders, LoaderStep(l), NEW c \in Builders, settled'[c]
      PROVE  Found(c)'
  <2>1. UNCHANGED <<src, deps, dylib, cache, build, settled>>
    BY <1>7, LoaderLeaves
  <2>2. QED
    BY <1>4, <1>7, <2>1
<1>8. ASSUME PeopleStep, NEW c \in Builders PROVE ~settled'[c]
  BY <1>8, PeopleLeave
<1>9. QED
  BY <1>5, <1>6, <1>7, <1>8, WhoMoves

-----------------------------------------------------------------------------
(* Manifests and their readers.                                             *)

LEMMA ManifestStep ==
  ASSUME ArtifactsInv, [ArtifactsNext]_artifactVars
  PROVE  ManifestInv'
<1> /\ FilesType /\ ActorsType /\ LibraryInv /\ ManifestInv
    /\ sound \in [ExportSets -> BOOLEAN] /\ clock \in Nat
  BY DEF ArtifactsInv, HistoryType, FilesType
<1> DEFINE Kept(e)  == /\ Faithful(manifest[e])
                       /\ sound[e] => /\ manifest[e].whole
                                      /\ dylib.mtime <= manifest[e].mtime
                                      /\ Sound(manifest[e])
           Ready(b) == build[b].pc = "rename" => /\ build[b].draft.mtime <= clock
                                                 /\ build[b].draft.whole
                                                 /\ Faithful(build[b].draft)
<1>1. (\A e \in ExportSets : Kept(e)) /\ (\A b \in Builders : Ready(b))
  BY DEF ManifestInv
<1>2. SUFFICES (\A e \in ExportSets : Kept(e)') /\ (\A b \in Builders : Ready(b)')
  BY DEF ManifestInv
<1>3. ASSUME NEW e \in ExportSets, UNCHANGED <<dylib, manifest[e]>>,
             sound'[e] => sound[e] /\ UNCHANGED gone
      PROVE  Kept(e)'
  BY <1>1, <1>3 DEF Faithful, Sound, Missing
<1>4. ASSUME NEW b \in Builders, UNCHANGED <<dylib, build[b]>>,
             clock' \in {clock, clock + 1}
      PROVE  Ready(b)'
  <2>1. build[b].draft.mtime \in Nat
    BY DEF ActorsType, BuildType, ManifestType
  <2>2. build[b].draft.mtime <= clock => build[b].draft.mtime <= clock'
    BY <1>4, <2>1
  <2>3. QED
    BY <1>1, <1>4, <2>2 DEF Faithful
<1>5. CASE UNCHANGED artifactVars
  BY <1>3, <1>4, <1>5 DEF artifactVars, project, history
<1>6. ASSUME NEW b \in Builders, BuilderStep(b)
      PROVE  (\A e \in ExportSets : Kept(e)') /\ (\A c \in Builders : Ready(c)')
  <2>1. UNCHANGED gone /\ \A c \in Builders : c # b => build'[c] = build[c]
    BY <1>6, BuilderLeaves
  <2>2. CASE \/ \E o \in Options : Scan(b, o)
             \/ Probe(b) \/ WriteCache(b) \/ BuildFails(b) \/ BuilderCrash(b)
    <3>1. UNCHANGED <<dylib, manifest, sound, clock>>
      BY <2>2 DEF Scan, Probe, WriteCache, BuildFails, BuilderCrash, history
    <3>2. build'[b].pc # "rename"
      BY <2>2, Phases, ScanTypes
    <3>3. \A c \in Builders : Ready(c)'
      BY <1>4, <2>1, <3>1, <3>2
    <3>4. QED
      BY <1>3, <2>1, <3>1, <3>3
  <2>3. CASE Lake(b)
    <3>1. build'[b].pc = "cache" /\ UNCHANGED manifest
      BY <2>3, Phases, LakeMakes
    <3>2. CASE UNCHANGED <<clock, dylib, sound>>
      <4>1. \A c \in Builders : Ready(c)'
        BY <1>4, <2>1, <3>1, <3>2
      <4>2. QED
        BY <1>3, <2>1, <3>1, <3>2, <4>1
    <3>3. CASE dylib'.mtime = clock + 1 /\ clock' = clock + 1 /\ NothingSound
      <4>1. ASSUME NEW m, m.mtime \in Nat, m.mtime <= clock
            PROVE  m.mtime <= clock' /\ Faithful(m)'
        BY <3>3, <4>1 DEF Faithful
      <4>2. ASSUME NEW e \in ExportSets PROVE Kept(e)'
        <5>1. manifest[e].mtime \in Nat /\ manifest[e].mtime <= clock
          BY DEF FilesType, ManifestType
        <5>2. Faithful(manifest[e])' /\ ~sound'[e]
          BY <3>1, <3>3, <4>1, <5>1 DEF Faithful, NothingSound
        <5>3. QED
          BY <5>2
      <4>3. ASSUME NEW c \in Builders, c # b PROVE Ready(c)'
        <5>1. build[c].draft.mtime \in Nat
          BY DEF ActorsType, BuildType, ManifestType
        <5>2. build[c].pc = "rename" => build[c].draft.mtime <= clock
          BY <1>1
        <5>3. QED
          BY <1>1, <2>1, <3>3, <4>3, <5>1, <5>2 DEF Faithful
      <4>4. QED
        BY <3>1, <4>2, <4>3
    <3>4. QED
      BY <2>3, <3>2, <3>3, LakeMakes
  <2>4. CASE Stamp(b)
    <3>1. /\ build'[b].draft = Draft(b) /\ UNCHANGED <<dylib, manifest, sound>>
          /\ clock' = clock + 1
      BY <2>4, StampTypes DEF Stamp, history
    <3>2. Draft(b).mtime <= clock + 1 /\ Draft(b).whole /\ Faithful(Draft(b))
      <4>1. PICK t : t = Fingerprint(build[b].opt, build[b].tool)
        OBVIOUS
      <4>2. Draft(b) = [tool |-> t, libs |-> Libraries(build[b].opt), whole |-> TRUE,
                        mtime |-> clock + 1, exact |-> t = dylib.tool]
        BY <4>1 DEF Draft
      <4>3. Draft(b).mtime = clock + 1 /\ Draft(b).tool = t
        BY <4>2
      <4>4. Draft(b).whole
        BY <4>2
      <4>5. Faithful(Draft(b))
        <5>1. CASE t = dylib.tool
          BY <4>3, <5>1 DEF Faithful
        <5>2. CASE t # dylib.tool
          <6>1. (t = dylib.tool) = FALSE
            BY <5>2
          <6>2. Draft(b) = [tool |-> t, libs |-> Libraries(build[b].opt), whole |-> TRUE,
                            mtime |-> clock + 1, exact |-> FALSE]
            BY <4>2, <6>1, Zenon
          <6>3. Draft(b).exact = FALSE
            BY <6>2
          <6>4. QED
            BY <6>3 DEF Faithful
        <5>3. QED
          BY <5>1, <5>2
      <4>6. QED
        BY <4>3, <4>4, <4>5
    <3>3. Ready(b)'
      BY <3>1, <3>2 DEF Faithful
    <3>4. \A c \in Builders : Ready(c)'
      BY <1>4, <2>1, <3>1, <3>3
    <3>5. QED
      BY <1>3, <2>1, <3>1, <3>4
  <2>5. CASE Publish(b)
    <3>1. PICK e : e = build[b].opt.exports
      OBVIOUS
    <3>2. /\ e \in ExportSets /\ build[b].pc = "rename"
      BY <2>5, <3>1 DEF Publish, ActorsType, ExportSets
    <3>3. /\ manifest' = [manifest EXCEPT ![e] = build[b].draft]
          /\ sound' = [sound EXCEPT ![e] = settled[b] /\ gone = {} /\ ~unseen]
          /\ UNCHANGED <<clock, dylib>> /\ build'[b].pc = "idle"
      BY <2>5, <3>1, Phases DEF Publish
    <3>4. \A c \in Builders : Ready(c)'
      BY <1>4, <2>1, <3>3
    <3>5. manifest'[e] = build[b].draft
      BY <3>2, <3>3 DEF FilesType
    <3>6. build[b].draft.whole /\ Faithful(build[b].draft)
      BY <1>1, <3>2
    <3>7. ASSUME sound'[e] PROVE dylib.mtime <= build[b].draft.mtime /\ Sound(build[b].draft)
      <4>1. settled[b] /\ gone = {} /\ ~unseen
        BY <3>2, <3>3, <3>7
      <4>2. /\ dylib # NoDylib /\ dylib.mtime <= build[b].draft.mtime
            /\ deps = "shims" => "shims" \in build[b].draft.libs
        BY <3>2, <4>1 DEF ArtifactsInv, SettledInv
      <4>3. Below(dylib.deps, deps)
        BY <4>1 DEF ArtifactsInv, SeenInv, ForwardInv
      <4>4. dylib.deps = "shims" => deps = "shims"
        BY <4>3 DEF Below
      <4>5. QED
        BY <4>1, <4>2, <4>4 DEF Sound, Missing
    <3>8. Kept(e)'
      BY <2>1, <3>3, <3>5, <3>6, <3>7 DEF Faithful, Sound, Missing
    <3>9. ASSUME NEW d \in ExportSets, d # e PROVE Kept(d)'
      <4>1. manifest'[d] = manifest[d] /\ sound'[d] = sound[d]
        BY <3>3, <3>9 DEF FilesType
      <4>2. QED
        BY <1>3, <2>1, <3>3, <4>1
    <3>10. QED
      BY <3>4, <3>8, <3>9
  <2>6. QED
    BY <1>6, <2>2, <2>3, <2>4, <2>5 DEF BuilderStep
<1>7. ASSUME NEW l \in Loaders, LoaderStep(l)
      PROVE  (\A e \in ExportSets : Kept(e)') /\ (\A c \in Builders : Ready(c)')
  <2>1. UNCHANGED <<clock, gone, dylib, manifest, build, sound>>
    BY <1>7, LoaderLeaves
  <2>2. QED
    BY <1>3, <1>4, <2>1
<1>8. ASSUME PeopleStep
      PROVE  (\A e \in ExportSets : Kept(e)') /\ (\A c \in Builders : Ready(c)')
  <2>1. UNCHANGED <<dylib, manifest, build>> /\ clock' \in {clock, clock + 1}
    BY <1>8, PeopleLeave
  <2>2. NothingSound \/ UNCHANGED <<sound, gone>>
    BY <1>8 DEF PeopleStep, Edit, Move, UpdateDeps, SwitchTool, RemoveLibrary
  <2>3. \A e \in ExportSets : sound'[e] => sound[e] /\ UNCHANGED gone
    BY <2>2 DEF NothingSound
  <2>4. QED
    BY <1>3, <1>4, <2>1, <2>3
<1>9. QED
  BY <1>5, <1>6, <1>7, <1>8, WhoMoves

\* What a builder's step writes: nothing, the library, a draft, or the manifest.
LEMMA BuilderWrites ==
  ASSUME FilesType, ActorsType, LibraryInv, NEW b \in Builders, BuilderStep(b)
  PROVE  /\ clock' \in {clock, clock + 1}
         /\ UNCHANGED dylib \/ dylib'.mtime = clock + 1
         /\ UNCHANGED manifest \/ Publish(b)
         /\ build'[b].pc = "rename" =>
                UNCHANGED manifest /\ build'[b].draft.mtime = clock + 1
<1>1. CASE Lake(b)
  <2>1. build'[b].pc = "cache" /\ UNCHANGED manifest
    BY <1>1, LakeMakes, Phases
  <2>2. \/ UNCHANGED <<clock, dylib>>
        \/ clock' = clock + 1 /\ dylib'.mtime = clock + 1
    BY <1>1, LakeMakes
  <2>3. QED
    BY <2>1, <2>2
<1>2. CASE Stamp(b)
  <2>1. /\ build'[b].draft = Draft(b) /\ UNCHANGED <<dylib, manifest>>
        /\ clock' = clock + 1
    BY <1>2, StampTypes DEF Stamp
  <2>2. Draft(b).mtime = clock + 1
    BY DEF Draft
  <2>3. QED
    BY <2>1, <2>2
<1>3. CASE Publish(b)
  BY <1>3, Phases DEF Publish
<1>4. CASE \/ \E o \in Options : Scan(b, o)
           \/ Probe(b) \/ WriteCache(b) \/ BuildFails(b) \/ BuilderCrash(b)
  <2>1. UNCHANGED <<dylib, manifest, clock>>
    BY <1>4 DEF Scan, Probe, WriteCache, BuildFails, BuilderCrash
  <2>2. build'[b].pc # "rename"
    BY <1>4, Phases, ScanTypes
  <2>3. QED
    BY <2>1, <2>2
<1>5. QED
  BY <1>1, <1>2, <1>3, <1>4 DEF BuilderStep

\* What is published is the draft of the build.
LEMMA PublishesDraft ==
  ASSUME FilesType, ActorsType, NEW b \in Builders, Publish(b)
  PROVE  /\ build[b].pc = "rename" /\ build'[b].pc = "idle"
         /\ \A e \in ExportSets :
                manifest'[e] = manifest[e] \/ manifest'[e] = build[b].draft
         /\ manifest' \in [ExportSets -> ManifestType]
<1>1. build[b].pc = "rename" /\ build'[b].pc = "idle"
  BY Phases DEF Publish
<1>2. build[b].opt \in Options
  BY <1>1 DEF ActorsType
<1>3. PICK e : e = build[b].opt.exports
  OBVIOUS
<1>4. e \in ExportSets /\ manifest' = [manifest EXCEPT ![e] = build[b].draft]
  BY <1>2, <1>3 DEF Publish, ExportSets
<1>5. manifest \in [ExportSets -> ManifestType] /\ build[b].draft \in ManifestType
  BY DEF FilesType, ActorsType, BuildType
<1>6. QED
  BY <1>1, <1>4, <1>5

LEMMA StampsStep ==
  ASSUME ArtifactsInv, [ArtifactsNext]_artifactVars
  PROVE  StampsInv'
<1> FilesType /\ ActorsType /\ LibraryInv /\ ManifestInv /\ StampsInv /\ LoaderInv
  BY DEF ArtifactsInv
<1> DEFINE Apart(b) ==
        build[b].pc = "rename" =>
            /\ \A e \in ExportSets : manifest[e].mtime # build[b].draft.mtime
            /\ \A c \in Builders : c # b /\ build[c].pc = "rename"
                                   => build[c].draft.mtime # build[b].draft.mtime
            /\ \A l \in Loaders : load[l].checked.mtime # build[b].draft.mtime
<1>1. \A b \in Builders : Apart(b)
  BY DEF StampsInv
<1>2. SUFFICES \A b \in Builders : Apart(b)'
  BY DEF StampsInv
<1>3. /\ clock \in Nat
      /\ \A e \in ExportSets : manifest[e].mtime \in Nat /\ manifest[e].mtime <= clock
  BY DEF FilesType, ManifestType
<1>4. /\ \A l \in Loaders : load[l].checked.mtime \in Nat /\ load[l].checked.mtime <= clock
      /\ \A b \in Builders : /\ build[b].draft.mtime \in Nat
                             /\ build[b].pc = "rename" => build[b].draft.mtime <= clock
  BY DEF ActorsType, LoadType, BuildType, ManifestType, LoaderInv, ManifestInv
<1>5. ASSUME UNCHANGED <<manifest, build>>,
             \A l \in Loaders : \/ load'[l].checked = load[l].checked
                                \/ \E e \in ExportSets : load'[l].checked = manifest[e]
      PROVE  \A b \in Builders : Apart(b)'
  <2>1. SUFFICES ASSUME NEW b \in Builders, build[b].pc = "rename"
                 PROVE  \A l \in Loaders : load'[l].checked.mtime # build[b].draft.mtime
    BY <1>1, <1>5
  <2>2. /\ \A e \in ExportSets : manifest[e].mtime # build[b].draft.mtime
        /\ \A l \in Loaders : load[l].checked.mtime # build[b].draft.mtime
    BY <1>1, <2>1
  <2>3. QED
    BY <1>5, <2>2
<1>6. CASE UNCHANGED artifactVars
  BY <1>5, <1>6 DEF artifactVars
<1>7. ASSUME NEW b \in Builders, BuilderStep(b), NEW c \in Builders PROVE Apart(c)'
  <2>1. UNCHANGED load /\ \A d \in Builders : d # b => build'[d] = build[d]
    BY <1>7, BuilderLeaves
  <2>2. /\ UNCHANGED manifest \/ Publish(b)
        /\ build'[b].pc = "rename" =>
                UNCHANGED manifest /\ build'[b].draft.mtime = clock + 1
    BY <1>7, BuilderWrites
  <2>3. CASE Publish(b)
    <3>1. /\ build[b].pc = "rename" /\ build'[b].pc = "idle"
          /\ \A e \in ExportSets :
                manifest'[e] = manifest[e] \/ manifest'[e] = build[b].draft
      BY <2>3, PublishesDraft
    <3>2. CASE c = b
      BY <3>1, <3>2
    <3>3. CASE c # b /\ build[c].pc = "rename"
      <4>1. build[b].draft.mtime # build[c].draft.mtime
        BY <1>1, <3>1, <3>3
      <4>2. \A e \in ExportSets : manifest[e].mtime # build[c].draft.mtime
        BY <1>1, <3>3
      <4>3. \A e \in ExportSets : manifest'[e].mtime # build[c].draft.mtime
        BY <3>1, <4>1, <4>2
      <4>4. \A d \in Builders : d # c /\ build'[d].pc = "rename"
                                => build'[d].draft.mtime # build[c].draft.mtime
        BY <1>1, <2>1, <3>1, <3>3
      <4>5. \A l \in Loaders : load[l].checked.mtime # build[c].draft.mtime
        BY <1>1, <3>3
      <4>6. QED
        BY <2>1, <3>3, <4>3, <4>4, <4>5
    <3>4. QED
      BY <2>1, <3>2, <3>3
  <2>4. CASE UNCHANGED manifest /\ c = b
    <3>1. SUFFICES ASSUME build'[b].pc = "rename"
                   PROVE  Apart(b)'
      BY <2>4
    <3>2. build'[b].draft.mtime = clock + 1
      BY <2>2, <3>1
    <3>3. \A e \in ExportSets : manifest'[e].mtime # clock + 1
      BY <1>3, <2>4
    <3>4. \A d \in Builders : d # b /\ build'[d].pc = "rename"
                              => build'[d].draft.mtime # clock + 1
      BY <1>3, <1>4, <2>1
    <3>5. \A l \in Loaders : load'[l].checked.mtime # clock + 1
      BY <1>3, <1>4, <2>1
    <3>6. QED
      BY <3>2, <3>3, <3>4, <3>5
  <2>5. CASE UNCHANGED manifest /\ c # b
    <3>1. SUFFICES ASSUME build[c].pc = "rename"
                   PROVE  Apart(c)'
      BY <2>1, <2>5
    <3>2. /\ \A e \in ExportSets : manifest'[e].mtime # build[c].draft.mtime
          /\ \A l \in Loaders : load'[l].checked.mtime # build[c].draft.mtime
      BY <1>1, <2>1, <2>5, <3>1
    <3>3. ASSUME NEW d \in Builders, d # c, build'[d].pc = "rename"
          PROVE  build'[d].draft.mtime # build[c].draft.mtime
      <4>1. CASE d = b
        <5>1. build'[d].draft.mtime = clock + 1
          BY <2>2, <3>3, <4>1
        <5>2. build[c].draft.mtime <= clock /\ build[c].draft.mtime \in Nat
          BY <1>4, <3>1
        <5>3. QED
          BY <1>3, <5>1, <5>2
      <4>2. CASE d # b
        BY <1>1, <2>1, <3>1, <3>3, <4>2
      <4>3. QED
        BY <4>1, <4>2
    <3>4. build'[c] = build[c]
      BY <2>1, <2>5
    <3>5. QED
      BY <3>2, <3>3, <3>4
  <2>6. QED
    BY <2>2, <2>3, <2>4, <2>5
<1>8. ASSUME NEW k \in Loaders, LoaderStep(k) PROVE \A b \in Builders : Apart(b)'
  <2>1. UNCHANGED <<manifest, build>>
    BY <1>8, LoaderLeaves
  <2>2. CASE \E e \in ExportSets : Open(k, e)
    <3>1. PICK e \in ExportSets : Open(k, e)
      BY <2>2
    <3>2. /\ load'[k].checked = manifest[e]
          /\ \A l \in Loaders : l # k => load'[l] = load[l]
      BY <3>1, OpenTypes
    <3>3. QED
      BY <1>5, <2>1, <3>2
  <2>3. CASE Check(k) \/ Reread(k) \/ LoadBundle(k)
    <3>1. /\ load'[k].checked = load[k].checked
          /\ \A l \in Loaders : l # k => load'[l] = load[l]
      BY <2>3, LoadTypes
    <3>2. QED
      BY <1>5, <2>1, <3>1
  <2>4. QED
    BY <1>8, <2>2, <2>3 DEF LoaderStep
<1>9. CASE PeopleStep
  BY <1>5, <1>9, PeopleLeave
<1>10. QED
  BY <1>6, <1>7, <1>8, <1>9, WhoMoves

LEMMA LoaderStays ==
  ASSUME ArtifactsInv, [ArtifactsNext]_artifactVars
  PROVE  LoaderInv' /\ LoadedFits'
<1> /\ FilesType /\ ActorsType /\ LibraryInv /\ ManifestInv /\ StampsInv
    /\ LoaderInv /\ LoadedFits
  BY DEF ArtifactsInv
<1> DEFINE Knows(l) ==
        /\ load[l].checked.mtime <= clock /\ load[l].held.mtime <= clock
        /\ Faithful(load[l].held)
        /\ load[l].pc = "check" => load[l].held = load[l].checked
        /\ load[l].pc \in {"reread", "load"} =>
            /\ Fits(load[l].checked)
            /\ manifest[load[l].exports] = load[l].checked
               => load[l].seen.mtime <= load[l].checked.mtime
        /\ load[l].pc = "load" /\ load[l].held = load[l].checked
           => load[l].seen.mtime <= load[l].checked.mtime
           Got(l) ==
        /\ load[l].result = "loaded"
        /\ load[l].held = load[l].checked /\ load[l].got = load[l].seen
        => ~load[l].held.exact \/ load[l].got.tool = RuntimeTool
<1>1. \A l \in Loaders : Knows(l) /\ Got(l)
  BY DEF LoaderInv, LoadedFits
<1>2. SUFFICES \A l \in Loaders : Knows(l)' /\ Got(l)'
  BY DEF LoaderInv, LoadedFits
<1>3. /\ clock \in Nat /\ dylib.mtime \in Nat
      /\ \A e \in ExportSets : manifest[e].mtime \in Nat /\ manifest[e].mtime <= clock
  BY DEF FilesType, DylibType, ManifestType
<1>4. \A l \in Loaders : /\ load[l].checked.mtime \in Nat /\ load[l].held.mtime \in Nat
                         /\ load[l].seen.mtime \in Nat
                         /\ load[l].pc # "idle" => load[l].exports \in ExportSets
  BY DEF ActorsType, LoadType, ManifestType, DylibType
<1>5. ASSUME NEW l \in Loaders, load'[l] = load[l], clock' \in {clock, clock + 1},
             UNCHANGED dylib \/ dylib'.mtime = clock + 1,
             load[l].pc # "idle" =>
                \/ manifest'[load[l].exports] = manifest[load[l].exports]
                \/ manifest'[load[l].exports] # load[l].checked
      PROVE  Knows(l)' /\ Got(l)'
  <2>1. Knows(l) /\ Got(l)
    BY <1>1
  <2>2. load[l].checked.mtime <= clock' /\ load[l].held.mtime <= clock'
    BY <1>3, <1>4, <1>5, <2>1
  <2>3. Faithful(load[l].held)'
    <3>1. CASE UNCHANGED dylib
      BY <1>5, <2>1, <3>1 DEF Faithful
    <3>2. CASE dylib'.mtime = clock + 1
      <4>1. ~(dylib'.mtime <= load[l].held.mtime)
        BY <1>3, <1>4, <2>1, <3>2
      <4>2. QED
        BY <1>5, <4>1 DEF Faithful
    <3>3. QED
      BY <1>5, <3>1, <3>2
  <2>4. load[l].pc \in {"reread", "load"} =>
            /\ Fits(load[l].checked)
            /\ manifest'[load[l].exports] = load[l].checked
               => load[l].seen.mtime <= load[l].checked.mtime
    BY <1>5, <2>1
  <2>5. QED
    BY <1>5, <2>1, <2>2, <2>3, <2>4 DEF Fits
<1>6. CASE UNCHANGED artifactVars
  BY <1>5, <1>6 DEF artifactVars
<1>7. ASSUME NEW b \in Builders, BuilderStep(b), NEW l \in Loaders
      PROVE  Knows(l)' /\ Got(l)'
  <2>1. UNCHANGED load
    BY <1>7, BuilderLeaves
  <2>2. /\ clock' \in {clock, clock + 1}
        /\ UNCHANGED dylib \/ dylib'.mtime = clock + 1
        /\ UNCHANGED manifest \/ Publish(b)
    BY <1>7, BuilderWrites
  <2>3. ASSUME Publish(b), load[l].pc # "idle"
        PROVE  \/ manifest'[load[l].exports] = manifest[load[l].exports]
               \/ manifest'[load[l].exports] # load[l].checked
    <3>1. /\ build[b].pc = "rename" /\ load[l].exports \in ExportSets
          /\ \/ manifest'[load[l].exports] = manifest[load[l].exports]
             \/ manifest'[load[l].exports] = build[b].draft
      BY <1>4, <2>3, PublishesDraft
    <3>2. load[l].checked.mtime # build[b].draft.mtime
      BY <3>1 DEF StampsInv
    <3>3. QED
      BY <3>1, <3>2
  <2>4. QED
    BY <1>5, <2>1, <2>2, <2>3
<1>8. ASSUME NEW k \in Loaders, LoaderStep(k), NEW l \in Loaders
      PROVE  Knows(l)' /\ Got(l)'
  <2>1. UNCHANGED <<clock, dylib, manifest>>
    BY <1>8, LoaderLeaves
  <2>2. CASE l # k
    <3>1. load'[l] = load[l]
      BY <1>8, <2>2, OpenTypes, LoadTypes DEF LoaderStep
    <3>2. QED
      BY <1>5, <2>1, <3>1
  <2>3. CASE l = k /\ \E e \in ExportSets : Open(k, e)
    <3>1. PICK e \in ExportSets : Open(k, e)
      BY <2>3
    <3>2. /\ load'[l].held = manifest[e] /\ load'[l].checked = manifest[e]
          /\ load'[l].pc \in {"check", "idle"} /\ load'[l].result # "loaded"
      BY <2>3, <3>1, OpenTypes
    <3>3. Faithful(manifest[e])
      BY DEF ManifestInv
    <3>4. Faithful(load[l].held)'
      BY <2>1, <3>2, <3>3 DEF Faithful
    <3>5. QED
      BY <1>3, <2>1, <3>2, <3>4
  <2>4. CASE l = k /\ ~\E e \in ExportSets : Open(k, e)
    <3>1. Check(l) \/ Reread(l) \/ LoadBundle(l)
      BY <1>8, <2>4 DEF LoaderStep
    <3>2. /\ load[l].exports \in ExportSets /\ load'[l].exports = load[l].exports
          /\ load'[l].checked = load[l].checked
      BY <1>4, <3>1, LoadTypes DEF Check, Reread, LoadBundle
    <3>3. Knows(l)
      BY <1>1
    <3>4. PICK m : m = manifest[load[l].exports]
      OBVIOUS
    <3>5. /\ m.mtime \in Nat /\ m.mtime <= clock /\ Faithful(m)
          /\ manifest'[load'[l].exports] = m
      BY <1>3, <2>1, <3>2, <3>4 DEF ManifestInv
    <3>6. load'[l].held \in {load[l].held, m}
      BY <3>1, <3>4, LoadTypes DEF Passed, Refused, ReadAgain, Unreadable, Loaded
    <3>7. /\ load'[l].checked.mtime <= clock' /\ load'[l].held.mtime <= clock'
          /\ Faithful(load[l].held)'
      <4>1. load'[l].held.mtime <= clock /\ Faithful(load'[l].held)
        BY <3>3, <3>5, <3>6
      <4>2. QED
        BY <2>1, <3>2, <3>3, <4>1 DEF Faithful
    <3>8. CASE Passed(l, load'[l])
      <4>1. /\ load[l].pc = "check" /\ Fits(load[l].held) /\ ~Stale(load[l].exports)
            /\ load'[l].pc = "reread" /\ load'[l].result = "none" /\ load'[l].seen = dylib
        BY <3>8 DEF Passed, Check
      <4>2. Fits(load'[l].checked)
        BY <3>2, <3>3, <4>1 DEF Fits
      <4>3. ASSUME m = load[l].checked
            PROVE  dylib.mtime <= m.mtime
        <5>1. Written(m)
          <6>1. "none" \notin Tools /\ RuntimeTool \in Tools
            BY ArtifactsAssumption
          <6>2. NoManifest.tool = "none"
            BY DEF NoManifest
          <6>3. QED
            BY <3>3, <4>1, <4>3, <6>1, <6>2 DEF Fits, Written
        <5>2. ~(dylib.mtime > m.mtime)
          BY <3>4, <4>1, <5>1 DEF Stale
        <5>3. QED
          BY <1>3, <3>5, <5>2
      <4>4. QED
        BY <3>2, <3>5, <3>7, <4>1, <4>2, <4>3 DEF Fits
    <3>9. CASE Refused(l, load'[l]) \/ Unreadable(l, load'[l])
      <4>1. load'[l].pc = "idle" /\ load'[l].result \in {"refused", "malformed"}
        BY <3>9 DEF Refused, Unreadable
      <4>2. QED
        BY <3>7, <4>1
    <3>10. CASE ReadAgain(l, load'[l])
      <4>1. /\ load[l].pc = "reread" /\ load'[l].pc = "load" /\ load'[l].result = "none"
            /\ load'[l].held = m /\ load'[l].seen = load[l].seen
        BY <3>4, <3>10 DEF ReadAgain, Reread
      <4>2. /\ Fits(load[l].checked)
            /\ m = load[l].checked => load[l].seen.mtime <= load[l].checked.mtime
        BY <3>3, <3>4, <4>1
      <4>3. QED
        BY <3>2, <3>5, <3>7, <4>1, <4>2 DEF Fits
    <3>11. CASE Loaded(l, load'[l])
      <4>1. /\ load[l].pc = "load" /\ load'[l].pc = "idle" /\ load'[l].result = "loaded"
            /\ load'[l].held = load[l].held /\ load'[l].seen = load[l].seen
            /\ load'[l].got = dylib
        BY <3>11 DEF Loaded, LoadBundle
      <4>2. ASSUME load[l].held = load[l].checked, dylib = load[l].seen
            PROVE  ~load[l].held.exact \/ dylib.tool = RuntimeTool
        <5>1. dylib.mtime <= load[l].held.mtime /\ Fits(load[l].held)
          BY <3>3, <4>1, <4>2
        <5>2. QED
          BY <3>3, <5>1 DEF Faithful, Fits
      <4>3. Got(l)'
        BY <3>2, <4>1, <4>2
      <4>4. QED
        BY <3>7, <4>1, <4>3
    <3>12. QED
      BY <3>1, <3>8, <3>9, <3>10, <3>11, LoadTypes
  <2>5. QED
    BY <2>2, <2>3, <2>4
<1>9. ASSUME PeopleStep, NEW l \in Loaders
      PROVE  Knows(l)' /\ Got(l)'
  BY <1>5, <1>9, PeopleLeave
<1>10. QED
  BY <1>6, <1>7, <1>8, <1>9, WhoMoves

-----------------------------------------------------------------------------
(* The theorems.                                                            *)

LEMMA ArtifactsStart ==
  ASSUME ArtifactsInit
  PROVE  ArtifactsInv
<1> USE DEF ArtifactsInit
<1>1. /\ Idle \in BuildType /\ Idle.pc = "idle" /\ Idle.result = "none"
      /\ Free \in LoadType /\ Free.pc = "idle" /\ Free.result = "none"
      /\ NoManifest \in ManifestType
  BY IdleTypes, ManifestTypes
<1>2. NoManifest.mtime = 0 /\ NoManifest.exact = FALSE
  BY DEF NoManifest
<1>3. /\ NoDylib \in DylibType /\ NoDylib.mtime = 0 /\ NoDylib.deps = "missing"
  BY DEF NoDylib, DylibType, Dependencies
<1>4. /\ clock = 1 /\ src \in [Files -> 0 .. 1] /\ cache = <<"none">> /\ dylib = NoDylib
  OBVIOUS
<1>5. FilesType
  <2>1. cache \in CacheType
    BY <1>4 DEF CacheType, NoKey
  <2>2. ambient \in Tools
    BY ArtifactsAssumption
  <2>3. \A e \in ExportSets : manifest[e] = NoManifest
    OBVIOUS
  <2>4. manifest \in [ExportSets -> ManifestType]
    BY <1>1
  <2>5. QED
    BY <1>2, <1>3, <1>4, <2>1, <2>2, <2>3, <2>4 DEF FilesType, Dependencies
<1>6. ActorsType
  BY <1>1 DEF ActorsType
<1>7. HistoryType
  BY DEF HistoryType
<1>8. \A b \in Builders : build[b].pc = "idle" /\ build[b].result = "none"
  BY <1>1
<1>9. cache \in NoKey
  BY <1>4 DEF NoKey
<1>10. LibraryInv
  BY <1>4, <1>8, <1>9 DEF LibraryInv
<1>11. SeenInv
  BY <1>3, <1>4, <1>8, <1>9 DEF SeenInv, ForwardInv, BuildersForward, Below
<1>12. SettledInv
  BY <1>8 DEF SettledInv
<1>13. ManifestInv
  BY <1>2, <1>8 DEF ManifestInv, Faithful
<1>14. StampsInv
  BY <1>8 DEF StampsInv
<1>15. Free.checked = NoManifest /\ Free.held = NoManifest
  BY DEF Free
<1>16. LoaderInv /\ LoadedFits
  BY <1>1, <1>2, <1>15 DEF LoaderInv, LoadedFits, Faithful
<1>17. QED
  BY <1>5, <1>6, <1>7, <1>10, <1>11, <1>12, <1>13, <1>14, <1>16 DEF ArtifactsInv

LEMMA ArtifactsStep ==
  ArtifactsInv /\ [ArtifactsNext]_artifactVars => ArtifactsInv'
<1> SUFFICES ASSUME ArtifactsInv, [ArtifactsNext]_artifactVars
             PROVE  ArtifactsInv'
  OBVIOUS
<1>1. FilesType' /\ ActorsType' /\ HistoryType'
  BY FilesTypeStep, ActorsTypeStep, HistoryTypeStep
<1>2. LibraryInv' /\ SettledInv'
  BY LibraryStep, SettledStep
<1>3. SeenInv'
  BY ForwardStep, BuildersForwardStep DEF SeenInv
<1>4. ManifestInv' /\ StampsInv' /\ LoaderInv' /\ LoadedFits'
  BY ManifestStep, StampsStep, LoaderStays
<1>5. QED
  BY <1>1, <1>2, <1>3, <1>4 DEF ArtifactsInv

\* Inductive: unless something happened that a cache key cannot see, sources and
\* dependencies only go forward from what the library was compiled from, and the
\* key in the cache was found before the library was made; what a settled build
\* found is still there; a manifest younger than the library names its toolchain,
\* and what a loader has checked is not published again once it was replaced.
THEOREM ArtifactsSafe == ArtifactsSpec => []ArtifactsInv
<1>1. ArtifactsInit => ArtifactsInv
  BY ArtifactsStart
<1>2. ArtifactsInv /\ [ArtifactsNext]_artifactVars => ArtifactsInv'
  BY ArtifactsStep
<1>3. QED
  BY <1>1, <1>2, PTL DEF ArtifactsSpec

LEMMA HitsAreCurrent ==
  ASSUME ArtifactsInv
  PROVE  HitIsCurrent
<1> /\ FilesType /\ ActorsType /\ LibraryInv
  BY DEF ArtifactsInv
<1> SUFFICES ASSUME NEW b \in Builders, build[b].pc = "probe", settled[b], Matches(b),
                    ~unseen
             PROVE  dylib.from = src /\ dylib.deps = deps /\ dylib.tool = build[b].tool
  BY DEF HitIsCurrent
<1>1. build[b].scan = Scanned /\ build[b].deps = deps
  BY DEF ArtifactsInv, SettledInv
<1>2. dylib # NoDylib /\ cache = <<deps, Scanned, build[b].opt.sysroot>>
  BY <1>1 DEF Matches, CacheKey
<1>3. cache \notin NoKey
  BY <1>2 DEF NoKey
<1>4. ForwardInv /\ BuildersForward
  BY DEF ArtifactsInv, SeenInv
<1>5. /\ Scanned[2] < dylib.mtime /\ Below(deps, dylib.deps)
      /\ dylib.tool = SelectedBy(build[b].opt.sysroot)
  BY <1>2, <1>3, <1>4 DEF ForwardInv
<1>6. /\ clock \in Nat /\ src \in [Files -> 0 .. clock] /\ dylib \in DylibType
      /\ deps \in Dependencies
  BY DEF FilesType
<1>7. \A f \in Files : src[f] <= Scanned[2] /\ src[f] \in Nat
  BY <1>6, ScannedIs
<1>8. Scanned[2] \in Nat /\ dylib.mtime \in Nat
  BY <1>6, ScannedIs DEF ScanType, DylibType
<1>9. ASSUME NEW f \in Files PROVE src[f] = dylib.from[f]
  <2>1. src[f] = dylib.from[f] \/ dylib.mtime < src[f]
    BY <1>2, <1>4 DEF ForwardInv
  <2>2. ~(dylib.mtime < src[f])
    BY <1>5, <1>7, <1>8
  <2>3. QED
    BY <2>1, <2>2
<1>10. dylib.from \in [Files -> Nat]
  BY <1>6 DEF DylibType
<1>11. dylib.from = src
  BY <1>6, <1>9, <1>10
<1>12. dylib.deps = deps
  <2>1. Below(dylib.deps, deps) /\ dylib.deps \in Dependencies
    BY <1>4, <1>6 DEF ForwardInv, DylibType
  <2>2. QED
    BY <1>5, <1>6, <2>1, BelowOrders
<1>13. dylib.tool = build[b].tool
  BY <1>4, <1>5 DEF BuildersForward, Selected, SelectedBy
<1>14. QED
  BY <1>11, <1>12, <1>13

LEMMA ArtifactsTyped ==
  ASSUME ArtifactsInv
  PROVE  ArtifactsTypeOK
<1>1. FilesType /\ ActorsType
  BY DEF ArtifactsInv
<1>2. /\ src \in [Files -> 0 .. clock] /\ dylib.mtime \in 0 .. clock
      /\ deps \in {"missing", "bare", "shims"} /\ ambient \in Tools
      /\ dylib.tool \in Tools \cup {"none"}
  BY <1>1 DEF FilesType, DylibType, Dependencies
<1>3. \A b \in Builders :
        /\ build[b].pc \in {"idle", "probe", "lake", "cache", "stamp", "rename"}
        /\ build[b].result \in {"none", "built", "failed", "crashed"}
        /\ build[b].pc # "idle" => build[b].tool \in Tools
  BY <1>1 DEF ActorsType, BuildType
<1>4. \A l \in Loaders :
        /\ load[l].pc \in {"idle", "check", "reread", "load"}
        /\ load[l].result \in {"none", "missing", "malformed", "refused", "loaded"}
  BY <1>1 DEF ActorsType, LoadType
<1>5. \A e \in ExportSets : manifest[e].mtime \in 0 .. clock
  BY <1>1 DEF FilesType, ManifestType
<1>6. QED
  BY <1>2, <1>3, <1>4, <1>5 DEF ArtifactsTypeOK

LEMMA OnlyChangesRebuild ==
  ASSUME ArtifactsInv
  PROVE  RebuildsOnChange
BY DEF ArtifactsInv, SettledInv, RebuildsOnChange

\* The build cache saves the builds it can and no other: a hit returns a library
\* compiled from the sources, dependencies and toolchain the call looked at, and
\* a build that was not disturbed is hit by the next one, for any builders,
\* files, options and toolchains and however many edits, failures and crashes.
THEOREM CacheStaysHonest == ArtifactsSpec => []CacheIsHonest
<1>1. ArtifactsInv => CacheIsHonest
  BY HitsAreCurrent, ArtifactsTyped, OnlyChangesRebuild DEF CacheIsHonest
<1>2. QED
  BY <1>1, ArtifactsSafe, PTL

\* Only what is replaced, changed or not for this runtime is refused.
LEMMA OpensPublished ==
  ASSUME ArtifactsInv, [ArtifactsNext]_artifactVars, NEW l \in Loaders,
         NEW e, e = load'[l].exports, load'[l] # load[l],
         load'[l].result \in {"missing", "malformed", "refused"},
         sound[e], load'[l].held = manifest[e], "plain" \notin manifest[e].libs
  PROVE  manifest[e].tool # RuntimeTool
<1> /\ FilesType /\ ActorsType /\ ManifestInv
  BY DEF ArtifactsInv
<1>1. LoaderStep(l)
  <2>1. ASSUME NEW k \in Loaders, LoaderStep(k) PROVE k = l
    BY <2>1, OpenTypes, LoadTypes DEF LoaderStep
  <2>2. ~UNCHANGED artifactVars
    BY DEF artifactVars
  <2>3. \A b \in Builders : ~BuilderStep(b)
    BY BuilderLeaves
  <2>4. ~PeopleStep
    BY PeopleLeave
  <2>5. QED
    BY <2>1, <2>2, <2>3, <2>4, WhoMoves
<1>2. ASSUME e \in ExportSets
      PROVE  /\ manifest[e].whole /\ dylib.mtime <= manifest[e].mtime /\ Sound(manifest[e])
             /\ Written(manifest[e]) /\ Readable(manifest[e]) /\ ~Stale(e)
  <2>1. manifest[e].whole /\ dylib.mtime <= manifest[e].mtime /\ Sound(manifest[e])
    BY <1>2 DEF ManifestInv
  <2>2. NoManifest.whole = FALSE
    BY DEF NoManifest
  <2>3. Written(manifest[e])
    BY <2>1, <2>2 DEF Written
  <2>4. dylib.mtime \in Nat /\ manifest[e].mtime \in Nat
    BY <1>2 DEF FilesType, DylibType, ManifestType
  <2>5. ~Stale(e)
    BY <2>1, <2>4 DEF Stale
  <2>6. Readable(manifest[e])
    BY <2>1 DEF Readable
  <2>7. QED
    BY <2>1, <2>3, <2>5, <2>6
<1>3. CASE \E d \in ExportSets : Open(l, d)
  <2>1. PICK d \in ExportSets : Open(l, d)
    BY <1>3
  <2>2. d = e /\ ~(Written(manifest[e]) /\ Readable(manifest[e]))
    BY <2>1, OpenTypes
  <2>3. QED
    BY <1>2, <2>1, <2>2
<1>4. CASE ~\E d \in ExportSets : Open(l, d)
  <2>1. Check(l) \/ Reread(l) \/ LoadBundle(l)
    BY <1>1, <1>4 DEF LoaderStep
  <2>2. /\ e = load[l].exports /\ e \in ExportSets /\ load[l].pc # "idle"
    BY <2>1, LoadTypes DEF ActorsType, Check, Reread, LoadBundle
  <2>3. \/ Refused(l, load'[l]) \/ Unreadable(l, load'[l])
    BY <2>1, LoadTypes DEF Passed, ReadAgain, Loaded
  <2>4. Refused(l, load'[l]) => load[l].held = manifest[e]
    BY DEF Refused
  <2>5. Sound(manifest[e]) /\ Readable(manifest[e]) /\ ~Stale(e)
    BY <1>2, <2>2
  <2>6. ~Unreadable(l, load'[l])
    BY <2>2, <2>5 DEF Unreadable
  <2>7. QED
    BY <2>2, <2>3, <2>4, <2>5, <2>6 DEF Refused, Fits
<1>5. QED
  BY <1>3, <1>4

\* A loader that opens the manifest and the library it has checked opens one of
\* its runtime's toolchain, if that manifest named the library's; and it is not
\* refused for a published manifest that still describes the project, but for
\* another toolchain or a dependency without initializer.  What is published or
\* rebuilt between the check and the opening is the exception, for any builders,
\* loaders, options and toolchains.
THEOREM ManifestsAreServed == ArtifactsSpec => ManifestsServe
<1> DEFINE Opens ==
      \A l \in Loaders :
        LET e == load'[l].exports
        IN  /\ load'[l] # load[l]
            /\ load'[l].result \in {"missing", "malformed", "refused"}
            => \/ ~sound[e] \/ load'[l].held # manifest[e]
               \/ manifest[e].tool # RuntimeTool
               \/ "plain" \in manifest[e].libs
<1>1. ArtifactsInv => LoadedFits
  BY DEF ArtifactsInv
<1>2. ArtifactsInv /\ [ArtifactsNext]_artifactVars => [Opens]_artifactVars
  <2>1. ASSUME ArtifactsInv, [ArtifactsNext]_artifactVars PROVE Opens
    BY <2>1, OpensPublished
  <2>2. QED
    BY <2>1
<1>3. []ArtifactsInv /\ [][ArtifactsNext]_artifactVars => [][Opens]_artifactVars
  BY <1>2, PTL
<1>4. ArtifactsSpec => [][ArtifactsNext]_artifactVars
  BY DEF ArtifactsSpec
<1>5. ArtifactsSpec => [][Opens]_artifactVars
  BY <1>3, <1>4, ArtifactsSafe
<1>6. ArtifactsSpec => PublishedOpens
  BY <1>5 DEF PublishedOpens
<1>7. ArtifactsSpec => []LoadedFits
  BY <1>1, ArtifactsSafe, PTL
<1>8. QED
  BY <1>6, <1>7 DEF ManifestsServe
=============================================================================
