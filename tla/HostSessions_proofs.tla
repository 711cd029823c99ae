------------------------ MODULE HostSessions_proofs ------------------------
(***************************************************************************)
(* Proofs about calls (HostCalls) and sessions (HostSessions), for any     *)
(* threads, keys, names, methods and limits.  A program is well formed: it *)
(* enters Lean under a bridge at most once, reports on this side only      *)
(* outside of it, and looks at its token between two entries.  From that   *)
(* follows what becomes of bridges, sinks and cancelled calls; from what a *)
(* bulk method's program has left, that its answers are a fold; and with   *)
(* the import lock what becomes of stamps, the flag and the pools.         *)
(***************************************************************************)
EXTENDS HostSessions, FiniteSetTheorems, SequenceTheorems, TLAPS

-----------------------------------------------------------------------------
(* Numbers                                                                 *)

\* The least number of a set.
LEMMA LeastNatural ==
  ASSUME NEW S \in SUBSET Nat, S # {}
  PROVE  \E m \in S : \A k \in S : m <= k
<1> DEFINE T == {1..n : n \in S}
           R == StrictSubsetOrdering(Nat)
<1>1. T \subseteq FiniteSubsetsOf(Nat) /\ T # {}
  <2>1. \A n \in S : 1..n \in FiniteSubsetsOf(Nat)
    BY FS_Interval DEF FiniteSubsetsOf
  <2>2. QED
    BY <2>1
<1>2. PICK x \in T : \A y \in T : ~(<<y, x>> \in R)
  <2>1. IsWellFoundedOn(R, FiniteSubsetsOf(Nat))
    BY FS_StrictSubsetOrderingWellFounded
  <2> HIDE DEF T, R
  <2>2. QED
    BY <1>1, <2>1, WFMin
<1>3. PICK m \in S : x = 1..m
  BY <1>2
<1>4. ASSUME NEW k \in S, k < m PROVE FALSE
  <2>1. 1..k \in T /\ x = 1..m
    BY <1>3
  <2>2. 1..k \in SUBSET Nat /\ 1..m \in SUBSET Nat
    OBVIOUS
  <2>3. 1..k \subseteq 1..m /\ 1..k # 1..m
    <3>1. k \in Nat /\ m \in Nat
      OBVIOUS
    <3>2. m \in 1..m /\ m \notin 1..k
      BY <1>4, <3>1
    <3>3. QED
      BY <1>4, <3>1, <3>2
  <2>4. <<1..k, 1..m>> \in R
    BY <2>2, <2>3 DEF StrictSubsetOrdering
  <2> HIDE DEF T, R
  <2>5. QED
    BY <1>2, <2>1, <2>4
<1>5. \A k \in S : ~(k < m)
  BY <1>4
<1>6. QED
  BY <1>3, <1>5

\* The greatest number of a bounded set.
LEMMA GreatestNatural ==
  ASSUME NEW n \in Nat, NEW S \in SUBSET (1..n), S # {}
  PROVE  \E m \in S : \A k \in S : k <= m
<1> DEFINE T == {n - i : i \in S}
<1>1. T \in SUBSET Nat /\ T # {}
  <2>1. \A i \in S : i \in 1..n /\ n - i \in Nat
    OBVIOUS
  <2>2. QED
    BY <2>1
<1>2. PICK m \in T : \A k \in T : m <= k
  BY <1>1, LeastNatural
<1>3. PICK i \in S : m = n - i
  BY <1>2
<1>4. \A k \in S : n - i <= n - k
  BY <1>2, <1>3
<1>5. QED
  BY <1>4

UpTo(S, i) == {j \in S : j <= i}

LEMMA UpToIsPart ==
  ASSUME NEW len \in Nat, NEW S \in SUBSET (1..len)
  PROVE  /\ IsFiniteSet(S) /\ Cardinality(S) \in Nat /\ Cardinality(S) <= len
         /\ \A i \in Nat : IsFiniteSet(UpTo(S, i)) /\ Cardinality(UpTo(S, i)) \in Nat
<1>1. IsFiniteSet(1..len) /\ Cardinality(1..len) = len
  BY FS_Interval
<1>2. IsFiniteSet(S) /\ Cardinality(S) <= len
  BY <1>1, FS_Subset
<1>3. Cardinality(S) \in Nat
  BY <1>2, FS_CardinalityType
<1>4. ASSUME NEW i \in Nat PROVE IsFiniteSet(UpTo(S, i)) /\ Cardinality(UpTo(S, i)) \in Nat
  <2>1. UpTo(S, i) \in SUBSET S
    BY DEF UpTo
  <2>2. IsFiniteSet(UpTo(S, i))
    BY <1>2, <2>1, FS_Subset
  <2>3. QED
    BY <2>2, FS_CardinalityType
<1>5. QED
  BY <1>2, <1>3, <1>4

\* The n-th number of a set.
LEMMA NthNumber ==
  ASSUME NEW len \in Nat, NEW S \in SUBSET (1..len), NEW n \in 1..Cardinality(S)
  PROVE  \E i \in S : Cardinality(UpTo(S, i)) = n
<1> DEFINE T == {i \in 1..len : Cardinality(UpTo(S, i)) >= n}
<1>1. /\ IsFiniteSet(S) /\ Cardinality(S) \in Nat /\ Cardinality(S) <= len
      /\ \A i \in Nat : IsFiniteSet(UpTo(S, i)) /\ Cardinality(UpTo(S, i)) \in Nat
  BY UpToIsPart
<1>2. len \in T
  <2>1. \A j \in S : j <= len
    <3>1. \A j \in S : j \in 1..len
      OBVIOUS
    <3>2. QED
      BY <3>1
  <2>2. UpTo(S, len) = S
    BY <2>1, Zenon DEF UpTo
  <2>3. len \in 1..len
    BY <1>1
  <2>4. QED
    BY <1>1, <2>2, <2>3
<1>3. PICK i \in T : \A k \in T : i <= k
  <2>1. T \in SUBSET Nat /\ T # {}
    BY <1>2
  <2> HIDE DEF T
  <2>2. QED
    BY <2>1, LeastNatural
<1>4. i \in 1..len /\ i - 1 \in Nat /\ Cardinality(UpTo(S, i)) >= n /\ n \in Nat
  BY <1>1
<1>5. Cardinality(UpTo(S, i - 1)) < n
  <2>1. CASE i = 1
    <3>0. i - 1 = 0
      BY <2>1
    <3>1. \A j \in S : ~(j <= 0)
      <4>1. \A j \in S : j \in 1..len
        OBVIOUS
      <4>2. QED
        BY <4>1
    <3>2. UpTo(S, i - 1) = {}
      BY <3>1, <3>0, Zenon DEF UpTo
    <3>3. QED
      BY <1>1, <3>2, FS_EmptySet
  <2>2. CASE i # 1
    <3>1. i - 1 \in 1..len /\ i - 1 \notin T
      BY <1>3, <1>4, <2>2
    <3>2. QED
      BY <1>1, <1>4, <3>1
  <2>3. QED
    BY <2>1, <2>2
<1> HIDE DEF T
<1>6. \A j \in S : j <= i <=> j <= i - 1 \/ j = i
  <2>1. \A j \in S : j \in 1..len
    OBVIOUS
  <2>2. QED
    BY <1>4, <2>1
<1>7. i \in S
  <2>1. i \notin S => UpTo(S, i) = UpTo(S, i - 1)
    BY <1>6, Zenon DEF UpTo
  <2>2. QED
    BY <1>1, <1>4, <1>5, <2>1
<1>8. Cardinality(UpTo(S, i)) = Cardinality(UpTo(S, i - 1)) + 1
  <2>1. UpTo(S, i) = UpTo(S, i - 1) \cup {i}
    <3>1. i <= i
      BY <1>4
    <3>2. QED
      BY <1>6, <1>7, <3>1, Zenon DEF UpTo
  <2>2. i \notin UpTo(S, i - 1)
    BY <1>4 DEF UpTo
  <2>3. QED
    BY <1>1, <1>4, <2>1, <2>2, FS_AddElement
<1>9. Cardinality(UpTo(S, i)) = n
  BY <1>1, <1>4, <1>5, <1>8
<1>10. QED
  BY <1>7, <1>9

\* What a sweep keeps is part of what was there.
LEMMA FreshIsPart ==
  ASSUME NEW S, NEW t \in Threads, pool[t] \in Seq(S), NEW stamp
  PROVE  /\ Fresh(t, stamp) \in Seq(S) /\ Len(Fresh(t, stamp)) <= Len(pool[t])
         /\ \A n \in 1..Len(Fresh(t, stamp)) : \E i \in 1..Len(pool[t]) :
              Fresh(t, stamp)[n] = pool[t][i]
<1> DEFINE p == pool[t]
           kept == {i \in DOMAIN p : p[i].stamp = stamp}
           nth(n) == CHOOSE i \in kept : Cardinality({j \in kept : j <= i}) = n
           f == Fresh(t, stamp)
<1>1. Len(p) \in Nat /\ DOMAIN p = 1..Len(p)
  OBVIOUS
<1>2. kept \in SUBSET (1..Len(p))
  BY <1>1
<1>3. Cardinality(kept) \in Nat /\ Cardinality(kept) <= Len(p)
  <2> HIDE DEF kept
  <2>1. QED
    BY <1>1, <1>2, UpToIsPart
<1>4. f = [n \in 1..Cardinality(kept) |-> p[nth(n)]]
  BY DEF Fresh
<1> HIDE DEF kept, f
<1>5. \A n \in 1..Cardinality(kept) : nth(n) \in kept
  <2> TAKE n \in 1..Cardinality(kept)
  <2>1. \E i \in kept : Cardinality({j \in kept : j <= i}) = n
    BY <1>1, <1>2, NthNumber DEF UpTo
  <2>2. QED
    BY <2>1
<1> HIDE DEF nth
<1>6. \A n \in 1..Cardinality(kept) : f[n] = p[nth(n)] /\ nth(n) \in 1..Len(p)
  BY <1>2, <1>4, <1>5
<1>7. f \in Seq(S) /\ Len(f) = Cardinality(kept)
  BY <1>1, <1>3, <1>4, <1>6
<1>8. QED
  BY <1>3, <1>6, <1>7 DEF f

-----------------------------------------------------------------------------
(* The registry                                                            *)

LEMMA AllocatedIsFree ==
  ASSUME RegistryTypeOK, CanRegister
  PROVE  Allocated \in Free
<1> DEFINE D == {Distance(id) : id \in Free}
<1>1. \A id \in Free : Distance(id) \in Nat
  BY RegistryAssumption DEF Distance, Free, Ids, RegistryTypeOK
<1>2. D \in SUBSET Nat /\ D # {}
  BY <1>1 DEF CanRegister
<1>3. PICK d \in D : \A e \in D : d <= e
  <2> HIDE DEF D
  <2>1. QED
    BY <1>2, LeastNatural
<1>4. \E id \in Free : \A other \in Free : Distance(id) <= Distance(other)
  BY <1>3
<1>5. QED
  BY <1>4 DEF Allocated

LEMMA RegisterAdds ==
  ASSUME RegistryTypeOK, CanRegister, NEW t \in Owners, Register(t)
  PROVE  /\ RegistryTypeOK' /\ Allocated \in Ids /\ Allocated \notin DOMAIN registry
         /\ DOMAIN registry' = DOMAIN registry \cup {Allocated} /\ registry'[Allocated] = t
         /\ \A id \in DOMAIN registry : registry'[id] = registry[id]
<1>1. Allocated \in Free
  BY AllocatedIsFree
<1>2. PICK a : a = Allocated
  OBVIOUS
<1>3. a \in Ids /\ a \notin DOMAIN registry
  BY <1>1, <1>2 DEF Free
<1>4. registry' = [id \in DOMAIN registry \cup {a} |-> IF id = a THEN t ELSE registry[id]]
  BY <1>2 DEF Register
<1>5. nextId' = (a + 1) % IdSpace
  BY <1>2 DEF Register
<1>6. nextId' \in 0..(IdSpace - 1)
  BY <1>3, <1>5, RegistryAssumption DEF Ids
<1>7. registry' \in [DOMAIN registry' -> Owners] /\ DOMAIN registry' \subseteq Ids
  BY <1>3, <1>4 DEF RegistryTypeOK
<1>8. RegistryTypeOK'
  BY <1>6, <1>7 DEF RegistryTypeOK, Ids
<1>9. QED
  BY <1>2, <1>3, <1>4, <1>8

LEMMA UnregisterRemoves ==
  ASSUME RegistryTypeOK, NEW b, Unregister(b)
  PROVE  /\ RegistryTypeOK' /\ DOMAIN registry' = DOMAIN registry \ {b}
         /\ \A id \in DOMAIN registry \ {b} : registry'[id] = registry[id]
BY DEF RegistryTypeOK, Unregister, Ids

-----------------------------------------------------------------------------
(* Programs                                                                *)

Does == {"check", "name", "list", "call", "all", "one", "enter", "leave", "tick", "work",
         "report", "roots", "shim", "zip"}
Instr == [does : Does, at : Nat]
Entries == {"name", "list", "call", "all", "one", "enter"}
BridgeSteps == {"enter", "leave", "tick"}

\* Every entry of the program has a look at the token right before it.
Tight(p) == \A i \in 1..Len(p) : p[i].does \in Entries => i > 1 /\ p[i - 1].does = "check"
\* Every entry but the first does.
Spaced(p) ==
  \A i \in 1..Len(p) : p[i].does \in Entries =>
    \/ i > 1 /\ p[i - 1].does = "check"
    \/ \A j \in 1..(i - 1) : p[j].does \notin Entries

\* The program uses a bridge it has, or will have, and reports only without one.
Formed(p, inside) ==
  /\ inside => \A i \in 1..Len(p) : p[i].does \notin {"enter", "report"}
  /\ \A i \in 1..Len(p) : p[i].does = "enter" =>
       \A j \in (i + 1)..Len(p) : p[j].does \notin {"enter", "report"}
  /\ \A i \in 1..Len(p) : p[i].does \in {"tick", "leave"} =>
       inside \/ \E j \in 1..(i - 1) : p[j].does = "enter"
  /\ \A i \in 1..Len(p) : p[i].does = "leave" =>
       \A j \in (i + 1)..Len(p) : p[j].does \notin BridgeSteps

\* A part of a program that has nothing to do with a bridge.
Ordinary(p) ==
  /\ p \in Seq(Instr) /\ Tight(p) /\ \A i \in 1..Len(p) : p[i].does \notin BridgeSteps
EndsInCheck(p) == Len(p) > 0 /\ p[Len(p)].does = "check"
\* What Lean does under a bridge.
Within(p) ==
  /\ p \in Seq(Instr)
  /\ \A i \in 1..Len(p) : p[i].does \notin Entries \cup {"leave", "report"}

Good(p) == p \in Seq(Instr) /\ Formed(p, FALSE) /\ Spaced(p)

LEMMA StepIs ==
  ASSUME NEW does \in Does, NEW at \in Nat
  PROVE  /\ Step(does, at) \in Seq(Instr) /\ Len(Step(does, at)) = 1
         /\ Step(does, at)[1].does = does
BY DEF Step, Instr

LEMMA CheckIs == Ordinary(Check) /\ EndsInCheck(Check)
<1>1. Check \in Seq(Instr) /\ Len(Check) = 1 /\ Check[1].does = "check"
  BY StepIs DEF Check, Does
<1>2. QED
  BY <1>1 DEF Ordinary, EndsInCheck, Tight, Entries, BridgeSteps

LEMMA StepOrdinary ==
  ASSUME NEW does \in Does \ (Entries \cup BridgeSteps), NEW at \in Nat
  PROVE  Ordinary(Step(does, at))
<1>1. /\ Step(does, at) \in Seq(Instr) /\ Len(Step(does, at)) = 1
      /\ Step(does, at)[1].does = does
  BY StepIs
<1>2. QED
  BY <1>1 DEF Ordinary, Tight

LEMMA ThenOrdinary ==
  ASSUME NEW p, NEW q, Ordinary(p), Ordinary(q)
  PROVE  Ordinary(p \o q) /\ Len(p \o q) = Len(p) + Len(q)
         /\ (EndsInCheck(q) => EndsInCheck(p \o q))
<1>1. /\ p \o q \in Seq(Instr) /\ Len(p \o q) = Len(p) + Len(q)
      /\ Len(p) \in Nat /\ Len(q) \in Nat
      /\ \A i \in 1 .. Len(p) + Len(q) : (p \o q)[i] = IF i <= Len(p) THEN p[i] ELSE q[i - Len(p)]
  BY ConcatProperties DEF Ordinary
<1> DEFINE c == p \o q
<1> HIDE DEF c
<1>2. \A i \in 1..Len(c) : c[i].does \notin BridgeSteps
  BY <1>1 DEF Ordinary, c
<1>3. ASSUME NEW i \in 1..Len(c), c[i].does \in Entries
      PROVE  i > 1 /\ c[i - 1].does = "check"
  <2>1. CASE i <= Len(p)
    BY <1>1, <1>3, <2>1 DEF Ordinary, Tight, c
  <2>2. CASE i > Len(p)
    <3>1. i - Len(p) \in 1..Len(q) /\ q[i - Len(p)].does \in Entries
      BY <1>1, <1>3, <2>2 DEF c
    <3>2. i - Len(p) > 1 /\ q[(i - Len(p)) - 1].does = "check"
      BY <3>1 DEF Ordinary, Tight
    <3>3. c[i - 1] = q[(i - Len(p)) - 1]
      BY <1>1, <3>1, <3>2 DEF c
    <3>4. QED
      BY <1>1, <3>1, <3>2, <3>3
  <2>3. QED
    BY <1>1, <2>1, <2>2 DEF c
<1>4. Tight(c)
  BY <1>3 DEF Tight
<1>5. EndsInCheck(q) => EndsInCheck(c)
  BY <1>1 DEF EndsInCheck, c
<1>6. QED
  BY <1>1, <1>2, <1>4, <1>5 DEF Ordinary, c

\* An entry right after a look at the token.
LEMMA ThenEntry ==
  ASSUME NEW p, Ordinary(p), EndsInCheck(p), NEW does \in Entries \ {"enter"}, NEW at \in Nat
  PROVE  Ordinary(p \o Step(does, at)) /\ Len(p \o Step(does, at)) = Len(p) + 1
<1> DEFINE q == Step(does, at)
           c == p \o q
<1>1. q \in Seq(Instr) /\ Len(q) = 1 /\ q[1].does = does
  BY StepIs DEF Entries, Does
<1> HIDE DEF q
<1>2. /\ c \in Seq(Instr) /\ Len(c) = Len(p) + 1 /\ Len(p) \in Nat
      /\ \A i \in 1 .. Len(p) + 1 : c[i] = IF i <= Len(p) THEN p[i] ELSE q[i - Len(p)]
  BY <1>1, ConcatProperties DEF Ordinary
<1> HIDE DEF c
<1>3. \A i \in 1..Len(p) : c[i] = p[i]
  BY <1>2
<1>4. c[Len(p) + 1].does = does
  BY <1>1, <1>2
<1>5. ASSUME NEW i \in 1..Len(c), c[i].does \in Entries
      PROVE  i > 1 /\ c[i - 1].does = "check"
  <2>1. CASE i <= Len(p)
    <3>1. p[i].does \in Entries
      BY <1>2, <1>3, <1>5, <2>1
    <3>2. i > 1 /\ p[i - 1].does = "check"
      BY <1>2, <2>1, <3>1 DEF Ordinary, Tight
    <3>3. QED
      BY <1>2, <1>3, <2>1, <3>2
  <2>2. CASE i = Len(p) + 1
    BY <1>2, <1>3, <2>2 DEF EndsInCheck
  <2>3. QED
    BY <1>2, <2>1, <2>2
<1>6. Tight(c)
  BY <1>5 DEF Tight
<1>7. \A i \in 1..Len(c) : c[i].does \notin BridgeSteps
  <2>1. \A i \in 1..Len(p) : c[i].does \notin BridgeSteps
    BY <1>3 DEF Ordinary
  <2>2. c[Len(p) + 1].does \notin BridgeSteps
    BY <1>4 DEF Entries, BridgeSteps
  <2>3. QED
    BY <1>2, <2>1, <2>2
<1>8. QED
  BY <1>2, <1>6, <1>7 DEF Ordinary, c, q

LEMMA OrdinaryIsGood ==
  ASSUME NEW p, Ordinary(p)
  PROVE  Good(p)
<1>1. Spaced(p)
  BY DEF Ordinary, Tight, Spaced
<1>2. Formed(p, FALSE)
  BY DEF Ordinary, Formed, BridgeSteps
<1>3. QED
  BY <1>1, <1>2 DEF Good, Ordinary

\* Where the k-th step of parts of the same width is.
LEMMA PartOf ==
  ASSUME NEW w \in {2, 3, 4, 6}, NEW n \in Nat, NEW k \in 1..(w * n)
  PROVE  /\ (k - 1) \div w \in 0..(n - 1) /\ (k - 1) % w \in 0..(w - 1)
         /\ (k - 1) % w > 0 =>
              /\ k > 1 /\ (k - 2) \div w = (k - 1) \div w
              /\ (k - 2) % w = ((k - 1) % w) - 1
<1>1. k \in Int /\ 1 <= k /\ k <= w * n
  OBVIOUS
<1>2. CASE w = 2
  BY <1>1, <1>2
<1>3. CASE w = 3
  BY <1>1, <1>3
<1>4. CASE w = 4
  BY <1>1, <1>4
<1>5. CASE w = 6
  BY <1>1, <1>5
<1>6. QED
  BY <1>2, <1>3, <1>4, <1>5

\* Parts of the same width, one after the other.
LEMMA EachIs ==
  ASSUME NEW n \in Nat, NEW w \in {2, 3, 4, 6}, NEW parts \in [1..n -> Seq(Instr)],
         \A i \in 1..n : Len(parts[i]) = w
  PROVE  /\ Each(parts) \in Seq(Instr) /\ Len(Each(parts)) = w * n
         /\ \A k \in 1..(w * n) : /\ ((k - 1) \div w) + 1 \in 1..n
                                  /\ ((k - 1) % w) + 1 \in 1..w
                                  /\ Each(parts)[k] = parts[((k - 1) \div w) + 1][((k - 1) % w) + 1]
<1>1. \A k \in 1..(w * n) : ((k - 1) \div w) + 1 \in 1..n /\ ((k - 1) % w) + 1 \in 1..w
  <2> TAKE k \in 1..(w * n)
  <2>1. (k - 1) \div w \in 0..(n - 1) /\ (k - 1) % w \in 0..(w - 1)
    BY PartOf
  <2>2. QED
    BY <2>1
<1>2. CASE n = 0
  <2>1. parts = <<>>
    BY <1>2
  <2>2. Each(parts) = <<>>
    BY <2>1 DEF Each
  <2>3. 1..(w * n) = {} /\ w * n = 0
    BY <1>2
  <2>4. QED
    BY <2>2, <2>3
<1>3. CASE n # 0
  <2>1. parts # <<>> /\ Len(parts) = n /\ Len(parts[1]) = w
    <3>1. 1 \in 1..n /\ DOMAIN parts = 1..n
      BY <1>3
    <3>2. QED
      BY <3>1
  <2>2. w * n \in Nat
    OBVIOUS
  <2>3. Each(parts) =
          [k \in 1..(w * n) |-> parts[((k - 1) \div w) + 1][((k - 1) % w) + 1]]
    BY <2>1 DEF Each
  <2> DEFINE e == Each(parts)
  <2> HIDE DEF e
  <2>4. \A k \in 1..(w * n) : e[k] = parts[((k - 1) \div w) + 1][((k - 1) % w) + 1]
    BY <2>3 DEF e
  <2>5. \A k \in 1..(w * n) : e[k] \in Instr
    <3> TAKE k \in 1..(w * n)
    <3>1. PICK i \in 1..n : i = ((k - 1) \div w) + 1
      BY <1>1
    <3>2. PICK j \in 1..w : j = ((k - 1) % w) + 1
      BY <1>1
    <3>3. e[k] = parts[i][j] /\ parts[i] \in Seq(Instr) /\ Len(parts[i]) = w
      BY <2>4, <3>1, <3>2
    <3>4. QED
      BY <3>3
  <2>6. e \in Seq(Instr) /\ Len(e) = w * n
    BY <2>2, <2>3, <2>5 DEF e
  <2>7. QED
    BY <1>1, <2>4, <2>6 DEF e
<1>4. QED
  BY <1>2, <1>3

LEMMA EachOrdinary ==
  ASSUME NEW n \in Nat, NEW w \in {2, 3, 4, 6}, NEW parts \in [1..n -> Seq(Instr)],
         \A i \in 1..n : Ordinary(parts[i]) /\ Len(parts[i]) = w
  PROVE  Ordinary(Each(parts))
<1> DEFINE e == Each(parts)
<1>1. /\ e \in Seq(Instr) /\ Len(e) = w * n
      /\ \A k \in 1..(w * n) : /\ ((k - 1) \div w) + 1 \in 1..n
                               /\ ((k - 1) % w) + 1 \in 1..w
                               /\ e[k] = parts[((k - 1) \div w) + 1][((k - 1) % w) + 1]
  BY EachIs
<1> HIDE DEF e
<1>2. ASSUME NEW k \in 1..Len(e) PROVE e[k].does \notin BridgeSteps
  <2>1. PICK i \in 1..n : i = ((k - 1) \div w) + 1
    BY <1>1
  <2>2. PICK j \in 1..w : j = ((k - 1) % w) + 1
    BY <1>1
  <2>3. e[k] = parts[i][j] /\ Ordinary(parts[i]) /\ Len(parts[i]) = w
    BY <1>1, <2>1, <2>2
  <2>4. QED
    BY <2>3 DEF Ordinary
<1>3. ASSUME NEW k \in 1..Len(e), e[k].does \in Entries
      PROVE  k > 1 /\ e[k - 1].does = "check"
  <2>1. PICK i \in 1..n : i = ((k - 1) \div w) + 1
    BY <1>1
  <2>2. PICK j \in 1..w : j = ((k - 1) % w) + 1
    BY <1>1
  <2>3. e[k] = parts[i][j] /\ Ordinary(parts[i]) /\ Len(parts[i]) = w
    BY <1>1, <2>1, <2>2
  <2>4. j > 1 /\ parts[i][j - 1].does = "check"
    BY <1>3, <2>3 DEF Ordinary, Tight
  <2>5. /\ k > 1 /\ (k - 2) \div w = (k - 1) \div w /\ (k - 2) % w = ((k - 1) % w) - 1
    <3>1. (k - 1) % w > 0
      <4>1. (k - 1) % w \in Int
        OBVIOUS
      <4>2. QED
        BY <2>2, <2>4, <4>1
    <3>2. k \in 1..(w * n)
      BY <1>1
    <3>3. QED
      BY <3>1, <3>2, PartOf
  <2>6. PICK m : m = k - 1
    OBVIOUS
  <2>7. m \in 1..(w * n) /\ m - 1 = k - 2
    BY <1>1, <2>5, <2>6
  <2>8. e[m] = parts[((m - 1) \div w) + 1][((m - 1) % w) + 1]
    BY <1>1, <2>7
  <2>9. ((m - 1) \div w) + 1 = i
    BY <2>1, <2>5, <2>7
  <2>10. ((m - 1) % w) + 1 = j - 1
    <3>1. (k - 1) % w \in Int
      OBVIOUS
    <3>2. QED
      BY <2>2, <2>5, <2>7, <3>1
  <2>11. QED
    BY <2>4, <2>5, <2>6, <2>8, <2>9, <2>10
<1>4. Tight(e)
  BY <1>3 DEF Tight
<1>5. QED
  BY <1>1, <1>2, <1>4 DEF Ordinary, e

LEMMA EachWithin ==
  ASSUME NEW n \in Nat, NEW parts \in [1..n -> Seq(Instr)],
         \A i \in 1..n : Within(parts[i]) /\ Len(parts[i]) = 2
  PROVE  Within(Each(parts))
<1> DEFINE e == Each(parts)
<1>1. /\ e \in Seq(Instr) /\ Len(e) = 2 * n
      /\ \A k \in 1..(2 * n) : /\ ((k - 1) \div 2) + 1 \in 1..n
                               /\ ((k - 1) % 2) + 1 \in 1..2
                               /\ e[k] = parts[((k - 1) \div 2) + 1][((k - 1) % 2) + 1]
  BY EachIs
<1> HIDE DEF e
<1>2. ASSUME NEW k \in 1..Len(e) PROVE e[k].does \notin Entries \cup {"leave", "report"}
  <2>1. PICK i \in 1..n : i = ((k - 1) \div 2) + 1
    BY <1>1
  <2>2. PICK j \in 1..2 : j = ((k - 1) % 2) + 1
    BY <1>1
  <2>3. e[k] = parts[i][j] /\ Within(parts[i]) /\ Len(parts[i]) = 2
    BY <1>1, <2>1, <2>2
  <2>4. QED
    BY <2>3 DEF Within
<1>3. QED
  BY <1>1, <1>2 DEF Within, e

\* An ordinary part, n steps of work under a bridge, and what follows it.
BridgedAfter(c, p, n) ==
  /\ c \in Seq(Instr) /\ Ordinary(p) /\ EndsInCheck(p) /\ n \in Nat
  /\ Len(c) >= Len(p) + n + 2 /\ \A i \in 1..Len(p) : c[i] = p[i]
  /\ c[Len(p) + 1].does = "enter" /\ c[Len(p) + n + 2].does = "leave"
  /\ \A i \in (Len(p) + 2)..(Len(p) + n + 1) : c[i].does \notin Entries \cup {"leave", "report"}
  /\ \A i \in (Len(p) + n + 3)..Len(c) : c[i].does = "zip"

LEMMA BridgedShape ==
  ASSUME NEW c, NEW p, NEW n, BridgedAfter(c, p, n)
  PROVE  Good(c)
<1>0. PICK l : l = Len(p)
  OBVIOUS
<1>1. /\ c \in Seq(Instr) /\ Ordinary(p) /\ EndsInCheck(p) /\ n \in Nat
      /\ Len(c) >= l + n + 2 /\ \A i \in 1..l : c[i] = p[i]
      /\ c[l + 1].does = "enter" /\ c[l + n + 2].does = "leave"
      /\ \A i \in (l + 2)..(l + n + 1) : c[i].does \notin Entries \cup {"leave", "report"}
      /\ \A i \in (l + n + 3)..Len(c) : c[i].does = "zip"
  BY <1>0 DEF BridgedAfter
<1>2. l \in Nat /\ l > 0 /\ Len(c) \in Nat
  BY <1>0, <1>1 DEF Ordinary, EndsInCheck
<1>3. \A i \in 1..l : c[i].does \notin BridgeSteps
  BY <1>0, <1>1, <1>2 DEF Ordinary
<1>4. ASSUME NEW i \in 1..Len(c), c[i].does \in Entries PROVE i > 1 /\ c[i - 1].does = "check"
  <2>1. CASE i <= l
    <3>1. p[i].does \in Entries /\ i \in 1..Len(p)
      BY <1>0, <1>1, <1>2, <1>4, <2>1
    <3>2. i > 1 /\ p[i - 1].does = "check"
      BY <1>0, <1>1, <3>1 DEF Ordinary, Tight
    <3>3. QED
      BY <1>0, <1>1, <1>2, <2>1, <3>2
  <2>2. CASE i = l + 1
    BY <1>0, <1>1, <1>2, <2>2 DEF EndsInCheck
  <2>3. CASE i \in (l + 2)..(l + n + 1)
    BY <1>0, <1>1, <1>4, <2>3
  <2>4. CASE i = l + n + 2
    BY <1>0, <1>1, <1>4, <2>4 DEF Entries
  <2>5. CASE i > l + n + 2
    BY <1>0, <1>1, <1>2, <1>4, <2>5 DEF Entries
  <2>6. QED
    BY <1>0, <1>1, <1>2, <2>1, <2>2, <2>3, <2>4, <2>5
<1>5. Spaced(c)
  BY <1>0, <1>1, <1>4 DEF Spaced
<1>6. ASSUME NEW i \in 1..Len(c), c[i].does = "enter" PROVE i = l + 1
  <2>1. ~(i <= l)
    BY <1>0, <1>1, <1>2, <1>3, <1>6 DEF BridgeSteps
  <2>2. i \notin (l + 2)..(l + n + 1)
    BY <1>0, <1>1, <1>6 DEF Entries
  <2>3. i # l + n + 2
    BY <1>0, <1>1, <1>6
  <2>4. ~(i > l + n + 2)
    BY <1>0, <1>1, <1>2, <1>6
  <2>5. QED
    BY <1>0, <1>1, <1>2, <2>1, <2>2, <2>3, <2>4
<1>7. ASSUME NEW i \in 1..Len(c), c[i].does = "leave" PROVE i = l + n + 2
  <2>1. ~(i <= l)
    BY <1>0, <1>1, <1>2, <1>3, <1>7 DEF BridgeSteps
  <2>2. i \notin (l + 2)..(l + n + 1)
    BY <1>0, <1>1, <1>7
  <2>3. i # l + 1
    BY <1>0, <1>1, <1>7
  <2>4. ~(i > l + n + 2)
    BY <1>0, <1>1, <1>2, <1>7
  <2>5. QED
    BY <1>0, <1>1, <1>2, <2>1, <2>2, <2>3, <2>4
<1>8. \A j \in (l + 2)..Len(c) : c[j].does \notin {"enter", "report"}
  <2> TAKE j \in (l + 2)..Len(c)
  <2>1. CASE j \in (l + 2)..(l + n + 1)
    BY <1>0, <1>1, <2>1 DEF Entries
  <2>2. CASE j = l + n + 2
    BY <1>0, <1>1, <2>2
  <2>3. CASE j > l + n + 2
    BY <1>0, <1>1, <1>2, <2>3
  <2>4. QED
    BY <1>0, <1>1, <1>2, <2>1, <2>2, <2>3
<1>9. \A i \in 1..Len(c) : c[i].does = "enter" =>
        \A j \in (i + 1)..Len(c) : c[j].does \notin {"enter", "report"}
  BY <1>0, <1>1, <1>2, <1>6, <1>8
<1>10. \A i \in 1..Len(c) : c[i].does \in {"tick", "leave"} =>
        \E j \in 1..(i - 1) : c[j].does = "enter"
  <2> SUFFICES ASSUME NEW i \in 1..Len(c), c[i].does \in {"tick", "leave"}
               PROVE  l + 1 \in 1..(i - 1)
    BY <1>0, <1>1
  <2>1. ~(i <= l)
    BY <1>0, <1>1, <1>2, <1>3 DEF BridgeSteps
  <2>2. i # l + 1
    BY <1>0, <1>1
  <2>3. QED
    BY <1>0, <1>1, <1>2, <2>1, <2>2
<1>11. \A i \in 1..Len(c) : c[i].does = "leave" =>
         \A j \in (i + 1)..Len(c) : c[j].does \notin BridgeSteps
  <2>1. \A j \in (l + n + 3)..Len(c) : c[j].does \notin BridgeSteps
    BY <1>0, <1>1 DEF BridgeSteps
  <2>2. QED
    BY <1>0, <1>1, <1>2, <1>7, <2>1
<1>12. Formed(c, FALSE)
  BY <1>0, <1>1, <1>9, <1>10, <1>11 DEF Formed
<1>13. QED
  BY <1>0, <1>1, <1>5, <1>12 DEF Good

LEMMA Concat ==
  ASSUME NEW p \in Seq(Instr), NEW q \in Seq(Instr)
  PROVE  /\ p \o q \in Seq(Instr) /\ Len(p \o q) = Len(p) + Len(q)
         /\ \A i \in 1..Len(p) : (p \o q)[i] = p[i]
         /\ \A i \in 1..Len(q) : (p \o q)[Len(p) + i] = q[i]
<1>1. /\ p \o q \in Seq(Instr) /\ Len(p \o q) = Len(p) + Len(q)
      /\ Len(p) \in Nat /\ Len(q) \in Nat
      /\ \A i \in 1 .. Len(p) + Len(q) : (p \o q)[i] = IF i <= Len(p) THEN p[i] ELSE q[i - Len(p)]
  BY ConcatProperties
<1> DEFINE c == p \o q
<1> HIDE DEF c
<1>2. \A i \in 1..Len(p) : c[i] = p[i]
  BY <1>1 DEF c
<1>3. ASSUME NEW i \in 1..Len(q) PROVE c[Len(p) + i] = q[i]
  <2>1. Len(p) + i \in 1..(Len(p) + Len(q)) /\ ~(Len(p) + i <= Len(p)) /\ (Len(p) + i) - Len(p) = i
    BY <1>1
  <2>2. QED
    BY <1>1, <2>1 DEF c
<1>4. QED
  BY <1>1, <1>2, <1>3 DEF c

LEMMA BridgedIsGood ==
  ASSUME NEW p, Ordinary(p), EndsInCheck(p), NEW w, Within(w)
  PROVE  Good(p \o Bridged(w)) /\ Good((p \o Bridged(w)) \o Step("zip", 0))
<1> DEFINE e == Step("enter", 0)
           l == Step("leave", 0)
           z == Step("zip", 0)
           ew == e \o w
           b == ew \o l
           c == p \o b
           d == c \o z
<1>0. PICK k, n : k = Len(p) /\ n = Len(w)
  OBVIOUS
<1>1. /\ e \in Seq(Instr) /\ Len(e) = 1 /\ e[1].does = "enter"
      /\ l \in Seq(Instr) /\ Len(l) = 1 /\ l[1].does = "leave"
      /\ z \in Seq(Instr) /\ Len(z) = 1 /\ z[1].does = "zip"
  BY StepIs DEF Does
<1>2. w \in Seq(Instr) /\ n \in Nat /\ p \in Seq(Instr) /\ k \in Nat /\ k > 0
  BY <1>0 DEF Within, Ordinary, EndsInCheck
<1> HIDE DEF e, l, z
<1>3. /\ ew \in Seq(Instr) /\ Len(ew) = 1 + n
      /\ \A i \in 1..1 : ew[i] = e[i]
      /\ \A i \in 1..n : ew[1 + i] = w[i]
  <2>1. /\ ew \in Seq(Instr) /\ Len(ew) = Len(e) + Len(w)
        /\ \A i \in 1..Len(e) : ew[i] = e[i]
        /\ \A i \in 1..Len(w) : ew[Len(e) + i] = w[i]
    BY <1>1, <1>2, Concat
  <2> HIDE DEF ew
  <2>2. QED
    BY <1>0, <1>1, <2>1
<1> HIDE DEF ew
<1>4. /\ b \in Seq(Instr) /\ Len(b) = (1 + n) + 1
      /\ \A i \in 1..(1 + n) : b[i] = ew[i]
      /\ \A i \in 1..1 : b[(1 + n) + i] = l[i]
  <2>1. /\ b \in Seq(Instr) /\ Len(b) = Len(ew) + Len(l)
        /\ \A i \in 1..Len(ew) : b[i] = ew[i]
        /\ \A i \in 1..Len(l) : b[Len(ew) + i] = l[i]
    BY <1>1, <1>3, Concat
  <2> HIDE DEF b
  <2>2. QED
    BY <1>1, <1>3, <2>1
<1> HIDE DEF b
<1>5. /\ b[1].does = "enter" /\ b[n + 2].does = "leave" /\ Len(b) = n + 2
      /\ \A i \in 1..n : b[1 + i] = w[i]
  <2>1. 1 \in 1..1 /\ 1 \in 1..(1 + n) /\ n + 2 = (1 + n) + 1
    BY <1>2
  <2>2. b[1] = e[1] /\ b[n + 2] = l[1]
    BY <1>3, <1>4, <2>1
  <2>3. \A i \in 1..n : b[1 + i] = w[i]
    <3> TAKE i \in 1..n
    <3>1. 1 + i \in 1..(1 + n)
      BY <1>2
    <3>2. QED
      BY <1>3, <1>4, <3>1
  <2>4. QED
    BY <1>1, <1>4, <2>1, <2>2, <2>3
<1>6. /\ c \in Seq(Instr) /\ Len(c) = k + (n + 2)
      /\ \A i \in 1..k : c[i] = p[i]
      /\ \A i \in 1..(n + 2) : c[k + i] = b[i]
  <2>1. /\ c \in Seq(Instr) /\ Len(c) = Len(p) + Len(b)
        /\ \A i \in 1..Len(p) : c[i] = p[i]
        /\ \A i \in 1..Len(b) : c[Len(p) + i] = b[i]
    BY <1>2, <1>4, Concat
  <2> HIDE DEF c
  <2>2. QED
    BY <1>0, <1>5, <2>1
<1> HIDE DEF c
<1>7. /\ d \in Seq(Instr) /\ Len(d) = (k + (n + 2)) + 1
      /\ \A i \in 1..(k + (n + 2)) : d[i] = c[i]
      /\ \A i \in 1..1 : d[(k + (n + 2)) + i] = z[i]
  <2>1. /\ d \in Seq(Instr) /\ Len(d) = Len(c) + Len(z)
        /\ \A i \in 1..Len(c) : d[i] = c[i]
        /\ \A i \in 1..Len(z) : d[Len(c) + i] = z[i]
    BY <1>1, <1>6, Concat
  <2> HIDE DEF d
  <2>2. QED
    BY <1>1, <1>6, <2>1
<1> HIDE DEF d
<1>8. c[k + 1].does = "enter" /\ c[k + n + 2].does = "leave"
  <2>1. 1 \in 1..(n + 2) /\ n + 2 \in 1..(n + 2) /\ k + n + 2 = k + (n + 2)
    BY <1>2
  <2>2. QED
    BY <1>5, <1>6, <2>1
<1>9. \A i \in (k + 2)..(k + n + 1) : c[i].does \notin Entries \cup {"leave", "report"}
  <2> TAKE i \in (k + 2)..(k + n + 1)
  <2>1. PICK j : j = i - (k + 1)
    OBVIOUS
  <2>2. j \in 1..n /\ 1 + j \in 1..(n + 2) /\ k + (1 + j) = i
    BY <1>2, <2>1
  <2>3. c[i] = w[j]
    BY <1>5, <1>6, <2>2
  <2>4. QED
    BY <1>0, <2>2, <2>3 DEF Within
<1>10. Good(c)
  <2>1. Len(c) >= k + n + 2 /\ (k + n + 3)..Len(c) = {}
    BY <1>2, <1>6
  <2>2. BridgedAfter(c, p, n)
    BY <1>0, <1>2, <1>6, <1>8, <1>9, <2>1 DEF BridgedAfter
  <2>3. QED
    BY <2>2, BridgedShape
<1>11. Good(d)
  <2>1. \A i \in 1..k : d[i] = p[i]
    <3> TAKE i \in 1..k
    <3>1. i \in 1..(k + (n + 2))
      BY <1>2
    <3>2. QED
      BY <1>6, <1>7, <3>1
  <2>2. d[k + 1].does = "enter" /\ d[k + n + 2].does = "leave"
    <3>1. k + 1 \in 1..(k + (n + 2)) /\ k + n + 2 \in 1..(k + (n + 2))
      BY <1>2
    <3>2. QED
      BY <1>7, <1>8, <3>1
  <2>3. \A i \in (k + 2)..(k + n + 1) : d[i].does \notin Entries \cup {"leave", "report"}
    <3> TAKE i \in (k + 2)..(k + n + 1)
    <3>1. i \in 1..(k + (n + 2))
      BY <1>2
    <3>2. QED
      BY <1>7, <1>9, <3>1
  <2>4. \A i \in (k + n + 3)..Len(d) : d[i].does = "zip"
    <3> TAKE i \in (k + n + 3)..Len(d)
    <3>1. i = (k + (n + 2)) + 1 /\ 1 \in 1..1
      BY <1>2, <1>7
    <3>2. QED
      BY <1>1, <1>7, <3>1
  <2>5. Len(d) >= k + n + 2
    BY <1>2, <1>7
  <2>6. BridgedAfter(d, p, n)
    BY <1>0, <1>2, <1>7, <2>1, <2>2, <2>3, <2>4, <2>5 DEF BridgedAfter
  <2>7. QED
    BY <2>6, BridgedShape
<1>12. QED
  BY <1>10, <1>11 DEF c, d, b, ew, e, l, z, Bridged

\* Programs with one entry at their end.
LEMMA LoneCall ==
  ASSUME NEW p \in Seq(Instr), \A i \in 1..Len(p) : p[i].does \notin Entries \cup BridgeSteps,
         NEW at \in Nat
  PROVE  Good(p \o Step("call", at))
<1> DEFINE q == Step("call", at)
           c == p \o q
<1>1. q \in Seq(Instr) /\ Len(q) = 1 /\ q[1].does = "call"
  BY StepIs DEF Does
<1> HIDE DEF q
<1>2. /\ c \in Seq(Instr) /\ Len(c) = Len(p) + 1 /\ Len(p) \in Nat
      /\ \A i \in 1..Len(p) : c[i] = p[i]
      /\ c[Len(p) + 1].does = "call"
  <2>1. /\ c \in Seq(Instr) /\ Len(c) = Len(p) + Len(q)
        /\ \A i \in 1..Len(p) : c[i] = p[i]
        /\ \A i \in 1..Len(q) : c[Len(p) + i] = q[i]
    BY <1>1, Concat
  <2> HIDE DEF c
  <2>2. QED
    BY <1>1, <2>1
<1> HIDE DEF c
<1>3. \A i \in 1..Len(c) : c[i].does \notin BridgeSteps /\ (c[i].does \in Entries => i = Len(p) + 1)
  BY <1>2 DEF BridgeSteps
<1>4. Spaced(c)
  BY <1>2, <1>3 DEF Spaced
<1>5. Formed(c, FALSE)
  BY <1>3 DEF Formed, BridgeSteps
<1>6. QED
  BY <1>2, <1>4, <1>5 DEF Good, c, q

LEMMA EmptyIsOrdinary == Ordinary(<<>>)
BY DEF Ordinary, Tight

LEMMA CheckedEntry ==
  ASSUME NEW does \in Entries \ {"enter"}, NEW at \in Nat
  PROVE  Ordinary(Check \o Step(does, at)) /\ Len(Check \o Step(does, at)) = 2
<1>1. Len(Check) = 1
  BY StepIs DEF Check, Does
<1>2. Ordinary(Check \o Step(does, at)) /\ Len(Check \o Step(does, at)) = Len(Check) + 1
  BY CheckIs, ThenEntry
<1>3. QED
  BY <1>1, <1>2

LEMMA LookupIs ==
  ASSUME NEW at \in Nat
  PROVE  Ordinary(Lookup(at)) /\ Len(Lookup(at)) = 4
<1> DEFINE a == Check \o Step("name", at)
           b == a \o Check
<1>1. Ordinary(a) /\ Len(a) = 2
  BY CheckedEntry DEF Entries
<1>2. Len(Check) = 1
  BY StepIs DEF Check, Does
<1> HIDE DEF a
<1>3. Ordinary(b) /\ Len(b) = 3 /\ EndsInCheck(b)
  <2>1. Ordinary(b) /\ Len(b) = Len(a) + Len(Check) /\ EndsInCheck(b)
    BY <1>1, CheckIs, ThenOrdinary
  <2> HIDE DEF b
  <2>2. QED
    BY <1>1, <1>2, <2>1
<1> HIDE DEF b
<1>4. Ordinary(b \o Step("call", at)) /\ Len(b \o Step("call", at)) = 4
  <2>1. "call" \in Entries \ {"enter"}
    BY DEF Entries
  <2>2. Ordinary(b \o Step("call", at)) /\ Len(b \o Step("call", at)) = Len(b) + 1
    BY <1>3, <2>1, ThenEntry
  <2>3. QED
    BY <1>3, <2>2
<1>5. QED
  BY <1>4 DEF Lookup, a, b

\* What precedes a look at the token, and the entry after it.
LEMMA ThenChecked ==
  ASSUME NEW p, Ordinary(p), NEW does \in Entries \ {"enter"}, NEW at \in Nat
  PROVE  Ordinary((p \o Check) \o Step(does, at))
<1>1. Ordinary(p \o Check) /\ EndsInCheck(p \o Check)
  BY CheckIs, ThenOrdinary
<1>2. QED
  BY <1>1, ThenEntry

LEMMA WithSourcesIs ==
  ASSUME NEW at \in Nat
  PROVE  Ordinary(WithSources(at))
<1> DEFINE a == Check \o Step("name", at)
           b == a \o Check
           c == b \o Step("roots", 0)
<1>1. Ordinary(a)
  BY CheckedEntry DEF Entries
<1>2. Ordinary(Step("roots", 0))
  <2>1. "roots" \in Does \ (Entries \cup BridgeSteps)
    BY DEF Does, Entries, BridgeSteps
  <2>2. QED
    BY <2>1, StepOrdinary
<1> HIDE DEF a
<1>3. Ordinary(b)
  BY <1>1, CheckIs, ThenOrdinary
<1> HIDE DEF b
<1>4. Ordinary(c)
  BY <1>2, <1>3, ThenOrdinary
<1> HIDE DEF c
<1>5. Ordinary((c \o Check) \o Step("call", at))
  BY <1>4, ThenChecked DEF Entries
<1>6. QED
  BY <1>5 DEF WithSources, a, b, c

LEMMA SearchIs ==
  ASSUME NEW at \in Nat
  PROVE  Ordinary(((Check \o Step("roots", 0)) \o Check) \o Step("call", at))
<1>1. Ordinary(Step("roots", 0))
  <2>1. "roots" \in Does \ (Entries \cup BridgeSteps)
    BY DEF Does, Entries, BridgeSteps
  <2>2. QED
    BY <2>1, StepOrdinary
<1>2. Ordinary(Check \o Step("roots", 0))
  BY <1>1, CheckIs, ThenOrdinary
<1>3. QED
  BY <1>2, ThenChecked DEF Entries

LEMMA WithShimIs ==
  ASSUME NEW m, NEW at \in Nat
  PROVE  Good(WithShim(m, at))
<1> DEFINE s == Step("shim", 0)
           cs == Check \o s
           r == Step("roots", 0)
           csr == cs \o r
<1>1. /\ s \in Seq(Instr) /\ Len(s) = 1 /\ s[1].does = "shim"
      /\ r \in Seq(Instr) /\ Len(r) = 1 /\ r[1].does = "roots"
      /\ Check \in Seq(Instr) /\ Len(Check) = 1 /\ Check[1].does = "check"
  BY StepIs DEF Does, Check
<1>2. Ordinary(s) /\ Ordinary(r)
  <2>1. {"shim", "roots"} \subseteq Does \ (Entries \cup BridgeSteps)
    BY DEF Does, Entries, BridgeSteps
  <2>2. QED
    BY <2>1, StepOrdinary
<1> HIDE DEF s, r
<1>3. Ordinary(cs) /\ cs \in Seq(Instr) /\ Len(cs) = 2 /\ cs[1] = Check[1] /\ cs[2] = s[1]
  <2>1. /\ Len(cs) = Len(Check) + Len(s)
        /\ \A i \in 1..Len(Check) : cs[i] = Check[i]
        /\ \A i \in 1..Len(s) : cs[Len(Check) + i] = s[i]
    BY <1>1, Concat
  <2>2. Ordinary(cs)
    BY <1>2, CheckIs, ThenOrdinary
  <2> HIDE DEF cs
  <2>3. QED
    BY <1>1, <2>1, <2>2 DEF Ordinary
<1> HIDE DEF cs
<1>4. Good(s \o Step("call", at))
  <2>1. \A i \in 1..Len(s) : s[i].does \notin Entries \cup BridgeSteps
    BY <1>1 DEF Entries, BridgeSteps
  <2>2. QED
    BY <1>1, <2>1, LoneCall
<1>5. Good(cs \o Step("call", at))
  <2>1. \A i \in 1..Len(cs) : cs[i].does \notin Entries \cup BridgeSteps
    BY <1>1, <1>3 DEF Entries, BridgeSteps
  <2>2. QED
    BY <1>3, <2>1, LoneCall
<1>6. Good((csr \o Check) \o Step("call", at))
  <2>1. Ordinary(csr)
    BY <1>2, <1>3, ThenOrdinary
  <2> HIDE DEF csr
  <2>2. "call" \in Entries \ {"enter"}
    BY DEF Entries
  <2>3. QED
    BY <2>1, <2>2, ThenChecked, OrdinaryIsGood
<1>7. CASE m = "clear_module_snapshot_cache"
  BY <1>4, <1>7 DEF WithShim, s
<1>8. CASE m = "inspect_declaration"
  BY <1>6, <1>8 DEF WithShim, s, r, cs, csr
<1>9. CASE m \notin {"clear_module_snapshot_cache", "inspect_declaration"}
  BY <1>5, <1>9 DEF WithShim, s, cs
<1>10. QED
  BY <1>7, <1>8, <1>9

LEMMA StepWithin ==
  ASSUME NEW does \in {"tick", "work"}, NEW at \in Nat
  PROVE  Within(Step(does, at)) /\ Len(Step(does, at)) = 1
<1>1. /\ Step(does, at) \in Seq(Instr) /\ Len(Step(does, at)) = 1
      /\ Step(does, at)[1].does = does
  BY StepIs DEF Does
<1>2. QED
  BY <1>1 DEF Within, Entries

LEMMA ThenWithin ==
  ASSUME NEW p, NEW q, Within(p), Within(q)
  PROVE  Within(p \o q) /\ Len(p \o q) = Len(p) + Len(q)
<1>1. /\ p \o q \in Seq(Instr) /\ Len(p \o q) = Len(p) + Len(q)
      /\ Len(p) \in Nat /\ Len(q) \in Nat
      /\ \A i \in 1 .. Len(p) + Len(q) : (p \o q)[i] = IF i <= Len(p) THEN p[i] ELSE q[i - Len(p)]
  BY ConcatProperties DEF Within
<1> DEFINE c == p \o q
<1> HIDE DEF c
<1>2. ASSUME NEW i \in 1..Len(c) PROVE c[i].does \notin Entries \cup {"leave", "report"}
  <2>1. CASE i <= Len(p)
    BY <1>1, <2>1 DEF Within, c
  <2>2. CASE i > Len(p)
    <3>1. i - Len(p) \in 1..Len(q) /\ c[i] = q[i - Len(p)]
      BY <1>1, <2>2 DEF c
    <3>2. QED
      BY <3>1 DEF Within
  <2>3. QED
    BY <1>1, <2>1, <2>2 DEF c
<1>3. QED
  BY <1>1, <1>2 DEF Within, c

LEMMA EmptyWithin == Within(<<>>)
BY DEF Within

LEMMA TickingIs ==
  ASSUME NEW m, NEW at \in Nat
  PROVE  Good(Ticking(m, at))
<1> DEFINE f == IF m = "kernel_check" THEN Step("tick", 0) ELSE <<>>
           w == (f \o Step("work", at)) \o Step("tick", 1)
<1>1. Within(f)
  BY StepWithin, EmptyWithin
<1>2. Within(Step("work", at)) /\ Within(Step("tick", 1))
  BY StepWithin
<1> HIDE DEF f
<1>3. Within(f \o Step("work", at))
  BY <1>1, <1>2, ThenWithin
<1>4. Within(w)
  BY <1>2, <1>3, ThenWithin
<1> HIDE DEF w
<1>5. Good(Check \o Bridged(w))
  BY <1>4, CheckIs, BridgedIsGood
<1>6. QED
  BY <1>5 DEF Ticking, w, f

LEMMA SingleIs ==
  ASSUME NEW m \in Method, NEW at \in Nat, NEW sink \in BOOLEAN
  PROVE  Good(Single(m, at, sink))
<1>1. CASE m \in NamedMethods
  <2>1. Single(m, at, sink) = Lookup(at)
    BY <1>1 DEF Single, NamedMethods, OptionalMethods, TickingMethods, QueryMethods,
                ProofMethods, MetaMethods
  <2>2. QED
    BY <2>1, LookupIs, OrdinaryIsGood
<1>2. CASE m = "declaration_source_range"
  <2>1. Single(m, at, sink) = WithSources(at)
    BY <1>2 DEF Single, NamedMethods, OptionalMethods, TickingMethods, QueryMethods,
                ProofMethods, MetaMethods
  <2>2. QED
    BY <2>1, WithSourcesIs, OrdinaryIsGood
<1>3. CASE m = "search_declarations"
  <2>1. Single(m, at, sink) = Check \o Step("roots", 0) \o Check \o Step("call", at)
    BY <1>3 DEF Single, NamedMethods, OptionalMethods, TickingMethods, QueryMethods,
                ProofMethods, MetaMethods
  <2>2. QED
    BY <2>1, SearchIs, OrdinaryIsGood
<1>4. CASE m = "live_extension_registry_epoch"
  <2>1. Single(m, at, sink) = Step("call", at)
    BY <1>4 DEF Single, NamedMethods, OptionalMethods, TickingMethods, QueryMethods,
                ProofMethods, MetaMethods
  <2>2. PICK none : none = <<>>
    OBVIOUS
  <2>3. Good(<<>> \o Step("call", at))
    <3>1. none \in Seq(Instr) /\ \A i \in 1..Len(none) : none[i].does \notin Entries \cup BridgeSteps
      BY <2>2
    <3>2. Good(none \o Step("call", at))
      BY <3>1, LoneCall
    <3>3. QED
      BY <2>2, <3>2
  <2>4. Step("call", at) \in Seq(Instr)
    BY StepIs DEF Does
  <2>5. <<>> \o Step("call", at) = Step("call", at)
    BY <2>4, ConcatEmptySeq
  <2>6. QED
    BY <2>1, <2>3, <2>5
<1>5. CASE m \in OptionalMethods
  <2>1. Single(m, at, sink) = WithShim(m, at)
    BY <1>5 DEF Single, NamedMethods, OptionalMethods, TickingMethods, QueryMethods,
                ProofMethods, MetaMethods
  <2>2. QED
    BY <2>1, WithShimIs
<1>6. CASE m \in TickingMethods /\ sink
  <2>1. Single(m, at, sink) = Ticking(m, at)
    BY <1>6 DEF Single, NamedMethods, OptionalMethods, TickingMethods, QueryMethods,
                ProofMethods, MetaMethods
  <2>2. QED
    BY <2>1, TickingIs
<1>7. CASE ~(\/ m \in NamedMethods \cup OptionalMethods
             \/ m \in {"declaration_source_range", "search_declarations",
                       "live_extension_registry_epoch"}
             \/ m \in TickingMethods /\ sink)
  <2>1. Single(m, at, sink) = Check \o Step("call", at)
    BY <1>7 DEF Single
  <2>2. QED
    BY <2>1, CheckedEntry, OrdinaryIsGood DEF Entries
<1>8. QED
  BY <1>1, <1>2, <1>3, <1>4, <1>5, <1>6, <1>7

\* The calls that a bulk method makes one by one, all alike.
LEMMA SingleOfBulk ==
  ASSUME NEW m \in BulkMethods
  PROVE  \E w \in {2, 4} : \A at \in Nat :
           Ordinary(Single(SingleOf[m], at, FALSE)) /\ Len(Single(SingleOf[m], at, FALSE)) = w
<1>1. SingleOf[m] \in NamedMethods \cup {"elaborate", "name_to_string"}
  BY DEF BulkMethods, SingleOf, NamedMethods
<1>2. CASE SingleOf[m] \in NamedMethods
  <2>1. \A at \in Nat : Single(SingleOf[m], at, FALSE) = Lookup(at)
    BY <1>2 DEF Single, NamedMethods, OptionalMethods, TickingMethods, QueryMethods,
                ProofMethods, MetaMethods
  <2>2. QED
    BY <2>1, LookupIs
<1>3. CASE SingleOf[m] \in {"elaborate", "name_to_string"}
  <2>1. \A at \in Nat : Single(SingleOf[m], at, FALSE) = Check \o Step("call", at)
    BY <1>3 DEF Single, NamedMethods, OptionalMethods, TickingMethods, QueryMethods,
                ProofMethods, MetaMethods
  <2>2. "call" \in Entries \ {"enter"}
    BY DEF Entries
  <2>3. \A at \in Nat : /\ Ordinary(Check \o Step("call", at))
                        /\ Len(Check \o Step("call", at)) = 2
    BY <2>2, CheckedEntry
  <2>4. QED
    BY <2>1, <2>3
<1>4. QED
  BY <1>1, <1>2, <1>3

\* A part between a look at the token and a report.
LEMMA ThenReport ==
  ASSUME NEW p, Ordinary(p), NEW at \in Nat
  PROVE  /\ Ordinary((Check \o p) \o Step("report", at))
         /\ Len((Check \o p) \o Step("report", at)) = Len(p) + 2
<1> DEFINE r == Step("report", at)
           c == Check \o p
<1>1. Ordinary(r) /\ Len(r) = 1
  <2>1. "report" \in Does \ (Entries \cup BridgeSteps)
    BY DEF Does, Entries, BridgeSteps
  <2>2. QED
    BY <2>1, StepOrdinary, StepIs
<1> HIDE DEF r
<1>2. Len(Check) = 1
  BY StepIs DEF Check, Does
<1>3. Ordinary(c) /\ Len(c) = Len(Check) + Len(p)
  BY CheckIs, ThenOrdinary
<1> HIDE DEF c
<1>4. Ordinary(c \o r) /\ Len(c \o r) = Len(c) + Len(r)
  BY <1>1, <1>3, ThenOrdinary
<1>5. Len(p) \in Nat
  BY DEF Ordinary
<1>6. QED
  BY <1>1, <1>2, <1>3, <1>4, <1>5 DEF c, r

LEMMA OneByOneIs ==
  ASSUME NEW m \in BulkMethods, NEW n \in Nat
  PROVE  Ordinary(OneByOne(m, n))
<1> DEFINE part(i) == (Check \o Single(SingleOf[m], i, FALSE)) \o Step("report", i)
           parts == [i \in 1..n |-> part(i)]
<1>1. PICK w \in {2, 4} : \A at \in Nat :
        Ordinary(Single(SingleOf[m], at, FALSE)) /\ Len(Single(SingleOf[m], at, FALSE)) = w
  BY SingleOfBulk
<1>2. PICK v : v = w + 2
  OBVIOUS
<1>3. \A i \in 1..n : Ordinary(part(i)) /\ Len(part(i)) = v
  <2> TAKE i \in 1..n
  <2>1. i \in Nat
    OBVIOUS
  <2>2. Ordinary(Single(SingleOf[m], i, FALSE)) /\ Len(Single(SingleOf[m], i, FALSE)) = w
    BY <1>1, <2>1
  <2>3. Ordinary(part(i)) /\ Len(part(i)) = Len(Single(SingleOf[m], i, FALSE)) + 2
    BY <2>1, <2>2, ThenReport
  <2>4. QED
    BY <1>2, <2>2, <2>3
<1> HIDE DEF part
<1>4. parts \in [1..n -> Seq(Instr)] /\ \A i \in 1..n : Ordinary(parts[i]) /\ Len(parts[i]) = v
  BY <1>3 DEF Ordinary
<1>5. v \in {2, 3, 4, 6}
  BY <1>2
<1> HIDE DEF parts
<1>6. Ordinary(Each(parts))
  BY <1>4, <1>5, EachOrdinary
<1>7. Ordinary(Check \o Each(parts))
  BY <1>6, CheckIs, ThenOrdinary
<1>8. QED
  BY <1>7 DEF OneByOne, parts, part

\* One entry for all, after a look at the token.
LEMMA AllAtOnceIs ==
  ASSUME NEW p, Ordinary(p), EndsInCheck(p), NEW n \in Nat, NEW sink \in BOOLEAN
  PROVE  /\ Good(p \o AllAtOnce(n, sink))
         /\ Good((p \o AllAtOnce(n, sink)) \o Step("zip", 0))
<1>1. CASE sink
  <2> DEFINE part(i) == Step("work", i) \o Step("tick", i)
             parts == [i \in 1..n |-> part(i)]
  <2>1. \A i \in 1..n : Within(part(i)) /\ Len(part(i)) = 2
    <3> TAKE i \in 1..n
    <3> DEFINE a == Step("work", i)
               b == Step("tick", i)
               c == a \o b
    <3>1. i \in Nat
      OBVIOUS
    <3>2. Within(a) /\ Len(a) = 1 /\ Within(b) /\ Len(b) = 1
      BY <3>1, StepWithin
    <3> HIDE DEF a, b
    <3>3. Within(c) /\ Len(c) = Len(a) + Len(b)
      BY <3>2, ThenWithin
    <3> HIDE DEF c
    <3>4. Within(c) /\ Len(c) = 2
      BY <3>2, <3>3
    <3>5. QED
      BY <3>4 DEF a, b, c
  <2> HIDE DEF part
  <2>2. parts \in [1..n -> Seq(Instr)] /\ \A i \in 1..n : Within(parts[i]) /\ Len(parts[i]) = 2
    BY <2>1 DEF Within
  <2> HIDE DEF parts
  <2>3. Within(Each(parts))
    BY <2>2, EachWithin
  <2>4. AllAtOnce(n, sink) = Bridged(Each(parts))
    BY <1>1 DEF AllAtOnce, parts, part
  <2>5. QED
    BY <2>3, <2>4, BridgedIsGood
<1>2. CASE ~sink
  <2>1. AllAtOnce(n, sink) = Step("all", n)
    BY <1>2 DEF AllAtOnce
  <2>2. Ordinary(p \o Step("all", n))
    <3>1. "all" \in Entries \ {"enter"}
      BY DEF Entries
    <3>2. QED
      BY <3>1, ThenEntry
  <2>3. Ordinary(Step("zip", 0))
    <3>1. "zip" \in Does \ (Entries \cup BridgeSteps)
      BY DEF Does, Entries, BridgeSteps
    <3>2. QED
      BY <3>1, StepOrdinary
  <2>4. Ordinary((p \o Step("all", n)) \o Step("zip", 0))
    BY <2>2, <2>3, ThenOrdinary
  <2>5. QED
    BY <2>1, <2>2, <2>4, OrdinaryIsGood
<1>3. QED
  BY <1>1, <1>2

LEMMA QueryAtOnceIs ==
  ASSUME NEW n \in Nat, NEW sink \in BOOLEAN
  PROVE  Good(QueryAtOnce(n, sink))
<1> DEFINE part(i) == (Check \o Step("name", i)) \o Step("report", i)
           parts == [i \in 1..n |-> part(i)]
           p == (Check \o Each(parts)) \o Check
<1>1. \A i \in 1..n : Ordinary(part(i)) /\ Len(part(i)) = 3
  <2> TAKE i \in 1..n
  <2> DEFINE a == Check \o Step("name", i)
             b == Step("report", i)
             c == a \o b
  <2>1. i \in Nat /\ "name" \in Entries \ {"enter"}
    BY DEF Entries
  <2>2. Ordinary(a) /\ Len(a) = 2
    BY <2>1, CheckedEntry
  <2>3. Ordinary(b) /\ Len(b) = 1
    <3>1. "report" \in Does \ (Entries \cup BridgeSteps)
      BY DEF Does, Entries, BridgeSteps
    <3>2. QED
      BY <2>1, <3>1, StepOrdinary, StepIs
  <2> HIDE DEF a, b
  <2>4. Ordinary(c) /\ Len(c) = Len(a) + Len(b)
    BY <2>2, <2>3, ThenOrdinary
  <2> HIDE DEF c
  <2>5. Ordinary(c) /\ Len(c) = 3
    BY <2>2, <2>3, <2>4
  <2>6. QED
    BY <2>5 DEF a, b, c
<1> HIDE DEF part
<1>2. parts \in [1..n -> Seq(Instr)] /\ \A i \in 1..n : Ordinary(parts[i]) /\ Len(parts[i]) = 3
  BY <1>1 DEF Ordinary
<1> HIDE DEF parts
<1>3. Ordinary(Each(parts))
  <2>1. 3 \in {2, 3, 4, 6}
    OBVIOUS
  <2>2. QED
    BY <1>2, <2>1, EachOrdinary
<1>4. Ordinary(Check \o Each(parts))
  BY <1>3, CheckIs, ThenOrdinary
<1>5. Ordinary(p) /\ EndsInCheck(p)
  BY <1>4, CheckIs, ThenOrdinary
<1> HIDE DEF p
<1>6. Good((p \o AllAtOnce(n, sink)) \o Step("zip", 0))
  BY <1>5, AllAtOnceIs
<1>7. QED
  BY <1>6 DEF QueryAtOnce, p, parts, part

LEMMA BulkIs ==
  ASSUME NEW m \in BulkMethods, NEW names, Len(names) \in Nat, NEW token \in BOOLEAN,
         NEW sink \in BOOLEAN
  PROVE  Good(Bulk(m, names, token, sink))
<1> DEFINE n == Len(names)
           listing == (Check \o Step("list", 0)) \o (IF names = <<>> THEN <<>> ELSE OneByOne(m, n))
<1>1. Good(OneByOne(m, n)) /\ Good(<<>>)
  BY OneByOneIs, EmptyIsOrdinary, OrdinaryIsGood
<1>2. Good(listing)
  <2>1. Ordinary(Check \o Step("list", 0))
    BY CheckedEntry DEF Entries
  <2>2. Ordinary(IF names = <<>> THEN <<>> ELSE OneByOne(m, n))
    BY OneByOneIs, EmptyIsOrdinary
  <2>3. QED
    BY <2>1, <2>2, ThenOrdinary, OrdinaryIsGood
<1>3. Good(QueryAtOnce(n, sink))
  BY QueryAtOnceIs
<1>4. Good(Check \o Step("one", n))
  BY CheckedEntry, OrdinaryIsGood DEF Entries
<1>5. Good(Check \o AllAtOnce(n, sink))
  BY CheckIs, AllAtOnceIs
<1> HIDE DEF n, listing
<1>6. Bulk(m, names, token, sink) \in {listing, <<>>, OneByOne(m, n), QueryAtOnce(n, sink),
                                      Check \o Step("one", n), Check \o AllAtOnce(n, sink)}
  BY DEF Bulk, listing, n
<1>7. QED
  BY <1>1, <1>2, <1>3, <1>4, <1>5, <1>6

LEMMA ProgramIsGood ==
  ASSUME NEW m \in Methods, NEW names \in NamesFor(m), NEW token \in BOOLEAN,
         NEW sink \in BOOLEAN
  PROVE  Good(Program(m, names, token, sink))
<1>1. m \in Method /\ Len(names) \in Nat
  BY HostCallsAssumption DEF NamesFor
<1>2. CASE m \in BulkMethods
  BY <1>1, <1>2, BulkIs DEF Program
<1>3. CASE m \notin BulkMethods
  BY <1>1, <1>3, SingleIs DEF Program
<1>4. QED
  BY <1>2, <1>3

-----------------------------------------------------------------------------
(* What a program has left after a step                                    *)

LEMMA TailIs ==
  ASSUME NEW p \in Seq(Instr), p # <<>>
  PROVE  /\ Len(p) \in Nat /\ Len(p) >= 1 /\ Head(p) = p[1] /\ p[1] \in Instr
         /\ Tail(p) \in Seq(Instr) /\ Len(Tail(p)) = Len(p) - 1
         /\ \A i \in 1..(Len(p) - 1) : Tail(p)[i] = p[i + 1]
  OBVIOUS

LEMMA FormedHead ==
  ASSUME NEW p \in Seq(Instr), p # <<>>, NEW inside \in BOOLEAN, Formed(p, inside)
  PROVE  /\ p[1].does \in {"tick", "leave"} => inside
         /\ p[1].does \in {"enter", "report"} => ~inside
<1>1. 1 \in 1..Len(p) /\ 1..(1 - 1) = {}
  BY TailIs
<1>2. QED
  BY <1>1 DEF Formed

LEMMA FormedTail ==
  ASSUME NEW p \in Seq(Instr), p # <<>>, NEW inside \in BOOLEAN, Formed(p, inside),
         NEW after \in BOOLEAN, after <=> p[1].does = "enter" \/ (inside /\ p[1].does # "leave")
  PROVE  Formed(Tail(p), after)
<1> DEFINE q == Tail(p)
<1>1. /\ Len(p) \in Nat /\ Len(p) >= 1 /\ Len(q) = Len(p) - 1
      /\ \A i \in 1..Len(q) : q[i] = p[i + 1] /\ i + 1 \in 1..Len(p)
  BY TailIs
<1> HIDE DEF q
<1>2. 1 \in 1..Len(p)
  BY <1>1
<1>3. after => \A i \in 1..Len(q) : q[i].does \notin {"enter", "report"}
  <2>1. CASE p[1].does = "enter"
    <3>1. \A j \in (1 + 1)..Len(p) : p[j].does \notin {"enter", "report"}
      BY <1>2, <2>1 DEF Formed
    <3>2. QED
      BY <1>1, <3>1
  <2>2. CASE inside
    BY <1>1, <2>2 DEF Formed
  <2>3. QED
    BY <2>1, <2>2
<1>4. ASSUME NEW i \in 1..Len(q), q[i].does = "enter", NEW j \in (i + 1)..Len(q)
      PROVE  q[j].does \notin {"enter", "report"}
  <2>1. i + 1 \in 1..Len(p) /\ p[i + 1].does = "enter" /\ j \in 1..Len(q)
    BY <1>1, <1>4
  <2>2. j + 1 \in ((i + 1) + 1)..Len(p)
    BY <1>1, <1>4
  <2>3. p[j + 1].does \notin {"enter", "report"}
    BY <2>1, <2>2 DEF Formed
  <2>4. QED
    BY <1>1, <2>1, <2>3
<1>5. ASSUME NEW i \in 1..Len(q), q[i].does \in {"tick", "leave"}
      PROVE  after \/ \E j \in 1..(i - 1) : q[j].does = "enter"
  <2>1. i + 1 \in 1..Len(p) /\ p[i + 1].does \in {"tick", "leave"}
    BY <1>1, <1>5
  <2>2. inside \/ \E j \in 1..((i + 1) - 1) : p[j].does = "enter"
    BY <2>1 DEF Formed
  <2>3. p[1].does # "leave"
    <3>1. i + 1 \in (1 + 1)..Len(p)
      BY <1>1, <1>5
    <3>2. p[1].does = "leave" => p[i + 1].does \notin BridgeSteps
      BY <1>2, <3>1 DEF Formed
    <3>3. QED
      BY <2>1, <3>2 DEF BridgeSteps
  <2>4. ASSUME NEW j \in 1..((i + 1) - 1), p[j].does = "enter", j # 1
        PROVE  j - 1 \in 1..(i - 1) /\ q[j - 1].does = "enter"
    <3>1. j - 1 \in 1..(i - 1) /\ j - 1 \in 1..Len(q) /\ (j - 1) + 1 = j
      BY <1>1, <2>4
    <3>2. QED
      BY <1>1, <2>4, <3>1
  <2>5. QED
    BY <2>2, <2>3, <2>4
<1>6. ASSUME NEW i \in 1..Len(q), q[i].does = "leave", NEW j \in (i + 1)..Len(q)
      PROVE  q[j].does \notin BridgeSteps
  <2>1. i + 1 \in 1..Len(p) /\ p[i + 1].does = "leave" /\ j \in 1..Len(q)
    BY <1>1, <1>6
  <2>2. j + 1 \in ((i + 1) + 1)..Len(p)
    BY <1>1, <1>6
  <2>3. p[j + 1].does \notin BridgeSteps
    BY <2>1, <2>2 DEF Formed
  <2>4. QED
    BY <1>1, <2>1, <2>3
<1>7. QED
  BY <1>3, <1>4, <1>5, <1>6 DEF Formed, q

LEMMA SpacedTail ==
  ASSUME NEW p \in Seq(Instr), p # <<>>, Spaced(p)
  PROVE  Spaced(Tail(p)) /\ (p[1].does \in Entries => Tight(Tail(p)))
<1> DEFINE q == Tail(p)
<1>1. /\ Len(p) \in Nat /\ Len(p) >= 1 /\ Len(q) = Len(p) - 1
      /\ \A i \in 1..Len(q) : q[i] = p[i + 1] /\ i + 1 \in 1..Len(p)
  BY TailIs
<1> HIDE DEF q
<1>2. ASSUME NEW i \in 1..Len(q), q[i].does \in Entries
      PROVE  \/ p[i].does = "check"
             \/ \A j \in 1..i : p[j].does \notin Entries
  <2>1. i + 1 \in 1..Len(p) /\ p[i + 1].does \in Entries /\ (i + 1) - 1 = i
    BY <1>1, <1>2
  <2>2. QED
    BY <2>1 DEF Spaced
<1>3. Spaced(q)
  <2> SUFFICES ASSUME NEW i \in 1..Len(q), q[i].does \in Entries,
                      ~(i > 1 /\ q[i - 1].does = "check"),
                      NEW j \in 1..(i - 1)
               PROVE  q[j].does \notin Entries
    BY DEF Spaced
  <2>1. i - 1 \in 1..Len(q) /\ (i - 1) + 1 = i /\ i > 1
    BY <1>1
  <2>2. p[i].does # "check"
    BY <1>1, <2>1
  <2>3. j + 1 \in 1..i /\ j \in 1..Len(q)
    BY <1>1
  <2>4. QED
    BY <1>1, <1>2, <2>2, <2>3
<1>4. ASSUME p[1].does \in Entries PROVE Tight(q)
  <2> SUFFICES ASSUME NEW i \in 1..Len(q), q[i].does \in Entries
               PROVE  i > 1 /\ q[i - 1].does = "check"
    BY DEF Tight
  <2>1. 1 \in 1..i
    OBVIOUS
  <2>2. p[i].does = "check"
    BY <1>2, <1>4, <2>1
  <2>3. i # 1
    BY <1>4, <2>2 DEF Entries
  <2>4. i - 1 \in 1..Len(q) /\ (i - 1) + 1 = i /\ i > 1
    BY <1>1, <2>3
  <2>5. QED
    BY <1>1, <2>2, <2>4
<1>5. QED
  BY <1>3, <1>4 DEF q

LEMMA TightTail ==
  ASSUME NEW p \in Seq(Instr), p # <<>>, Tight(p)
  PROVE  p[1].does \notin Entries /\ (p[1].does # "check" => Tight(Tail(p)))
<1> DEFINE q == Tail(p)
<1>1. /\ Len(p) \in Nat /\ Len(p) >= 1 /\ Len(q) = Len(p) - 1
      /\ \A i \in 1..Len(q) : q[i] = p[i + 1] /\ i + 1 \in 1..Len(p)
  BY TailIs
<1> HIDE DEF q
<1>2. p[1].does \notin Entries
  <2>1. 1 \in 1..Len(p) /\ ~(1 > 1)
    BY <1>1
  <2>2. QED
    BY <2>1 DEF Tight
<1>3. ASSUME p[1].does # "check", NEW i \in 1..Len(q), q[i].does \in Entries
      PROVE  i > 1 /\ q[i - 1].does = "check"
  <2>1. i + 1 \in 1..Len(p) /\ p[i + 1].does \in Entries /\ (i + 1) - 1 = i
    BY <1>1, <1>3
  <2>2. p[i].does = "check"
    BY <2>1 DEF Tight
  <2>3. i # 1
    BY <1>3, <2>2
  <2>4. i - 1 \in 1..Len(q) /\ (i - 1) + 1 = i /\ i > 1
    BY <1>1, <2>3
  <2>5. QED
    BY <1>1, <2>2, <2>4
<1>4. QED
  BY <1>2, <1>3 DEF Tight, q

-----------------------------------------------------------------------------
(* Frames                                                                  *)

Fields == {"method", "names", "token", "sink", "do", "out", "bridge", "outcome", "late",
           "panicked", "ticks"}
IsFrame(f) == DOMAIN f = Fields /\ f = [field \in DOMAIN f |-> f[field]]

Ends == CallOutcomes \ {"running", "stale", "misrouted"}

FrameTypeOK(f) ==
  /\ f.method \in Method \cup {"none"} /\ f.names \in Batches \cup {<<>>}
  /\ f.token \in BOOLEAN /\ f.sink \in BOOLEAN /\ f.panicked \in BOOLEAN
  /\ f.do \in Seq(Instr) /\ f.bridge \in 0..(IdSpace - 1)
  /\ f.outcome \in Ends \cup {"running"} /\ f.late \in {0, 1}

\* What a running call has left fits the bridge it has and, if it went into
\* Lean under a token that was cancelled, looks at the token before it does so again.
RunningFits(f, c) ==
  /\ ~f.panicked /\ Formed(f.do, f.bridge # 0)
  /\ f.late = 0 => Spaced(f.do)
  /\ f.late = 1 => f.token /\ c /\ Tight(f.do)

FrameFits(f, c) ==
  /\ IsFrame(f) /\ FrameTypeOK(f)
  /\ f.panicked => f.outcome = "panic"
  /\ f.outcome # "running" => f.bridge = 0
  /\ f.outcome = "running" => RunningFits(f, c)

FramesFit ==
  /\ frame = [t \in Threads |-> frame[t]]
  /\ \A t \in Threads : FrameFits(frame[t], cancelled)

\* The same call, but for what it has collected, reported and counted.
Alike(f, g) ==
  /\ IsFrame(g) /\ g.method = f.method /\ g.names = f.names /\ g.token = f.token
  /\ g.sink = f.sink /\ g.do = f.do /\ g.bridge = f.bridge /\ g.outcome = f.outcome
  /\ g.panicked = f.panicked

\* What a step does to the registry on behalf of a bridge: nothing, or the
\* bridge is dropped, or there is one now.
Moves(t, old, new) ==
  \/ UNCHANGED registryVars /\ new = old
  \/ old # 0 /\ Unregister(old) /\ new = 0
  \/ old = 0 /\ CanRegister /\ Register(t) /\ new = Allocated

CallMoves(t) ==
  /\ frame' = [frame EXCEPT ![t] = frame'[t]] /\ FrameFits(frame'[t], cancelled)
  /\ Moves(t, frame[t].bridge, frame'[t].bridge)

LEMMA EndFits ==
  ASSUME FramesFit, NEW t \in Threads, Running(t), NEW how \in Ends, End(t, how)
  PROVE  CallMoves(t)
<1> DEFINE f == frame[t]
           g == [f EXCEPT !.outcome = how, !.do = <<>>, !.bridge = 0]
<1>1. FrameFits(f, cancelled) /\ f.outcome = "running"
  BY DEF FramesFit, Running
<1>2. frame' = [frame EXCEPT ![t] = g]
  BY DEF End
<1>3. t \in DOMAIN frame
  BY DEF FramesFit
<1>4. frame'[t] = g
  BY <1>2, <1>3
<1> HIDE DEF f
<1>5. IsFrame(f)
  BY <1>1 DEF FrameFits
<1>6. /\ IsFrame(g) /\ g.method = f.method /\ g.names = f.names /\ g.token = f.token
      /\ g.sink = f.sink /\ g.panicked = f.panicked /\ g.late = f.late
      /\ g.do = <<>> /\ g.bridge = 0 /\ g.outcome = how
  BY <1>5 DEF IsFrame, Fields
<1> HIDE DEF g
<1>7. FrameFits(g, cancelled)
  <2>1. ~f.panicked
    BY <1>1 DEF FrameFits, RunningFits
  <2>2. FrameTypeOK(f)
    BY <1>1 DEF FrameFits
  <2>3. FrameTypeOK(g)
    <3>1. 0 \in 0..(IdSpace - 1) /\ <<>> \in Seq(Instr)
      BY RegistryAssumption
    <3>2. QED
      BY <1>6, <2>2, <3>1 DEF FrameTypeOK
  <2>4. how # "running"
    BY DEF Ends
  <2>5. QED
    BY <1>6, <2>1, <2>3, <2>4 DEF FrameFits
<1>8. Moves(t, frame[t].bridge, frame'[t].bridge)
  BY <1>4, <1>6 DEF Moves, End, f
<1>9. QED
  BY <1>2, <1>4, <1>7, <1>8 DEF CallMoves

LEMMA AdvancedFits ==
  ASSUME NEW f, NEW c \in BOOLEAN, FrameFits(f, c), f.outcome = "running", f.do # <<>>,
         NEW g, IsFrame(g), FrameTypeOK(g), g.outcome = "running", ~g.panicked,
         g.do = Tail(f.do), g.token = f.token,
         g.late = IF f.do[1].does \in Entries /\ f.token /\ c THEN f.late + 1 ELSE f.late,
         ~(f.do[1].does = "check" /\ f.token /\ c),
         (g.bridge # 0) <=> (f.do[1].does = "enter" \/ (f.bridge # 0 /\ f.do[1].does # "leave"))
  PROVE  FrameFits(g, c)
<1>1. /\ f.do \in Seq(Instr) /\ f.late \in {0, 1} /\ f.token \in BOOLEAN
      /\ Formed(f.do, f.bridge # 0)
      /\ f.late = 0 => Spaced(f.do)
      /\ f.late = 1 => f.token /\ c /\ Tight(f.do)
  BY DEF FrameFits, FrameTypeOK, RunningFits
<1>2. Formed(g.do, g.bridge # 0)
  BY <1>1, FormedTail
<1>3. CASE f.late = 0 /\ f.do[1].does \in Entries /\ f.token /\ c
  <2>1. Tight(g.do) /\ g.late = 1
    BY <1>1, <1>3, SpacedTail
  <2>2. QED
    BY <1>2, <1>3, <2>1 DEF FrameFits, RunningFits
<1>4. CASE f.late = 0 /\ ~(f.do[1].does \in Entries /\ f.token /\ c)
  <2>1. Spaced(g.do) /\ g.late = 0
    BY <1>1, <1>4, SpacedTail
  <2>2. QED
    BY <1>2, <2>1 DEF FrameFits, RunningFits
<1>5. CASE f.late = 1
  <2>1. f.do[1].does \notin Entries /\ f.do[1].does # "check" /\ Tight(g.do) /\ g.late = 1
    BY <1>1, <1>5, TightTail
  <2>2. QED
    BY <1>1, <1>2, <1>5, <2>1 DEF FrameFits, RunningFits
<1>6. QED
  BY <1>1, <1>3, <1>4, <1>5

\* The head of a program that has one.
LEMMA AtIs ==
  ASSUME FramesFit, NEW t \in Threads, NEW does, At(t, does)
  PROVE  /\ FrameFits(frame[t], cancelled) /\ frame[t].outcome = "running"
         /\ frame[t].do \in Seq(Instr) /\ frame[t].do # <<>> /\ frame[t].do[1].does = does
         /\ Head(frame[t].do) = frame[t].do[1] /\ Item(t) \in Nat
<1>1. FrameFits(frame[t], cancelled) /\ frame[t].outcome = "running" /\ frame[t].do # <<>>
  BY DEF FramesFit, At, Running
<1>2. frame[t].do \in Seq(Instr)
  BY <1>1 DEF FrameFits, FrameTypeOK
<1>3. Head(frame[t].do) = frame[t].do[1] /\ frame[t].do[1] \in Instr
  BY <1>1, <1>2, TailIs
<1>4. QED
  BY <1>1, <1>2, <1>3 DEF At, Item, Instr

\* What an entry into Lean adds to what is counted.
LateIs(f, g, entry) ==
  g.late = IF entry /\ f.token /\ cancelled THEN f.late + 1 ELSE f.late

LEMMA EnteringAlike ==
  ASSUME NEW f, IsFrame(f)
  PROVE  /\ Alike(f, f) /\ LateIs(f, f, FALSE)
         /\ Alike(f, Entering(f)) /\ LateIs(f, Entering(f), TRUE)
<1>1. Alike(f, f) /\ LateIs(f, f, FALSE)
  BY DEF Alike, LateIs
<1>2. CASE f.token /\ cancelled
  <2> DEFINE g == [f EXCEPT !.late = @ + 1]
  <2>1. Alike(f, g) /\ g.late = f.late + 1
    BY DEF Alike, IsFrame, Fields
  <2>2. Entering(f) = g
    BY <1>2 DEF Entering
  <2> HIDE DEF g
  <2>3. QED
    BY <1>1, <1>2, <2>1, <2>2 DEF LateIs
<1>3. CASE ~(f.token /\ cancelled)
  BY <1>1, <1>3 DEF LateIs, Entering
<1>4. QED
  BY <1>1, <1>2, <1>3

LEMMA CollectedAlike ==
  ASSUME NEW f, NEW g, Alike(f, g), NEW answers
  PROVE  Alike(f, Collected(g, answers)) /\ Collected(g, answers).late = g.late
<1> DEFINE h == [g EXCEPT !.out = @ \o answers]
<1>1. IsFrame(g)
  BY DEF Alike
<1>2. /\ IsFrame(h) /\ h.method = g.method /\ h.names = g.names /\ h.token = g.token
      /\ h.sink = g.sink /\ h.do = g.do /\ h.bridge = g.bridge /\ h.outcome = g.outcome
      /\ h.panicked = g.panicked /\ h.late = g.late
  BY <1>1 DEF IsFrame, Fields
<1>3. Collected(g, answers) = h
  BY DEF Collected
<1> HIDE DEF h
<1>4. QED
  BY <1>2, <1>3 DEF Alike

LEMMA TickedAlike ==
  ASSUME NEW f, IsFrame(f), NEW i
  PROVE  Alike(f, Ticked(f, i)) /\ LateIs(f, Ticked(f, i), FALSE)
<1> DEFINE h == [f EXCEPT !.ticks = Append(@, i)]
<1>1. /\ IsFrame(h) /\ h.method = f.method /\ h.names = f.names /\ h.token = f.token
      /\ h.sink = f.sink /\ h.do = f.do /\ h.bridge = f.bridge /\ h.outcome = f.outcome
      /\ h.panicked = f.panicked /\ h.late = f.late
  BY DEF IsFrame, Fields
<1>2. Ticked(f, i) = h
  BY DEF Ticked
<1> HIDE DEF h
<1>3. QED
  BY <1>1, <1>2 DEF Alike, LateIs

\* A step that goes on with the program, and has nothing to do with the registry.
LEMMA GoFits ==
  ASSUME FramesFit, cancelled \in BOOLEAN, NEW t \in Threads, NEW does, At(t, does),
         does \notin {"enter", "leave"}, ~(does = "check" /\ frame[t].token /\ cancelled),
         NEW f, Alike(frame[t], f), NEW entry \in BOOLEAN, entry <=> does \in Entries,
         LateIs(frame[t], f, entry), Go(t, f)
  PROVE  CallMoves(t)
<1> DEFINE g == [f EXCEPT !.do = Tail(@)]
           old == frame[t]
<1>1. /\ FrameFits(old, cancelled) /\ old.outcome = "running" /\ old.do \in Seq(Instr)
      /\ old.do # <<>> /\ old.do[1].does = does
  BY AtIs
<1>2. frame' = [frame EXCEPT ![t] = g]
  BY DEF Go, Advanced
<1>3. frame'[t] = g
  BY <1>2 DEF FramesFit
<1>4. /\ IsFrame(g) /\ g.method = f.method /\ g.names = f.names /\ g.token = f.token
      /\ g.sink = f.sink /\ g.do = Tail(f.do) /\ g.bridge = f.bridge /\ g.outcome = f.outcome
      /\ g.panicked = f.panicked /\ g.late = f.late
  BY DEF Alike, IsFrame, Fields
<1> HIDE DEF g
<1>5. /\ f.method = old.method /\ f.names = old.names /\ f.token = old.token
      /\ f.sink = old.sink /\ f.do = old.do /\ f.bridge = old.bridge
      /\ f.outcome = old.outcome /\ f.panicked = old.panicked
  BY DEF Alike
<1> HIDE DEF old
<1>6. g.late = IF does \in Entries /\ old.token /\ cancelled THEN old.late + 1 ELSE old.late
  BY <1>4 DEF LateIs, old
<1>7. ~g.panicked /\ FrameTypeOK(old)
  BY <1>1, <1>4, <1>5 DEF FrameFits, RunningFits
<1>8. g.late \in {0, 1}
  <2>1. CASE does \in Entries /\ old.token /\ cancelled
    <3>1. old.late = 1 => Tight(old.do)
      BY <1>1 DEF FrameFits, RunningFits
    <3>2. old.late # 1
      BY <1>1, <2>1, <3>1, TightTail
    <3>3. QED
      BY <1>6, <1>7, <2>1, <3>2 DEF FrameTypeOK
  <2>2. CASE ~(does \in Entries /\ old.token /\ cancelled)
    BY <1>6, <1>7, <2>2 DEF FrameTypeOK
  <2>3. QED
    BY <2>1, <2>2
<1>9. FrameTypeOK(g)
  <2>1. Tail(old.do) \in Seq(Instr)
    BY <1>1, TailIs
  <2>2. QED
    BY <1>4, <1>5, <1>7, <1>8, <2>1 DEF FrameTypeOK
<1>10. (g.bridge # 0) <=> (old.do[1].does = "enter" \/ (old.bridge # 0 /\ old.do[1].does # "leave"))
  BY <1>1, <1>4, <1>5
<1>11. FrameFits(g, cancelled)
  <2>1. g.outcome = "running" /\ g.do = Tail(old.do) /\ g.token = old.token
    BY <1>1, <1>4, <1>5
  <2>2. ~(old.do[1].does = "check" /\ old.token /\ cancelled)
    BY <1>1 DEF old
  <2>3. g.late = IF old.do[1].does \in Entries /\ old.token /\ cancelled
                 THEN old.late + 1 ELSE old.late
    BY <1>1, <1>6
  <2>4. QED
    BY <1>1, <1>4, <1>7, <1>9, <1>10, <2>1, <2>2, <2>3, AdvancedFits
<1>12. Moves(t, frame[t].bridge, frame'[t].bridge)
  BY <1>3, <1>4, <1>5 DEF Moves, Go, old
<1>13. QED
  BY <1>2, <1>3, <1>11, <1>12 DEF CallMoves

\* The same with an end: one of the two happens at each such step.
LEMMA PlainSteps ==
  ASSUME FramesFit, cancelled \in BOOLEAN, NEW t \in Threads,
         CheckToken(t) \/ EnterLean(t) \/ SourceRoots(t) \/ OptionalShim(t) \/ CallLean(t)
           \/ CallBulk(t) \/ Work(t) \/ ZipNames(t)
  PROVE  CallMoves(t)
<1> DEFINE f == frame[t]
<1>0. \A does \in Does : At(t, does) => Running(t) /\ IsFrame(f)
  BY DEF At, FramesFit, FrameFits
<1>1. {"cancelled", "lean", "io", "unsupported", "missing"} \subseteq Ends
  BY DEF Ends, CallOutcomes
<1>2. \A how \in Ends : Running(t) /\ End(t, how) => CallMoves(t)
  BY EndFits
<1>3. \A does \in Does \ {"enter", "leave"} : \A g :
        /\ At(t, does) /\ ~(does = "check" /\ f.token /\ cancelled)
        /\ Alike(f, g) /\ LateIs(f, g, does \in Entries) /\ Go(t, g)
        => CallMoves(t)
  <2> TAKE does \in Does \ {"enter", "leave"}
  <2> TAKE g
  <2> HAVE /\ At(t, does) /\ ~(does = "check" /\ f.token /\ cancelled)
           /\ Alike(f, g) /\ LateIs(f, g, does \in Entries) /\ Go(t, g)
  <2> DEFINE entry == does \in Entries
  <2>1. entry \in BOOLEAN /\ LateIs(frame[t], g, entry)
    OBVIOUS
  <2> HIDE DEF entry
  <2>2. entry <=> does \in Entries
    BY DEF entry
  <2>3. QED
    BY <2>1, <2>2, GoFits
<1>4. IsFrame(f) => /\ Alike(f, f) /\ LateIs(f, f, FALSE)
                    /\ Alike(f, Entering(f)) /\ LateIs(f, Entering(f), TRUE)
  BY EnteringAlike
<1>5. \A answers : IsFrame(f) => /\ Alike(f, Collected(f, answers))
                                 /\ LateIs(f, Collected(f, answers), FALSE)
                                 /\ Alike(f, Collected(Entering(f), answers))
                                 /\ LateIs(f, Collected(Entering(f), answers), TRUE)
  BY <1>4, CollectedAlike DEF LateIs
<1> HIDE DEF f
<1>6. CASE CheckToken(t)
  <2>1. At(t, "check") /\ "check" \in Does \ {"enter", "leave"} /\ "check" \notin Entries
    BY <1>6 DEF CheckToken, Does, Entries
  <2>2. CASE f.token /\ cancelled
    BY <1>0, <1>1, <1>2, <1>6, <2>1, <2>2 DEF CheckToken, f
  <2>3. CASE ~(f.token /\ cancelled)
    <3>1. Go(t, f)
      BY <1>6, <2>3 DEF CheckToken, f
    <3>2. ("check" \in Entries) = FALSE
      BY <2>1
    <3>3. QED
      BY <1>0, <1>3, <1>4, <2>1, <2>3, <3>1, <3>2
  <2>4. QED
    BY <2>2, <2>3
<1>7. CASE EnterLean(t)
  <2>1. PICK does \in {"name", "list"} : At(t, does)
    BY <1>7 DEF EnterLean
  <2>2. does \in Does \ {"enter", "leave"} /\ (does \in Entries) = TRUE /\ does # "check"
    BY DEF Does, Entries
  <2>3. CASE Go(t, Entering(f))
    BY <1>0, <1>3, <1>4, <2>1, <2>2, <2>3
  <2>4. CASE End(t, "lean")
    BY <1>0, <1>1, <1>2, <2>1, <2>2, <2>4
  <2>5. QED
    BY <1>7, <2>3, <2>4 DEF EnterLean, f
<1>8. CASE SourceRoots(t)
  <2>1. /\ At(t, "roots") /\ "roots" \in Does \ {"enter", "leave"}
        /\ ("roots" \in Entries) = FALSE
    BY <1>8 DEF SourceRoots, Does, Entries
  <2>2. CASE Go(t, f)
    BY <1>0, <1>3, <1>4, <2>1, <2>2
  <2>3. CASE End(t, "io")
    BY <1>0, <1>1, <1>2, <2>1, <2>3
  <2>4. QED
    BY <1>8, <2>2, <2>3 DEF SourceRoots, f
<1>9. CASE OptionalShim(t)
  <2>1. /\ At(t, "shim") /\ "shim" \in Does \ {"enter", "leave"}
        /\ ("shim" \in Entries) = FALSE
    BY <1>9 DEF OptionalShim, Does, Entries
  <2>2. CASE Go(t, f)
    BY <1>0, <1>3, <1>4, <2>1, <2>2
  <2>3. CASE End(t, "unsupported")
    BY <1>0, <1>1, <1>2, <2>1, <2>3
  <2>4. QED
    BY <1>9, <2>2, <2>3 DEF OptionalShim, f
<1>10. CASE CallLean(t)
  <2>1. /\ At(t, "call") /\ "call" \in Does \ {"enter", "leave"}
        /\ ("call" \in Entries) = TRUE
    BY <1>10 DEF CallLean, Does, Entries
  <2>2. CASE Go(t, Collected(Entering(f), <<Result(t, Item(t))>>))
    BY <1>0, <1>3, <1>5, <2>1, <2>2
  <2>3. CASE \E how \in {"lean", "missing"} : End(t, how)
    BY <1>0, <1>1, <1>2, <2>1, <2>3
  <2>4. QED
    BY <1>10, <2>2, <2>3 DEF CallLean, f
<1>11. CASE CallBulk(t)
  <2>1. PICK does \in {"all", "one"} : At(t, does)
    BY <1>11 DEF CallBulk
  <2>2. does \in Does \ {"enter", "leave"} /\ (does \in Entries) = TRUE /\ does # "check"
    BY DEF Does, Entries
  <2>3. CASE \E answers : Go(t, Collected(Entering(f), answers))
    BY <1>0, <1>3, <1>5, <2>1, <2>2, <2>3
  <2>4. CASE End(t, "lean")
    BY <1>0, <1>1, <1>2, <2>1, <2>2, <2>4
  <2>5. QED
    BY <1>11, <2>3, <2>4 DEF CallBulk, f
<1>12. CASE Work(t)
  <2>1. /\ At(t, "work") /\ "work" \in Does \ {"enter", "leave"}
        /\ ("work" \in Entries) = FALSE
    BY <1>12 DEF Work, Does, Entries
  <2>2. CASE Go(t, Collected(f, <<Result(t, Item(t))>>))
    BY <1>0, <1>3, <1>5, <2>1, <2>2
  <2>3. CASE End(t, "lean")
    BY <1>0, <1>1, <1>2, <2>1, <2>3
  <2>4. QED
    BY <1>12, <2>2, <2>3 DEF Work, f
<1>13. CASE ZipNames(t)
  <2>1. /\ At(t, "zip") /\ "zip" \in Does \ {"enter", "leave"}
        /\ ("zip" \in Entries) = FALSE
    BY <1>13 DEF ZipNames, Does, Entries
  <2>2. CASE Go(t, f)
    BY <1>0, <1>3, <1>4, <2>1, <2>2
  <2>3. CASE End(t, "missing")
    BY <1>0, <1>1, <1>2, <2>1, <2>3
  <2>4. QED
    BY <1>13, <2>2, <2>3 DEF ZipNames, f
<1>14. QED
  BY <1>6, <1>7, <1>8, <1>9, <1>10, <1>11, <1>12, <1>13

LEMMA NotLateTwice ==
  ASSUME NEW f, NEW c \in BOOLEAN, FrameFits(f, c), f.outcome = "running", f.do # <<>>,
         f.do[1].does \in Entries
  PROVE  f.late = 0
<1>1. f.do \in Seq(Instr) /\ f.late \in {0, 1} /\ (f.late = 1 => Tight(f.do))
  BY DEF FrameFits, FrameTypeOK, RunningFits
<1>2. QED
  BY <1>1, TightTail

LEMMA ReportFits ==
  ASSUME FramesFit, cancelled \in BOOLEAN, NEW t \in Threads, Report(t)
  PROVE  CallMoves(t)
<1> DEFINE f == frame[t]
           g == [f EXCEPT !.panicked = TRUE, !.do = <<>>, !.outcome = "panic"]
<1>1. At(t, "report") /\ "report" \notin Entries
  BY DEF Report, Entries
<1>2. /\ FrameFits(f, cancelled) /\ f.outcome = "running" /\ f.do \in Seq(Instr)
      /\ f.do # <<>> /\ f.do[1].does = "report"
  BY <1>1, AtIs
<1>3. IsFrame(f) /\ FrameTypeOK(f) /\ Formed(f.do, f.bridge # 0)
  BY <1>2 DEF FrameFits, RunningFits
<1>4. f.bridge = 0
  BY <1>2, <1>3, FormedHead
<1>5. CASE Go(t, IF f.sink THEN Ticked(f, Item(t)) ELSE f)
  <2> DEFINE h == IF f.sink THEN Ticked(f, Item(t)) ELSE f
             entry == FALSE
  <2>1. Alike(f, h) /\ LateIs(f, h, entry)
    BY <1>3, EnteringAlike, TickedAlike
  <2> HIDE DEF h
  <2>2. entry \in BOOLEAN /\ (entry <=> "report" \in Entries)
    BY <1>1
  <2> HIDE DEF entry
  <2>3. QED
    BY <1>1, <1>5, <2>1, <2>2, GoFits DEF h
<1>6. CASE /\ frame' = [frame EXCEPT ![t].panicked = TRUE, ![t].do = <<>>, ![t].outcome = "panic"]
           /\ UNCHANGED registryVars
  <2>1. frame' = [frame EXCEPT ![t] = g]
    BY <1>6
  <2>2. frame'[t] = g
    BY <2>1 DEF FramesFit
  <2> HIDE DEF f
  <2>3. /\ IsFrame(g) /\ g.method = f.method /\ g.names = f.names /\ g.token = f.token
        /\ g.sink = f.sink /\ g.panicked = TRUE /\ g.late = f.late
        /\ g.do = <<>> /\ g.bridge = f.bridge /\ g.outcome = "panic"
    BY <1>3 DEF IsFrame, Fields
  <2> HIDE DEF g
  <2>4. FrameFits(g, cancelled)
    <3>1. "panic" \in Ends /\ <<>> \in Seq(Instr)
      BY DEF Ends, CallOutcomes
    <3>2. FrameTypeOK(g)
      BY <1>3, <2>3, <3>1 DEF FrameTypeOK
    <3>3. QED
      BY <1>4, <2>3, <3>2 DEF FrameFits
  <2>5. Moves(t, frame[t].bridge, frame'[t].bridge)
    BY <1>6, <2>2, <2>3 DEF Moves, f
  <2>6. QED
    BY <2>1, <2>2, <2>4, <2>5 DEF CallMoves
<1>7. QED
  BY <1>5, <1>6 DEF Report

LEMMA EnterFits ==
  ASSUME FramesFit, cancelled \in BOOLEAN, RegistryTypeOK, NEW t \in Threads, Enter(t)
  PROVE  CallMoves(t)
<1> DEFINE f == frame[t]
           e == Entering(f)
           g == [[e EXCEPT !.do = Tail(@)] EXCEPT !.bridge = Allocated]
<1>1. At(t, "enter") /\ "enter" \in Entries
  BY DEF Enter, Entries
<1>2. /\ FrameFits(f, cancelled) /\ f.outcome = "running" /\ f.do \in Seq(Instr)
      /\ f.do # <<>> /\ f.do[1].does = "enter"
  BY <1>1, AtIs
<1>3. IsFrame(f) /\ FrameTypeOK(f) /\ Formed(f.do, f.bridge # 0) /\ ~f.panicked
  BY <1>2 DEF FrameFits, RunningFits
<1>4. f.bridge = 0 /\ f.late = 0
  BY <1>1, <1>2, <1>3, FormedHead, NotLateTwice
<1>5. CASE CanRegister
  <2>1. frame' = [frame EXCEPT ![t] = g] /\ Register(t)
    BY <1>5 DEF Enter, Advanced
  <2>2. frame'[t] = g
    BY <2>1 DEF FramesFit
  <2>3. Alike(f, e) /\ LateIs(f, e, TRUE)
    BY <1>3, EnteringAlike
  <2> HIDE DEF e
  <2>4. /\ IsFrame(g) /\ g.method = e.method /\ g.names = e.names /\ g.token = e.token
        /\ g.sink = e.sink /\ g.do = Tail(e.do) /\ g.bridge = Allocated
        /\ g.outcome = e.outcome /\ g.panicked = e.panicked /\ g.late = e.late
    BY <2>3 DEF Alike, IsFrame, Fields
  <2> HIDE DEF g
  <2>5. Allocated \in Ids
    BY <1>5, AllocatedIsFree DEF Free
  <2>6. Allocated \in 0..(IdSpace - 1) /\ Allocated # 0
    BY <2>5, RegistryAssumption DEF Ids
  <2>7. /\ e.method = f.method /\ e.names = f.names /\ e.token = f.token
        /\ e.sink = f.sink /\ e.do = f.do
        /\ e.outcome = f.outcome /\ e.panicked = f.panicked
        /\ e.late = IF f.token /\ cancelled THEN f.late + 1 ELSE f.late
    BY <2>3 DEF Alike, LateIs
  <2> HIDE DEF f
  <2>8. FrameTypeOK(g)
    <3>1. Tail(f.do) \in Seq(Instr)
      BY <1>2, TailIs
    <3>2. g.late \in {0, 1}
      BY <1>4, <2>4, <2>7
    <3>3. QED
      BY <1>3, <2>4, <2>6, <2>7, <3>1, <3>2 DEF FrameTypeOK
  <2>9. FrameFits(g, cancelled)
    <3>1. g.outcome = "running" /\ g.do = Tail(f.do) /\ g.token = f.token /\ ~g.panicked
      BY <1>2, <1>3, <2>4, <2>7
    <3>2. ~(f.do[1].does = "check" /\ f.token /\ cancelled)
      BY <1>2
    <3>3. g.late = IF f.do[1].does \in Entries /\ f.token /\ cancelled
                   THEN f.late + 1 ELSE f.late
      BY <1>1, <1>2, <2>4, <2>7
    <3>4. (g.bridge # 0) <=> (f.do[1].does = "enter" \/ (f.bridge # 0 /\ f.do[1].does # "leave"))
      BY <1>2, <2>4, <2>6
    <3>5. QED
      BY <1>2, <2>4, <2>8, <3>1, <3>2, <3>3, <3>4, AdvancedFits
  <2>10. Moves(t, frame[t].bridge, frame'[t].bridge)
    BY <1>4, <1>5, <2>1, <2>2, <2>4 DEF Moves, f
  <2>11. QED
    BY <2>1, <2>2, <2>9, <2>10 DEF CallMoves
<1>6. CASE ~CanRegister
  <2>1. Running(t) /\ End(t, "registry") /\ "registry" \in Ends
    BY <1>1, <1>6 DEF Enter, At, Ends, CallOutcomes
  <2>2. QED
    BY <2>1, EndFits
<1>7. QED
  BY <1>5, <1>6

LEMMA LeaveFits ==
  ASSUME FramesFit, cancelled \in BOOLEAN, NEW t \in Threads, Leave(t)
  PROVE  CallMoves(t)
<1> DEFINE f == frame[t]
           g == [[f EXCEPT !.do = Tail(@)] EXCEPT !.bridge = 0]
<1>1. At(t, "leave") /\ "leave" \notin Entries
  BY DEF Leave, Entries
<1>2. /\ FrameFits(f, cancelled) /\ f.outcome = "running" /\ f.do \in Seq(Instr)
      /\ f.do # <<>> /\ f.do[1].does = "leave"
  BY <1>1, AtIs
<1>3. IsFrame(f) /\ FrameTypeOK(f) /\ Formed(f.do, f.bridge # 0) /\ ~f.panicked
  BY <1>2 DEF FrameFits, RunningFits
<1>4. f.bridge # 0
  BY <1>2, <1>3, FormedHead
<1>5. CASE /\ frame' = [frame EXCEPT ![t] = [Advanced(@) EXCEPT !.bridge = 0]]
           /\ Unregister(frame[t].bridge)
  <2>1. frame' = [frame EXCEPT ![t] = g]
    BY <1>5 DEF Advanced
  <2>2. frame'[t] = g
    BY <2>1 DEF FramesFit
  <2> HIDE DEF f
  <2>3. /\ IsFrame(g) /\ g.method = f.method /\ g.names = f.names /\ g.token = f.token
        /\ g.sink = f.sink /\ g.panicked = f.panicked /\ g.late = f.late
        /\ g.do = Tail(f.do) /\ g.bridge = 0 /\ g.outcome = f.outcome
    BY <1>3 DEF IsFrame, Fields
  <2> HIDE DEF g
  <2>4. FrameTypeOK(g)
    <3>1. Tail(f.do) \in Seq(Instr) /\ 0 \in 0..(IdSpace - 1)
      BY <1>2, TailIs, RegistryAssumption
    <3>2. QED
      BY <1>3, <2>3, <3>1 DEF FrameTypeOK
  <2>5. FrameFits(g, cancelled)
    <3>1. g.outcome = "running" /\ g.do = Tail(f.do) /\ g.token = f.token /\ ~g.panicked
      BY <1>2, <1>3, <2>3
    <3>2. ~(f.do[1].does = "check" /\ f.token /\ cancelled)
      BY <1>2
    <3>3. g.late = IF f.do[1].does \in Entries /\ f.token /\ cancelled
                   THEN f.late + 1 ELSE f.late
      BY <1>1, <1>2, <2>3
    <3>4. (g.bridge # 0) <=> (f.do[1].does = "enter" \/ (f.bridge # 0 /\ f.do[1].does # "leave"))
      BY <1>2, <2>3
    <3>5. QED
      BY <1>2, <2>3, <2>4, <3>1, <3>2, <3>3, <3>4, AdvancedFits
  <2>6. Moves(t, frame[t].bridge, frame'[t].bridge)
    BY <1>4, <1>5, <2>2, <2>3 DEF Moves, f
  <2>7. QED
    BY <2>1, <2>2, <2>5, <2>6 DEF CallMoves
<1>6. CASE End(t, "conversion")
  <2>1. Running(t) /\ "conversion" \in Ends
    BY <1>1 DEF At, Ends, CallOutcomes
  <2>2. QED
    BY <1>6, <2>1, EndFits
<1>7. QED
  BY <1>5, <1>6 DEF Leave

\* Lean calls back only while the call has its bridge, and reaches its sink.
LEMMA TickFits ==
  ASSUME FramesFit, cancelled \in BOOLEAN, NEW t \in Threads, Tick(t),
         frame[t].bridge # 0 => Reaches(frame[t].bridge, t)
  PROVE  CallMoves(t)
<1> DEFINE f == frame[t]
           g == [f EXCEPT !.panicked = TRUE, !.do = <<>>, !.outcome = "panic", !.bridge = 0]
<1>1. At(t, "tick") /\ "tick" \notin Entries
  BY DEF Tick, Entries
<1>2. /\ FrameFits(f, cancelled) /\ f.outcome = "running" /\ f.do \in Seq(Instr)
      /\ f.do # <<>> /\ f.do[1].does = "tick"
  BY <1>1, AtIs
<1>3. IsFrame(f) /\ FrameTypeOK(f) /\ Formed(f.do, f.bridge # 0)
  BY <1>2 DEF FrameFits, RunningFits
<1>4. f.bridge # 0
  BY <1>2, <1>3, FormedHead
<1>5. Reaches(f.bridge, t) /\ ~Stale(f.bridge)
  BY <1>4 DEF Reaches, Stale
<1>6. CASE Go(t, Ticked(f, Item(t)))
  <2> DEFINE entry == FALSE
  <2>1. Alike(f, Ticked(f, Item(t))) /\ LateIs(f, Ticked(f, Item(t)), entry)
    BY <1>3, TickedAlike
  <2>2. entry \in BOOLEAN /\ (entry <=> "tick" \in Entries)
    BY <1>1
  <2> HIDE DEF entry
  <2>3. QED
    BY <1>1, <1>6, <2>1, <2>2, GoFits
<1>7. CASE /\ frame' = [frame EXCEPT ![t].panicked = TRUE, ![t].do = <<>>,
                                     ![t].outcome = "panic", ![t].bridge = 0]
           /\ Unregister(frame[t].bridge)
  <2>1. frame' = [frame EXCEPT ![t] = g]
    BY <1>7
  <2>2. frame'[t] = g
    BY <2>1 DEF FramesFit
  <2> HIDE DEF f
  <2>3. /\ IsFrame(g) /\ g.method = f.method /\ g.names = f.names /\ g.token = f.token
        /\ g.sink = f.sink /\ g.panicked = TRUE /\ g.late = f.late
        /\ g.do = <<>> /\ g.bridge = 0 /\ g.outcome = "panic"
    BY <1>3 DEF IsFrame, Fields
  <2> HIDE DEF g
  <2>4. FrameFits(g, cancelled)
    <3>1. "panic" \in Ends /\ <<>> \in Seq(Instr) /\ 0 \in 0..(IdSpace - 1)
      BY RegistryAssumption DEF Ends, CallOutcomes
    <3>2. FrameTypeOK(g)
      BY <1>3, <2>3, <3>1 DEF FrameTypeOK
    <3>3. QED
      BY <2>3, <3>2 DEF FrameFits
  <2>5. Moves(t, frame[t].bridge, frame'[t].bridge)
    BY <1>4, <1>7, <2>2, <2>3 DEF Moves, f
  <2>6. QED
    BY <2>1, <2>2, <2>4, <2>5 DEF CallMoves
<1>8. QED
  BY <1>5, <1>6, <1>7 DEF Tick

LEMMA StepsMove ==
  ASSUME FramesFit, cancelled \in BOOLEAN, RegistryTypeOK, NEW t \in Threads, Steps(t),
         frame[t].bridge # 0 => Reaches(frame[t].bridge, t)
  PROVE  CallMoves(t) /\ UNCHANGED <<cancelled, calls>>
<1>1. UNCHANGED <<cancelled, calls>>
  BY DEF Steps, CheckToken, EnterLean, SourceRoots, OptionalShim, CallLean, CallBulk, Report,
         Enter, Work, Tick, Leave, ZipNames, Return
<1>2. CASE Return(t)
  <2>1. Running(t) /\ End(t, "ok") /\ "ok" \in Ends
    BY <1>2 DEF Return, Ends, CallOutcomes
  <2>2. QED
    BY <1>1, <2>1, EndFits
<1>3. QED
  BY <1>1, <1>2, PlainSteps, ReportFits, EnterFits, LeaveFits, TickFits DEF Steps

\* A call that starts has a good program, and no bridge yet.
LEMMA StartMoves ==
  ASSUME FramesFit, NEW t \in Threads, NEW m \in Methods, StartCall(t, m)
  PROVE  CallMoves(t) /\ ~Running(t) /\ UNCHANGED <<registryVars, cancelled>>
         /\ calls' = calls + 1 /\ calls < MaxCalls
<1>1. PICK token \in BOOLEAN, sink \in BOOLEAN, names \in NamesFor(m) :
        frame' = [frame EXCEPT ![t] =
          [NoFrame EXCEPT !.method = m, !.names = names, !.token = token, !.sink = sink,
                          !.do = Program(m, names, token, sink), !.outcome = "running"]]
  BY DEF StartCall
<1> DEFINE p == Program(m, names, token, sink)
<1>2. Good(p)
  BY ProgramIsGood
<1> HIDE DEF p
<1> DEFINE g == [NoFrame EXCEPT !.method = m, !.names = names, !.token = token, !.sink = sink,
                                !.do = p, !.outcome = "running"]
<1>3. /\ IsFrame(g) /\ g.method = m /\ g.names = names /\ g.token = token /\ g.sink = sink
      /\ g.do = p /\ g.outcome = "running" /\ g.bridge = 0 /\ g.late = 0 /\ g.panicked = FALSE
  BY DEF NoFrame, IsFrame, Fields
<1>4. frame' = [frame EXCEPT ![t] = g]
  BY <1>1 DEF p
<1> HIDE DEF g
<1>5. frame'[t] = g
  BY <1>4 DEF FramesFit
<1>6. FrameFits(g, cancelled)
  <2>1. m \in Method /\ names \in Batches
    BY HostCallsAssumption DEF NamesFor
  <2>2. FrameTypeOK(g)
    <3>1. 0 \in 0..(IdSpace - 1) /\ p \in Seq(Instr) /\ 0 \in {0, 1}
      BY <1>2, RegistryAssumption DEF Good
    <3>2. QED
      BY <1>3, <2>1, <3>1 DEF FrameTypeOK
  <2>3. Formed(g.do, g.bridge # 0)
    <3>1. (g.bridge # 0) = FALSE
      BY <1>3
    <3>2. QED
      BY <1>2, <1>3, <3>1 DEF Good
  <2>4. RunningFits(g, cancelled)
    BY <1>2, <1>3, <2>3 DEF RunningFits, Good
  <2>5. QED
    BY <1>3, <2>2, <2>4 DEF FrameFits
<1>7. ~Running(t) /\ UNCHANGED <<registryVars, cancelled>> /\ calls' = calls + 1
      /\ calls < MaxCalls
  BY DEF StartCall
<1>8. frame[t].bridge = 0
  BY <1>7 DEF FramesFit, FrameFits, Running
<1>9. Moves(t, frame[t].bridge, frame'[t].bridge)
  BY <1>3, <1>5, <1>7, <1>8 DEF Moves
<1>10. QED
  BY <1>4, <1>5, <1>6, <1>7, <1>9 DEF CallMoves

-----------------------------------------------------------------------------
(* Calls on their own                                                      *)

\* The registry holds these ids and no others, each for its thread.
ServedBy(reg, ids) ==
  /\ DOMAIN reg = UNION {ids[t] : t \in Threads}
  /\ \A t \in Threads : \A id \in ids[t] : reg[id] = t

LEMMA MovesServe ==
  ASSUME RegistryTypeOK, NEW ids, ids = [t \in Threads |-> ids[t]], ServedBy(registry, ids),
         NEW t \in Threads, NEW old, old # 0 => old \in ids[t], NEW new, Moves(t, old, new),
         NEW left, left = [ids EXCEPT ![t] = (ids[t] \ {old}) \cup ({new} \ {0})]
  PROVE  RegistryTypeOK' /\ ServedBy(registry', left)
<1>1. /\ DOMAIN registry = UNION {ids[u] : u \in Threads}
      /\ \A u \in Threads : \A id \in ids[u] : registry[id] = u /\ id \in DOMAIN registry
  BY DEF ServedBy
<1>2. \A u \in Threads : left[u] = IF u = t THEN (ids[t] \ {old}) \cup ({new} \ {0}) ELSE ids[u]
  OBVIOUS
<1>3. CASE UNCHANGED registryVars /\ new = old
  <2>1. 0 \notin DOMAIN registry
    BY DEF RegistryTypeOK, Ids
  <2>2. 0 \notin ids[t]
    BY <1>1, <2>1
  <2>3. (ids[t] \ {old}) \cup ({new} \ {0}) = ids[t]
    BY <1>3, <2>2
  <2>4. left = ids
    BY <2>3
  <2>5. RegistryTypeOK' /\ registry' = registry
    BY <1>3 DEF RegistryTypeOK, registryVars
  <2>6. QED
    BY <2>4, <2>5
<1>4. CASE old # 0 /\ Unregister(old) /\ new = 0
  <2>1. /\ RegistryTypeOK' /\ DOMAIN registry' = DOMAIN registry \ {old}
        /\ \A id \in DOMAIN registry \ {old} : registry'[id] = registry[id]
    BY <1>4, UnregisterRemoves
  <2>2. old \in ids[t] /\ registry[old] = t
    BY <1>1, <1>4
  <2>3. \A u \in Threads : left[u] = ids[u] \ {old}
    BY <1>1, <1>2, <1>4, <2>2
  <2>4. DOMAIN registry' = UNION {left[u] : u \in Threads}
    BY <1>1, <2>1, <2>3
  <2>5. \A u \in Threads : \A id \in left[u] : registry'[id] = u
    BY <1>1, <2>1, <2>3
  <2>6. QED
    BY <2>1, <2>4, <2>5 DEF ServedBy
<1>5. CASE old = 0 /\ CanRegister /\ Register(t) /\ new = Allocated
  <2>1. /\ RegistryTypeOK' /\ new \in Ids /\ new \notin DOMAIN registry
        /\ DOMAIN registry' = DOMAIN registry \cup {new} /\ registry'[new] = t
        /\ \A id \in DOMAIN registry : registry'[id] = registry[id]
    <3>1. t \in Owners /\ CanRegister /\ Register(t)
      BY <1>5 DEF Threads
    <3>2. /\ RegistryTypeOK' /\ Allocated \in Ids /\ Allocated \notin DOMAIN registry
          /\ DOMAIN registry' = DOMAIN registry \cup {Allocated} /\ registry'[Allocated] = t
          /\ \A id \in DOMAIN registry : registry'[id] = registry[id]
      BY <3>1, RegisterAdds
    <3>3. QED
      BY <1>5, <3>2
  <2>2. new # 0 /\ 0 \notin DOMAIN registry
    BY <2>1 DEF Ids, RegistryTypeOK
  <2>3. 0 \notin ids[t]
    BY <1>1, <2>2
  <2>4. left[t] = ids[t] \cup {new} /\ \A u \in Threads \ {t} : left[u] = ids[u]
    BY <1>2, <1>5, <2>2, <2>3
  <2>5. DOMAIN registry' = UNION {left[u] : u \in Threads}
    BY <1>1, <2>1, <2>4
  <2>6. \A u \in Threads : \A id \in left[u] : registry'[id] = u
    BY <1>1, <2>1, <2>4
  <2>7. QED
    BY <2>1, <2>5, <2>6 DEF ServedBy
<1>6. QED
  BY <1>3, <1>4, <1>5 DEF Moves

CallBridges == [t \in Threads |-> {frame[t].bridge} \ {0}]

\* Every bridge in the registry is that of a call that is inside Lean, and
\* what each call has left to do fits what it did.
CallsInv ==
  /\ RegistryTypeOK /\ cancelled \in BOOLEAN /\ calls \in 0..MaxCalls /\ FramesFit
  /\ ServedBy(registry, CallBridges)

LEMMA NoFrameFits == ASSUME NEW c PROVE FrameFits(NoFrame, c)
<1>1. IsFrame(NoFrame)
  BY DEF NoFrame, IsFrame, Fields
<1>2. /\ NoFrame.method = "none" /\ NoFrame.names = <<>> /\ NoFrame.token = FALSE
      /\ NoFrame.sink = FALSE /\ NoFrame.do = <<>> /\ NoFrame.bridge = 0
      /\ NoFrame.outcome = "none" /\ NoFrame.late = 0 /\ NoFrame.panicked = FALSE
  BY DEF NoFrame
<1>3. "none" \in Ends /\ <<>> \in Seq(Instr) /\ 0 \in 0..(IdSpace - 1)
  BY RegistryAssumption DEF Ends, CallOutcomes
<1>4. FrameTypeOK(NoFrame)
  BY <1>2, <1>3 DEF FrameTypeOK
<1>5. QED
  BY <1>1, <1>2, <1>4 DEF FrameFits

LEMMA CallsInitInv == CallsInit => CallsInv
<1> SUFFICES ASSUME CallsInit PROVE CallsInv
  OBVIOUS
<1>1. registry = <<>> /\ nextId = 1 /\ DOMAIN registry = {}
  BY DEF CallsInit, RegistryInit
<1>2. RegistryTypeOK
  <2>1. registry \in [DOMAIN registry -> Owners]
    BY <1>1
  <2>2. nextId \in 0..(IdSpace - 1)
    BY <1>1, RegistryAssumption
  <2>3. QED
    BY <1>1, <2>1, <2>2 DEF RegistryTypeOK
<1>3. frame = [t \in Threads |-> NoFrame]
  BY DEF CallsInit
<1>4. FramesFit
  BY <1>3, NoFrameFits DEF FramesFit
<1>5. \A t \in Threads : CallBridges[t] = {}
  BY <1>3 DEF CallBridges, NoFrame
<1>6. ServedBy(registry, CallBridges)
  BY <1>1, <1>5 DEF ServedBy
<1>7. cancelled \in BOOLEAN /\ calls \in 0..MaxCalls
  <2>1. 0 \in 0..MaxCalls
    BY HostCallsAssumption
  <2>2. QED
    BY <2>1 DEF CallsInit
<1>8. QED
  BY <1>2, <1>4, <1>6, <1>7 DEF CallsInv

\* A step of one call leaves the others as they were.
LEMMA MoveKeepsFrames ==
  ASSUME FramesFit, NEW t \in Threads, CallMoves(t), UNCHANGED cancelled
  PROVE  FramesFit' /\ \A u \in Threads \ {t} : frame'[u] = frame[u]
<1>1. frame' = [frame EXCEPT ![t] = frame'[t]] /\ FrameFits(frame'[t], cancelled)
  BY DEF CallMoves
<1>2. \A u \in Threads \ {t} : frame'[u] = frame[u]
  BY <1>1 DEF FramesFit
<1>3. frame' = [u \in Threads |-> frame'[u]]
  BY <1>1 DEF FramesFit
<1>4. \A u \in Threads : FrameFits(frame'[u], cancelled)
  BY <1>1, <1>2 DEF FramesFit
<1>5. QED
  BY <1>2, <1>3, <1>4 DEF FramesFit

LEMMA MoveKeepsCallsInv ==
  ASSUME CallsInv, NEW t \in Threads, CallMoves(t), UNCHANGED cancelled,
         calls' \in 0..MaxCalls
  PROVE  CallsInv'
<1>1. FramesFit' /\ \A u \in Threads \ {t} : frame'[u] = frame[u]
  BY MoveKeepsFrames DEF CallsInv
<1>2. PICK old, new : old = frame[t].bridge /\ new = frame'[t].bridge
  OBVIOUS
<1>3. PICK ids : ids = CallBridges
  OBVIOUS
<1>4. ids = [u \in Threads |-> ids[u]] /\ ids[t] = {old} \ {0}
      /\ \A u \in Threads : ids[u] = {frame[u].bridge} \ {0}
  BY <1>2, <1>3 DEF CallBridges
<1>5. PICK left : left = [ids EXCEPT ![t] = (ids[t] \ {old}) \cup ({new} \ {0})]
  OBVIOUS
<1>6. RegistryTypeOK' /\ ServedBy(registry', left)
  <2>1. Moves(t, old, new)
    BY <1>2 DEF CallMoves
  <2>2. old # 0 => old \in ids[t]
    BY <1>4
  <2>3. RegistryTypeOK /\ ServedBy(registry, ids)
    BY <1>3 DEF CallsInv
  <2>4. QED
    BY <1>4, <1>5, <2>1, <2>2, <2>3, MovesServe
<1>7. left = [u \in Threads |-> {frame'[u].bridge} \ {0}]
  <2>1. \A u \in Threads : left[u] = {frame'[u].bridge} \ {0}
    BY <1>1, <1>2, <1>4, <1>5
  <2>2. left = [u \in Threads |-> left[u]]
    BY <1>4, <1>5
  <2>3. QED
    BY <2>1, <2>2
<1>8. ServedBy(registry', CallBridges')
  BY <1>6, <1>7 DEF CallBridges
<1>9. cancelled' \in BOOLEAN
  BY DEF CallsInv
<1>10. QED
  BY <1>1, <1>6, <1>8, <1>9 DEF CallsInv

LEMMA CallsReach ==
  ASSUME CallsInv, NEW t \in Threads, frame[t].bridge # 0
  PROVE  Reaches(frame[t].bridge, t)
<1>1. frame[t].bridge \in CallBridges[t]
  BY DEF CallBridges
<1>2. QED
  BY <1>1 DEF CallsInv, ServedBy, Reaches

LEMMA CallsNextInv == CallsInv /\ [CallsNext]_callVars => CallsInv'
<1> SUFFICES ASSUME CallsInv, [CallsNext]_callVars PROVE CallsInv'
  OBVIOUS
<1>1. CASE Cancel
  <2>1. \A f : FrameFits(f, FALSE) => FrameFits(f, TRUE)
    <3> SUFFICES ASSUME NEW f, FrameFits(f, FALSE) PROVE FrameFits(f, TRUE)
      OBVIOUS
    <3>1. f.outcome = "running" => RunningFits(f, TRUE)
      BY DEF FrameFits, RunningFits
    <3>2. QED
      BY <3>1 DEF FrameFits
  <2>2. cancelled = FALSE /\ cancelled' = TRUE /\ frame' = frame /\ calls' = calls
        /\ registry' = registry /\ nextId' = nextId
    BY <1>1 DEF Cancel, CallsInv, registryVars
  <2>3. \A t \in Threads : FrameFits(frame[t], TRUE)
    BY <2>1, <2>2 DEF CallsInv, FramesFit
  <2>4. FramesFit'
    BY <2>2, <2>3 DEF CallsInv, FramesFit
  <2>5. RegistryTypeOK' /\ CallBridges' = CallBridges
    BY <2>2 DEF CallsInv, RegistryTypeOK, CallBridges
  <2>6. QED
    BY <2>2, <2>4, <2>5 DEF CallsInv
<1>2. ASSUME NEW t \in Threads, NEW m \in Methods, StartCall(t, m) PROVE CallsInv'
  <2>1. CallMoves(t) /\ UNCHANGED cancelled /\ calls' = calls + 1 /\ calls < MaxCalls
    BY <1>2, StartMoves DEF CallsInv
  <2>2. calls' \in 0..MaxCalls
    BY <2>1, HostCallsAssumption DEF CallsInv
  <2>3. QED
    BY <2>1, <2>2, MoveKeepsCallsInv
<1>3. ASSUME NEW t \in Threads, Steps(t) PROVE CallsInv'
  <2>1. CallMoves(t) /\ UNCHANGED <<cancelled, calls>>
    BY <1>3, CallsReach, StepsMove DEF CallsInv
  <2>2. calls' \in 0..MaxCalls
    BY <2>1 DEF CallsInv
  <2>3. QED
    BY <2>1, <2>2, MoveKeepsCallsInv
<1>4. CASE UNCHANGED callVars
  BY <1>4 DEF CallsInv, callVars, registryVars, RegistryTypeOK, FramesFit, CallBridges
<1>5. QED
  BY <1>1, <1>2, <1>3, <1>4 DEF CallsNext

\* Frames that fit have the types of CallsTypeOK, and what is said of late
\* entries and of panics.
LEMMA FramesOK ==
  ASSUME FramesFit
  PROVE  /\ CancelStops /\ PanicSurfaces
         /\ \A t \in Threads :
              /\ frame[t].method \in Method \cup {"none"} /\ frame[t].names \in Batches \cup {<<>>}
              /\ frame[t].token \in BOOLEAN /\ frame[t].sink \in BOOLEAN
              /\ frame[t].panicked \in BOOLEAN /\ frame[t].late \in Nat
              /\ frame[t].outcome \in CallOutcomes \ {"stale", "misrouted"}
              /\ frame[t].bridge \in 0..(IdSpace - 1)
<1>1. \A t \in Threads : FrameTypeOK(frame[t]) /\ (frame[t].panicked => frame[t].outcome = "panic")
  BY DEF FramesFit, FrameFits
<1>2. Ends \cup {"running"} \subseteq CallOutcomes \ {"stale", "misrouted"}
  BY DEF Ends, CallOutcomes
<1>3. CancelStops
  BY <1>1 DEF CancelStops, FrameTypeOK
<1>4. PanicSurfaces
  BY <1>1 DEF PanicSurfaces
<1>5. QED
  BY <1>1, <1>2, <1>3, <1>4 DEF FrameTypeOK

\* Types of the calls on a session (session.rs, callback.rs).
THEOREM CallsTypeCorrect == CallsSpec => []CallsTypeOK
<1>1. CallsInv => CallsTypeOK
  BY FramesOK DEF CallsInv, CallsTypeOK
<1>2. QED
  BY <1>1, CallsInitInv, CallsNextInv, PTL DEF CallsSpec

\* Once its token is cancelled a call enters Lean at most once more, whichever
\* of its programs it runs and however many items it has (cancellation.rs).
THEOREM CancelIsPrompt == CallsSpec => []CancelStops
<1>1. CallsInv => CancelStops
  BY FramesOK DEF CallsInv
<1>2. QED
  BY <1>1, CallsInitInv, CallsNextInv, PTL DEF CallsSpec

\* While Lean works for a call, the id it was given is live and reaches the
\* sink of that call, so no callback is stale or misrouted, and a panic of the
\* sink is the outcome of the call (callback.rs, progress.rs).
THEOREM SinksAreAlwaysServed == CallsSpec => []SinksAreServed
<1>1. CallsInv => BridgesReachTheirSinks
  <2> SUFFICES ASSUME CallsInv, NEW t \in Threads
               PROVE  /\ frame[t].bridge # 0 => Reaches(frame[t].bridge, t)
                      /\ frame[t].outcome \notin {"stale", "misrouted"}
    BY DEF BridgesReachTheirSinks
  <2>1. frame[t].outcome \notin {"stale", "misrouted"}
    BY FramesOK DEF CallsInv
  <2>2. QED
    BY <2>1, CallsReach
<1>2. CallsInv => SinksAreServed
  BY <1>1, FramesOK DEF CallsInv, SinksAreServed
<1>3. QED
  BY <1>2, CallsInitInv, CallsNextInv, PTL DEF CallsSpec

-----------------------------------------------------------------------------
(* What a bulk method has collected and reported, and what it has left     *)

Collecting == {"call", "work"}
Whole == {"all", "one"}

\* The steps of the program that do one of these are at k+1, k+2, ... n, in turn.
InTurn(p, D, k, n) ==
  /\ \A i \in 1..Len(p) : p[i].does \in D =>
       /\ p[i].at \in (k + 1)..n
       /\ \A j \in (i + 1)..Len(p) : p[j].does \in D => p[i].at < p[j].at
  /\ \A m \in (k + 1)..n : \E i \in 1..Len(p) : p[i].does \in D /\ p[i].at = m

\* All of these come before all of those.
Before(p, D, E) ==
  \A i, j \in 1..Len(p) : p[i].does \in D /\ p[j].does \in E => i < j

\* The answers so far are those of the first names, and what is left gives the
\* others; or one entry into Lean is to give them all.
CollectFits(p, out, answers, n, same) ==
  /\ \A i \in 1..Len(p) : p[i].does = "one" => same
  /\ \E k \in 0..n, w \in {n - 1, n} :
       /\ InTurn(p, Collecting, k, n) /\ InTurn(p, Whole, w, n)
       /\ w = n => out = [i \in 1..k |-> answers[i]]
       /\ w # n => k = n /\ out = <<>>

\* There is a phase of reports on this side, or one of Lean's, or one after the other.
Count(k) == [i \in 1..k |-> i]
TicksFit(p, ticks, n) ==
  /\ Before(p, {"report"}, {"tick"})
  /\ \E reports, inLean \in {0, n} : \E a \in 0..reports, b \in 0..inLean :
       /\ n \in {reports, inLean} /\ (b > 0 => a = reports)
       /\ InTurn(p, {"report"}, a, reports) /\ InTurn(p, {"tick"}, b, inLean)
       /\ ticks = Count(a) \o Count(b)

\* Absent names are looked for at each call, or once all answers are there.
ZipFits(p, out) ==
  /\ Before(p, Collecting \cup Whole, {"zip"})
  /\ \/ \E i \in 1..Len(p) : p[i].does = "zip"
     \/ /\ \A i \in 1..Len(p) : p[i].does \notin Whole \cup {"work"}
        /\ ~Contains(out, "absent")

Answers(f) == [i \in DOMAIN f.names |-> Answer(SingleOf[f.method], f.names[i])]
Queries(f) == SingleOf[f.method] = "query_declaration"

BulkRuns(f) ==
  LET n == Len(f.names)
  IN /\ CollectFits(f.do, f.out, Answers(f), n, Same(f.names))
     /\ f.sink => TicksFit(f.do, f.ticks, n)
     /\ Queries(f) => ZipFits(f.do, f.out)

BulkReturned(f) ==
  /\ f.out = Answers(f)
  /\ f.sink => f.ticks \in {Count(Len(f.names)), Count(Len(f.names)) \o Count(Len(f.names))}
  /\ Queries(f) => ~Contains(f.out, "absent")

BulkFits(f) ==
  f.method \in BulkMethods =>
    /\ f.outcome = "running" => BulkRuns(f)
    /\ f.outcome = "ok" => BulkReturned(f)
    /\ f.outcome = "missing" /\ Queries(f) => Contains(Answers(f), "absent")

BulksFit == \A t \in Threads : BulkFits(frame[t])

LEMMA InTurnTail ==
  ASSUME NEW p \in Seq(Instr), p # <<>>, NEW D, NEW k \in Int, NEW n \in Int, InTurn(p, D, k, n)
  PROVE  /\ p[1].does \notin D => InTurn(Tail(p), D, k, n)
         /\ p[1].does \in D => k < n /\ p[1].at = k + 1 /\ InTurn(Tail(p), D, k + 1, n)
<1> DEFINE q == Tail(p)
<1>1. /\ Len(p) \in Nat /\ Len(p) >= 1 /\ Len(q) = Len(p) - 1
      /\ \A i \in 1..Len(q) : q[i] = p[i + 1] /\ i + 1 \in 1..Len(p)
  BY TailIs
<1> HIDE DEF q
<1>2. 1 \in 1..Len(p)
  BY <1>1
<1>3. \A i \in 1..Len(q) : q[i].does \in D =>
        /\ q[i].at \in (k + 1)..n
        /\ \A j \in (i + 1)..Len(q) : q[j].does \in D => q[i].at < q[j].at
        /\ p[1].does \in D => p[1].at < q[i].at
  <2> SUFFICES ASSUME NEW i \in 1..Len(q), q[i].does \in D
               PROVE  /\ q[i].at \in (k + 1)..n
                      /\ \A j \in (i + 1)..Len(q) : q[j].does \in D => q[i].at < q[j].at
                      /\ p[1].does \in D => p[1].at < q[i].at
    OBVIOUS
  <2>1. i + 1 \in 1..Len(p) /\ q[i] = p[i + 1] /\ i + 1 \in (1 + 1)..Len(p)
    BY <1>1
  <2>2. ASSUME NEW j \in (i + 1)..Len(q), q[j].does \in D PROVE q[i].at < q[j].at
    <3>1. j \in 1..Len(q) /\ j + 1 \in ((i + 1) + 1)..Len(p) /\ q[j] = p[j + 1]
      BY <1>1, <2>2
    <3>2. QED
      BY <2>1, <2>2, <3>1 DEF InTurn
  <2>3. p[1].does \in D => p[1].at < q[i].at
    BY <1>2, <2>1 DEF InTurn
  <2>4. QED
    BY <2>1, <2>2, <2>3 DEF InTurn
<1>4. \A m \in (k + 1)..n : \/ p[1].does \in D /\ p[1].at = m
                            \/ \E i \in 1..Len(q) : q[i].does \in D /\ q[i].at = m
  <2> TAKE m \in (k + 1)..n
  <2>1. PICK i \in 1..Len(p) : p[i].does \in D /\ p[i].at = m
    BY DEF InTurn
  <2>2. CASE i # 1
    <3>1. i - 1 \in 1..Len(q) /\ q[i - 1] = p[i]
      BY <1>1, <2>2
    <3>2. QED
      BY <2>1, <3>1
  <2>3. QED
    BY <2>1, <2>2
<1>5. CASE p[1].does \notin D
  BY <1>3, <1>4, <1>5 DEF InTurn, q
<1>6. CASE p[1].does \in D
  <2>1. p[1].at \in (k + 1)..n
    BY <1>2, <1>6 DEF InTurn
  <2>2. k < n /\ k + 1 \in (k + 1)..n
    BY <2>1
  <2>3. p[1].at = k + 1
    <3> SUFFICES ASSUME p[1].at # k + 1 PROVE FALSE
      OBVIOUS
    <3>1. PICK i \in 1..Len(q) : q[i].does \in D /\ q[i].at = k + 1
      BY <1>4, <2>2
    <3>2. QED
      BY <1>3, <1>6, <2>1, <3>1
  <2>4. \A i \in 1..Len(q) : q[i].does \in D => q[i].at \in ((k + 1) + 1)..n
    BY <1>3, <1>6, <2>3
  <2>5. \A m \in ((k + 1) + 1)..n : \E i \in 1..Len(q) : q[i].does \in D /\ q[i].at = m
    BY <1>4, <2>3
  <2>6. InTurn(q, D, k + 1, n)
    BY <1>3, <2>4, <2>5 DEF InTurn
  <2>7. QED
    BY <1>6, <2>2, <2>3, <2>6 DEF q
<1>7. QED
  BY <1>5, <1>6

\* None of the steps: from any number to itself.
LEMMA NoneInTurn ==
  ASSUME NEW p \in Seq(Instr), NEW D, NEW k \in Int
  PROVE  InTurn(p, D, k, k) <=> \A i \in 1..Len(p) : p[i].does \notin D
<1>1. (k + 1)..k = {}
  OBVIOUS
<1>2. QED
  BY <1>1 DEF InTurn

\* At the end nothing is left.
LEMMA InTurnEnd ==
  ASSUME NEW D, NEW k \in Int, NEW n \in Int, k <= n, InTurn(<<>>, D, k, n)
  PROVE  k = n
<1>1. 1..Len(<<>>) = {}
  OBVIOUS
<1>2. CASE k < n
  <2>1. k + 1 \in (k + 1)..n
    BY <1>2
  <2>2. QED
    BY <1>1, <2>1 DEF InTurn
<1>3. QED
  BY <1>2

LEMMA InTurnJoin ==
  ASSUME NEW p \in Seq(Instr), NEW q \in Seq(Instr), NEW D,
         NEW k \in Int, NEW m \in Int, NEW n \in Int, k <= m, m <= n,
         InTurn(p, D, k, m), InTurn(q, D, m, n)
  PROVE  InTurn(p \o q, D, k, n)
<1> DEFINE c == p \o q
<1>1. /\ Len(c) = Len(p) + Len(q) /\ Len(p) \in Nat /\ Len(q) \in Nat
      /\ \A i \in 1 .. Len(p) + Len(q) : c[i] = IF i <= Len(p) THEN p[i] ELSE q[i - Len(p)]
  BY ConcatProperties
<1> HIDE DEF c
<1>2. \A i \in 1..Len(p) : i \in 1..Len(c) /\ c[i] = p[i]
  BY <1>1
<1>3. \A i \in 1..Len(q) : i + Len(p) \in 1..Len(c) /\ c[i + Len(p)] = q[i]
  <2> TAKE i \in 1..Len(q)
  <2>1. i + Len(p) \in 1 .. Len(p) + Len(q) /\ ~(i + Len(p) <= Len(p)) /\ (i + Len(p)) - Len(p) = i
    BY <1>1
  <2>2. QED
    BY <1>1, <2>1
<1>4. \A i \in 1..Len(c) : \/ i \in 1..Len(p)
                           \/ i > Len(p) /\ i - Len(p) \in 1..Len(q) /\ c[i] = q[i - Len(p)]
  <2> TAKE i \in 1..Len(c)
  <2>1. i \in 1 .. Len(p) + Len(q)
    BY <1>1
  <2>2. CASE i <= Len(p)
    BY <1>1, <2>1, <2>2
  <2>3. CASE ~(i <= Len(p))
    BY <1>1, <2>1, <2>3
  <2>4. QED
    BY <2>2, <2>3
<1>5. ASSUME NEW i \in 1..Len(c), c[i].does \in D
      PROVE  /\ c[i].at \in (k + 1)..n
             /\ \A j \in (i + 1)..Len(c) : c[j].does \in D => c[i].at < c[j].at
  <2>1. CASE i \in 1..Len(p)
    <3>1. c[i] = p[i] /\ p[i].at \in (k + 1)..m
      BY <1>2, <1>5, <2>1 DEF InTurn
    <3>2. ASSUME NEW j \in (i + 1)..Len(c), c[j].does \in D PROVE c[i].at < c[j].at
      <4>1. j \in 1..Len(c)
        BY <1>1, <2>1
      <4>2. CASE j \in 1..Len(p)
        <5>1. j \in (i + 1)..Len(p) /\ c[j] = p[j]
          BY <1>2, <4>2, <2>1
        <5>2. QED
          BY <1>5, <2>1, <3>1, <3>2, <5>1 DEF InTurn
      <4>3. CASE j > Len(p) /\ j - Len(p) \in 1..Len(q) /\ c[j] = q[j - Len(p)]
        <5>1. q[j - Len(p)].at \in (m + 1)..n
          BY <3>2, <4>3 DEF InTurn
        <5>2. c[i].at \in (k + 1)..m /\ c[j].at \in (m + 1)..n
          BY <3>1, <4>3, <5>1
        <5>3. \A a \in (k + 1)..m, b \in (m + 1)..n : a < b
          OBVIOUS
        <5>4. QED
          BY <5>2, <5>3, Zenon
      <4>4. QED
        BY <1>4, <4>1, <4>2, <4>3
    <3>3. QED
      BY <3>1, <3>2
  <2>2. CASE i > Len(p) /\ i - Len(p) \in 1..Len(q) /\ c[i] = q[i - Len(p)]
    <3>1. q[i - Len(p)].at \in (m + 1)..n
      BY <1>5, <2>2 DEF InTurn
    <3>2. ASSUME NEW j \in (i + 1)..Len(c), c[j].does \in D PROVE c[i].at < c[j].at
      <4>1. j - Len(p) \in ((i - Len(p)) + 1)..Len(q) /\ j \in 1..Len(c) /\ j \notin 1..Len(p)
        BY <1>1, <2>2
      <4>2. c[j] = q[j - Len(p)]
        BY <1>4, <4>1
      <4>3. QED
        BY <1>5, <2>2, <3>2, <4>1, <4>2 DEF InTurn
    <3>3. c[i].at \in (m + 1)..n
      BY <2>2, <3>1
    <3>4. c[i].at \in (k + 1)..n
      BY <3>3
    <3>5. QED
      BY <3>2, <3>4
  <2>3. QED
    BY <1>4, <2>1, <2>2
<1>6. ASSUME NEW x \in (k + 1)..n PROVE \E i \in 1..Len(c) : c[i].does \in D /\ c[i].at = x
  <2>1. CASE x \in (k + 1)..m
    BY <1>2, <2>1 DEF InTurn
  <2>2. CASE x \in (m + 1)..n
    <3>1. PICK i \in 1..Len(q) : q[i].does \in D /\ q[i].at = x
      BY <2>2 DEF InTurn
    <3>2. QED
      BY <1>3, <3>1
  <2>3. QED
    BY <2>1, <2>2
<1>7. QED
  BY <1>5, <1>6 DEF InTurn, c

\* A lone step.
LEMMA StepInTurn ==
  ASSUME NEW does \in Does, NEW at \in Nat, NEW D
  PROVE  /\ Step(does, at) \in Seq(Instr)
         /\ does \in D => InTurn(Step(does, at), D, at - 1, at)
         /\ does \notin D => \A k \in Int : InTurn(Step(does, at), D, k, k)
<1> DEFINE s == Step(does, at)
<1>1. s \in Seq(Instr) /\ Len(s) = 1 /\ s[1].does = does /\ s[1].at = at
  BY DEF Step, Instr
<1> HIDE DEF s
<1>2. 1..Len(s) = {1} /\ (1 + 1)..Len(s) = {} /\ ((at - 1) + 1)..at = {at}
  BY <1>1
<1>3. does \in D => InTurn(s, D, at - 1, at)
  BY <1>1, <1>2 DEF InTurn
<1>4. does \notin D => \A k \in Int : InTurn(s, D, k, k)
  BY <1>1, <1>2, NoneInTurn
<1>5. QED
  BY <1>1, <1>3, <1>4 DEF s

\* Parts of the same width, each with its own number or with none.
LEMMA EachNone ==
  ASSUME NEW n \in Nat, NEW w \in {2, 3, 4, 6}, NEW parts \in [1..n -> Seq(Instr)],
         \A i \in 1..n : Len(parts[i]) = w, NEW D,
         \A i \in 1..n : InTurn(parts[i], D, 0, 0)
  PROVE  \A k \in Int : InTurn(Each(parts), D, k, k)
<1> DEFINE e == Each(parts)
<1>1. /\ e \in Seq(Instr) /\ Len(e) = w * n
      /\ \A k \in 1..(w * n) : /\ ((k - 1) \div w) + 1 \in 1..n
                               /\ ((k - 1) % w) + 1 \in 1..w
                               /\ e[k] = parts[((k - 1) \div w) + 1][((k - 1) % w) + 1]
  BY EachIs
<1>2. \A i \in 1..n : \A j \in 1..w : parts[i][j].does \notin D
  BY NoneInTurn
<1> HIDE DEF e
<1>3. \A k \in 1..Len(e) : e[k].does \notin D
  BY <1>1, <1>2
<1>4. QED
  BY <1>1, <1>3, NoneInTurn DEF e

\* Which part the k-th step is of, and where it is there.
PartAt(k, w) == ((k - 1) \div w) + 1
PlaceAt(k, w) == ((k - 1) % w) + 1
Total(n, w) == w * n

LEMMA EachPlaced ==
  ASSUME NEW n \in Nat, NEW w \in {2, 3, 4, 6}, NEW parts \in [1..n -> Seq(Instr)],
         \A i \in 1..n : Len(parts[i]) = w
  PROVE  /\ Len(Each(parts)) = Total(n, w)
         /\ \A k \in 1..Total(n, w) :
              /\ PartAt(k, w) \in 1..n /\ PlaceAt(k, w) \in 1..w
              /\ Each(parts)[k] = parts[PartAt(k, w)][PlaceAt(k, w)]
<1>1. /\ Len(Each(parts)) = w * n
      /\ \A k \in 1..(w * n) : /\ ((k - 1) \div w) + 1 \in 1..n
                               /\ ((k - 1) % w) + 1 \in 1..w
                               /\ Each(parts)[k] = parts[((k - 1) \div w) + 1][((k - 1) % w) + 1]
  BY EachIs
<1>2. QED
  BY <1>1, Zenon DEF PartAt, PlaceAt, Total

LEMMA PlacesInOrder ==
  ASSUME NEW w \in {2, 3, 4, 6}, NEW n \in Nat, NEW a \in 1..Total(n, w),
         NEW b \in 1..Total(n, w), a < b
  PROVE  \/ PartAt(a, w) < PartAt(b, w)
         \/ PartAt(a, w) = PartAt(b, w) /\ PlaceAt(a, w) < PlaceAt(b, w)
<1>0. a \in Int /\ b \in Int
  BY DEF Total
<1>1. CASE w = 2
  BY <1>0, <1>1 DEF PartAt, PlaceAt
<1>2. CASE w = 3
  BY <1>0, <1>2 DEF PartAt, PlaceAt
<1>3. CASE w = 4
  BY <1>0, <1>3 DEF PartAt, PlaceAt
<1>4. CASE w = 6
  BY <1>0, <1>4 DEF PartAt, PlaceAt
<1>5. QED
  BY <1>1, <1>2, <1>3, <1>4

LEMMA PlacesAreThere ==
  ASSUME NEW w \in {2, 3, 4, 6}, NEW n \in Nat, NEW i \in 1..n, NEW j \in 1..w
  PROVE  \E k \in 1..Total(n, w) : PartAt(k, w) = i /\ PlaceAt(k, w) = j
<1>0. i \in Int /\ j \in Int /\ 1 <= i /\ i <= n /\ 1 <= j /\ j <= w
  OBVIOUS
<1>1. CASE w = 2
  <2>1. PICK k \in Int : k = 2 * (i - 1) + j
    BY <1>0
  <2>2. k \in 1..(2 * n) /\ (k - 1) \div 2 = i - 1 /\ (k - 1) % 2 = j - 1
    BY <1>0, <1>1, <2>1
  <2>3. PartAt(k, w) = i /\ PlaceAt(k, w) = j /\ k \in 1..Total(n, w)
    BY <1>0, <1>1, <2>2 DEF PartAt, PlaceAt, Total
  <2>4. QED
    BY <2>3
<1>2. CASE w = 3
  <2>1. PICK k \in Int : k = 3 * (i - 1) + j
    BY <1>0
  <2>2. k \in 1..(3 * n) /\ (k - 1) \div 3 = i - 1 /\ (k - 1) % 3 = j - 1
    BY <1>0, <1>2, <2>1
  <2>3. PartAt(k, w) = i /\ PlaceAt(k, w) = j /\ k \in 1..Total(n, w)
    BY <1>0, <1>2, <2>2 DEF PartAt, PlaceAt, Total
  <2>4. QED
    BY <2>3
<1>3. CASE w = 4
  <2>1. PICK k \in Int : k = 4 * (i - 1) + j
    BY <1>0
  <2>2. k \in 1..(4 * n) /\ (k - 1) \div 4 = i - 1 /\ (k - 1) % 4 = j - 1
    BY <1>0, <1>3, <2>1
  <2>3. PartAt(k, w) = i /\ PlaceAt(k, w) = j /\ k \in 1..Total(n, w)
    BY <1>0, <1>3, <2>2 DEF PartAt, PlaceAt, Total
  <2>4. QED
    BY <2>3
<1>4. CASE w = 6
  <2>1. PICK k \in Int : k = 6 * (i - 1) + j
    BY <1>0
  <2>2. k \in 1..(6 * n) /\ (k - 1) \div 6 = i - 1 /\ (k - 1) % 6 = j - 1
    BY <1>0, <1>4, <2>1
  <2>3. PartAt(k, w) = i /\ PlaceAt(k, w) = j /\ k \in 1..Total(n, w)
    BY <1>0, <1>4, <2>2 DEF PartAt, PlaceAt, Total
  <2>4. QED
    BY <2>3
<1>5. QED
  BY <1>1, <1>2, <1>3, <1>4

\* The one such step of a part that has its number.
LEMMA OneOf ==
  ASSUME NEW p \in Seq(Instr), NEW D, NEW i \in Nat, InTurn(p, D, i - 1, i)
  PROVE  /\ \E x \in 1..Len(p) : p[x].does \in D
         /\ \A x, y \in 1..Len(p) : p[x].does \in D /\ p[y].does \in D => ~(x < y)
         /\ \A x \in 1..Len(p) : p[x].does \in D => p[x].at = i
<1>1. ((i - 1) + 1)..i = {i}
  OBVIOUS
<1>2. \A x \in 1..Len(p) : p[x].does \in D => p[x].at = i
  BY <1>1 DEF InTurn
<1>3. \A x, y \in 1..Len(p) : p[x].does \in D /\ p[y].does \in D => ~(x < y)
  <2> SUFFICES ASSUME NEW x \in 1..Len(p), NEW y \in 1..Len(p), p[x].does \in D,
                      p[y].does \in D, x < y
               PROVE  FALSE
    OBVIOUS
  <2>1. y \in (x + 1)..Len(p) /\ p[x].at = i /\ p[y].at = i
    BY <1>2
  <2>2. p[x].at < p[y].at
    BY <2>1 DEF InTurn
  <2>3. QED
    BY <2>1, <2>2
<1>4. \E x \in 1..Len(p) : p[x].does \in D
  BY <1>1 DEF InTurn
<1>5. QED
  BY <1>2, <1>3, <1>4

LEMMA EachInTurn ==
  ASSUME NEW n \in Nat, NEW w \in {2, 3, 4, 6}, NEW parts \in [1..n -> Seq(Instr)],
         \A i \in 1..n : Len(parts[i]) = w, NEW D,
         \A i \in 1..n : InTurn(parts[i], D, i - 1, i)
  PROVE  InTurn(Each(parts), D, 0, n)
<1> DEFINE e == Each(parts)
<1>0. PICK N : N = Total(n, w)
  OBVIOUS
<1>1. /\ Len(e) = N
      /\ \A k \in 1..N : /\ PartAt(k, w) \in 1..n /\ PlaceAt(k, w) \in 1..w
                         /\ e[k] = parts[PartAt(k, w)][PlaceAt(k, w)]
  BY <1>0, EachPlaced
<1> HIDE DEF e
<1>2. \A i \in 1..n :
        /\ \E x \in 1..w : parts[i][x].does \in D
        /\ \A x, y \in 1..w : parts[i][x].does \in D /\ parts[i][y].does \in D => ~(x < y)
        /\ \A x \in 1..w : parts[i][x].does \in D => parts[i][x].at = i
  <2> TAKE i \in 1..n
  <2>1. PICK p \in Seq(Instr) : p = parts[i]
    OBVIOUS
  <2>2. Len(p) = w /\ InTurn(p, D, i - 1, i) /\ i \in Nat
    BY <2>1
  <2>3. /\ \E x \in 1..Len(p) : p[x].does \in D
        /\ \A x, y \in 1..Len(p) : p[x].does \in D /\ p[y].does \in D => ~(x < y)
        /\ \A x \in 1..Len(p) : p[x].does \in D => p[x].at = i
    BY <2>2, OneOf
  <2>4. QED
    BY <2>1, <2>2, <2>3
<1>3. ASSUME NEW a \in 1..Len(e), e[a].does \in D
      PROVE  /\ e[a].at \in (0 + 1)..n
             /\ \A b \in (a + 1)..Len(e) : e[b].does \in D => e[a].at < e[b].at
  <2>1. a \in 1..N /\ PartAt(a, w) \in 1..n /\ PlaceAt(a, w) \in 1..w
        /\ e[a] = parts[PartAt(a, w)][PlaceAt(a, w)]
    BY <1>1
  <2>2. e[a].at = PartAt(a, w)
    BY <1>2, <1>3, <2>1
  <2>3. ASSUME NEW b \in (a + 1)..Len(e), e[b].does \in D PROVE e[a].at < e[b].at
    <3>1. b \in 1..N /\ a < b
      BY <1>1, <2>1
    <3>2. PartAt(b, w) \in 1..n /\ PlaceAt(b, w) \in 1..w /\ e[b] = parts[PartAt(b, w)][PlaceAt(b, w)]
      BY <1>1, <3>1
    <3>3. e[b].at = PartAt(b, w)
      BY <1>2, <2>3, <3>2
    <3>4. PartAt(a, w) < PartAt(b, w) \/ (PartAt(a, w) = PartAt(b, w) /\ PlaceAt(a, w) < PlaceAt(b, w))
      BY <1>0, <2>1, <3>1, PlacesInOrder
    <3>5. PartAt(a, w) = PartAt(b, w) => ~(PlaceAt(a, w) < PlaceAt(b, w))
      <4> SUFFICES ASSUME PartAt(a, w) = PartAt(b, w), PlaceAt(a, w) < PlaceAt(b, w) PROVE FALSE
        OBVIOUS
      <4>1. parts[PartAt(a, w)][PlaceAt(a, w)].does \in D /\ parts[PartAt(a, w)][PlaceAt(b, w)].does \in D
        BY <1>3, <2>1, <2>3, <3>2
      <4>2. QED
        BY <1>2, <2>1, <3>2, <4>1
    <3>6. QED
      BY <2>2, <3>3, <3>4, <3>5
  <2>4. QED
    BY <2>1, <2>2, <2>3
<1>4. ASSUME NEW m \in (0 + 1)..n PROVE \E k \in 1..Len(e) : e[k].does \in D /\ e[k].at = m
  <2>1. m \in 1..n
    OBVIOUS
  <2>2. PICK x \in 1..w : parts[m][x].does \in D /\ parts[m][x].at = m
    BY <1>2, <2>1
  <2>3. PICK k \in 1..N : PartAt(k, w) = m /\ PlaceAt(k, w) = x
    BY <1>0, <2>1, PlacesAreThere
  <2>4. e[k] = parts[m][x]
    BY <1>1, <2>3
  <2>5. QED
    BY <1>1, <2>2, <2>4
<1>5. QED
  BY <1>3, <1>4 DEF InTurn, e

\* The order of two kinds of steps, in a program and in what is left of it.
LEMMA BeforeJoin ==
  ASSUME NEW p \in Seq(Instr), NEW q \in Seq(Instr), NEW D, NEW E, Before(p, D, E),
         Before(q, D, E), InTurn(p, E, 0, 0) \/ InTurn(q, D, 0, 0)
  PROVE  Before(p \o q, D, E)
<1> DEFINE c == p \o q
<1>1. /\ Len(c) = Len(p) + Len(q) /\ Len(p) \in Nat /\ Len(q) \in Nat
      /\ \A i \in 1 .. Len(p) + Len(q) : c[i] = IF i <= Len(p) THEN p[i] ELSE q[i - Len(p)]
  BY ConcatProperties
<1> HIDE DEF c
<1>2. \/ \A i \in 1..Len(p) : p[i].does \notin E
      \/ \A i \in 1..Len(q) : q[i].does \notin D
  BY NoneInTurn
<1>3. \A i \in 1..Len(c) : \/ i \in 1..Len(p) /\ c[i] = p[i]
                           \/ i > Len(p) /\ i - Len(p) \in 1..Len(q) /\ c[i] = q[i - Len(p)]
  <2> TAKE i \in 1..Len(c)
  <2>1. i \in 1 .. Len(p) + Len(q)
    BY <1>1
  <2>2. CASE i <= Len(p)
    BY <1>1, <2>1, <2>2
  <2>3. CASE ~(i <= Len(p))
    BY <1>1, <2>1, <2>3
  <2>4. QED
    BY <2>2, <2>3
<1>4. ASSUME NEW i \in 1..Len(c), NEW j \in 1..Len(c), c[i].does \in D, c[j].does \in E
      PROVE  i < j
  <2>1. CASE i \in 1..Len(p) /\ c[i] = p[i]
    <3>1. CASE j \in 1..Len(p) /\ c[j] = p[j]
      BY <1>4, <2>1, <3>1 DEF Before
    <3>2. CASE j > Len(p)
      BY <1>1, <2>1, <3>2
    <3>3. QED
      BY <1>3, <3>1, <3>2
  <2>2. CASE i > Len(p) /\ i - Len(p) \in 1..Len(q) /\ c[i] = q[i - Len(p)]
    <3>1. ~(j \in 1..Len(p) /\ c[j] = p[j])
      BY <1>2, <1>4, <2>2
    <3>2. j > Len(p) /\ j - Len(p) \in 1..Len(q) /\ c[j] = q[j - Len(p)]
      BY <1>3, <3>1
    <3>3. i - Len(p) < j - Len(p)
      BY <1>4, <2>2, <3>2 DEF Before
    <3>4. QED
      BY <1>1, <3>3
  <2>3. QED
    BY <1>3, <2>1, <2>2
<1>5. QED
  BY <1>4 DEF Before, c

LEMMA BeforeTail ==
  ASSUME NEW p \in Seq(Instr), p # <<>>, NEW D, NEW E, Before(p, D, E)
  PROVE  /\ Before(Tail(p), D, E)
         /\ p[1].does \in E => \A i \in 1..Len(p) : p[i].does \notin D
<1> DEFINE q == Tail(p)
<1>1. /\ Len(p) \in Nat /\ Len(p) >= 1 /\ Len(q) = Len(p) - 1
      /\ \A i \in 1..Len(q) : q[i] = p[i + 1] /\ i + 1 \in 1..Len(p)
  BY TailIs
<1> HIDE DEF q
<1>2. ASSUME NEW i \in 1..Len(q), NEW j \in 1..Len(q), q[i].does \in D, q[j].does \in E
      PROVE  i < j
  <2>1. i + 1 < j + 1
    BY <1>1, <1>2 DEF Before
  <2>2. QED
    BY <1>1, <2>1
<1>3. ASSUME p[1].does \in E, NEW i \in 1..Len(p), p[i].does \in D PROVE FALSE
  <2>1. 1 \in 1..Len(p)
    BY <1>1
  <2>2. i < 1
    BY <1>3, <2>1 DEF Before
  <2>3. QED
    BY <2>2
<1>4. QED
  BY <1>2, <1>3 DEF Before, q

LEMMA BeforeNone ==
  ASSUME NEW p \in Seq(Instr), NEW D, NEW E, NEW k \in Int,
         InTurn(p, D, k, k) \/ InTurn(p, E, k, k)
  PROVE  Before(p, D, E)
BY NoneInTurn DEF Before

\* What has none of the steps may come before or after.
LEMMA JoinNone ==
  ASSUME NEW p \in Seq(Instr), NEW q \in Seq(Instr), NEW D, NEW j \in Int, NEW k \in Int,
         NEW n \in Int, k <= n, InTurn(p, D, j, j), InTurn(q, D, k, n)
  PROVE  /\ p \o q \in Seq(Instr) /\ q \o p \in Seq(Instr)
         /\ InTurn(p \o q, D, k, n) /\ InTurn(q \o p, D, k, n)
<1>1. p \o q \in Seq(Instr) /\ q \o p \in Seq(Instr)
  BY ConcatProperties
<1>2. InTurn(p, D, k, k) /\ InTurn(p, D, n, n)
  BY NoneInTurn
<1>3. InTurn(p \o q, D, k, n)
  BY <1>2, InTurnJoin
<1>4. InTurn(q \o p, D, k, n)
  BY <1>2, InTurnJoin
<1>5. QED
  BY <1>1, <1>3, <1>4

LEMMA LenJoin ==
  ASSUME NEW p \in Seq(Instr), NEW q \in Seq(Instr)
  PROVE  p \o q \in Seq(Instr) /\ Len(p \o q) = Len(p) + Len(q)
BY ConcatProperties

LEMMA TwoSteps ==
  ASSUME NEW p \in Seq(Instr), NEW q \in Seq(Instr), Len(q) = 1
  PROVE  /\ Len(p) = 1 => Len(p \o q) = 2
         /\ Len(p) = 2 => Len(p \o q) = 3
<1> DEFINE l == Len(p \o q)
           k == Len(p)
<1>1. l = k + 1
  BY LenJoin, Zenon
<1> HIDE DEF l, k
<1>2. (k = 1 => l = 2) /\ (k = 2 => l = 3)
  BY <1>1
<1>3. QED
  BY <1>2 DEF l, k

LEMMA CheckNone ==
  ASSUME NEW D, "check" \notin D
  PROVE  Check \in Seq(Instr) /\ \A k \in Int : InTurn(Check, D, k, k)
BY StepInTurn DEF Check, Does

\* A step, and a step right after a look at the token.
From(D, does, i) == IF does \in D THEN i - 1 ELSE i

LEMMA StepFrom ==
  ASSUME NEW does \in Does, NEW i \in Nat, NEW D
  PROVE  /\ Step(does, i) \in Seq(Instr) /\ InTurn(Step(does, i), D, From(D, does, i), i)
         /\ From(D, does, i) \in Int /\ From(D, does, i) <= i
BY StepInTurn DEF From

LEMMA CheckedFrom ==
  ASSUME NEW does \in Does, NEW i \in Nat, NEW D, "check" \notin D
  PROVE  /\ Check \o Step(does, i) \in Seq(Instr)
         /\ InTurn(Check \o Step(does, i), D, From(D, does, i), i)
<1>1. Check \in Seq(Instr) /\ InTurn(Check, D, 0, 0)
  BY CheckNone
<1>2. PICK k \in Int : k = From(D, does, i) /\ k <= i
  BY StepFrom
<1>3. PICK s \in Seq(Instr) : s = Step(does, i) /\ InTurn(s, D, k, i)
  BY <1>2, StepFrom
<1>4. Check \o s \in Seq(Instr) /\ InTurn(Check \o s, D, k, i)
  BY <1>1, <1>2, <1>3, JoinNone
<1>5. QED
  BY <1>2, <1>3, <1>4

LEMMA SingleFrom ==
  ASSUME NEW m \in BulkMethods, NEW i \in Nat, NEW D, D \cap {"check", "name"} = {}
  PROVE  /\ Single(SingleOf[m], i, FALSE) \in Seq(Instr)
         /\ InTurn(Single(SingleOf[m], i, FALSE), D, From(D, "call", i), i)
<1>1. SingleOf[m] \in NamedMethods \cup {"elaborate", "name_to_string"}
  BY DEF BulkMethods, SingleOf, NamedMethods
<1>2. PICK c \in Seq(Instr) :
        c = Check \o Step("call", i) /\ InTurn(c, D, From(D, "call", i), i)
  BY CheckedFrom DEF Does
<1>3. CASE SingleOf[m] \in NamedMethods
  <2>1. Single(SingleOf[m], i, FALSE) = Lookup(i)
    BY <1>3 DEF Single, NamedMethods, OptionalMethods, TickingMethods, QueryMethods,
                ProofMethods, MetaMethods
  <2>2. PICK s \in Seq(Instr) : s = Check \o Step("name", i) /\ InTurn(s, D, i, i)
    <3>1. From(D, "name", i) = i
      BY DEF From
    <3>2. QED
      BY <3>1, CheckedFrom DEF Does
  <2>3. PICK k \in Int : k = From(D, "call", i) /\ k <= i
    BY StepFrom DEF Does
  <2>4. s \o c \in Seq(Instr) /\ InTurn(s \o c, D, k, i)
    <3>1. InTurn(c, D, k, i)
      BY <1>2, <2>3
    <3>2. InTurn(s, D, i, i) /\ i \in Int /\ k <= i
      BY <2>2, <2>3
    <3>3. QED
      BY <3>1, <3>2, JoinNone
  <2>5. s \o c = Lookup(i)
    <3>1. PICK a \in Seq(Instr) : a = Step("call", i)
      BY StepInTurn DEF Does
    <3>2. PICK b \in Seq(Instr) : b = Check
      BY CheckNone
    <3>3. s \o (b \o a) = (s \o b) \o a
      BY <3>1, <3>2, ConcatAssociative
    <3>4. QED
      BY <1>2, <2>2, <3>1, <3>2, <3>3 DEF Lookup
  <2>6. QED
    BY <2>1, <2>3, <2>4, <2>5
<1>4. CASE SingleOf[m] \in {"elaborate", "name_to_string"}
  <2>1. Single(SingleOf[m], i, FALSE) = Check \o Step("call", i)
    BY <1>4 DEF Single, NamedMethods, OptionalMethods, TickingMethods, QueryMethods,
                ProofMethods, MetaMethods
  <2>2. QED
    BY <1>2, <2>1
<1>5. QED
  BY <1>1, <1>3, <1>4

\* Steps of two kinds, of which the part has but one that matters.
LEMMA PartFrom ==
  ASSUME NEW s \in Seq(Instr), NEW i \in Nat, NEW D, NEW does, NEW last \in Does,
         InTurn(s, D, From(D, does, i), i), ~(does \in D /\ last \in D)
  PROVE  /\ s \o Step(last, i) \in Seq(Instr)
         /\ does \in D \/ last \in D => InTurn(s \o Step(last, i), D, i - 1, i)
         /\ does \notin D /\ last \notin D => InTurn(s \o Step(last, i), D, 0, 0)
<1>1. PICK r \in Seq(Instr) : r = Step(last, i) /\ InTurn(r, D, From(D, last, i), i)
  BY StepFrom
<1>2. s \o r \in Seq(Instr)
  BY ConcatProperties
<1>3. CASE does \in D
  <2>1. From(D, does, i) = i - 1 /\ From(D, last, i) = i
    BY <1>3 DEF From
  <2>2. InTurn(s \o r, D, i - 1, i)
    BY <1>1, <2>1, JoinNone
  <2>3. QED
    BY <1>1, <1>2, <1>3, <2>2
<1>4. CASE does \notin D /\ last \in D
  <2>1. From(D, does, i) = i /\ From(D, last, i) = i - 1
    BY <1>4 DEF From
  <2>2. InTurn(s \o r, D, i - 1, i)
    BY <1>1, <2>1, JoinNone
  <2>3. QED
    BY <1>1, <1>2, <1>4, <2>2
<1>5. CASE does \notin D /\ last \notin D
  <2>1. From(D, does, i) = i /\ From(D, last, i) = i
    BY <1>5 DEF From
  <2>2. InTurn(s \o r, D, i, i)
    BY <1>1, <2>1, JoinNone
  <2>3. PICK c \in Seq(Instr) : c = s \o r /\ InTurn(c, D, i, i)
    BY <1>2, <2>2
  <2>0. i \in Int
    OBVIOUS
  <2>4. \A x \in 1..Len(c) : c[x].does \notin D
    BY <2>0, <2>3, NoneInTurn, Zenon
  <2>5. InTurn(c, D, 0, 0)
    BY <2>4, NoneInTurn
  <2>6. QED
    BY <1>1, <1>2, <1>5, <2>3, <2>5
<1>6. QED
  BY <1>3, <1>4, <1>5

\* All parts, of whatever steps they are.
LEMMA EachFrom ==
  ASSUME NEW n \in Nat, NEW w \in {2, 3, 4, 6}, NEW parts \in [1..n -> Seq(Instr)],
         \A i \in 1..n : Len(parts[i]) = w, NEW D, NEW some \in BOOLEAN,
         \A i \in 1..n : /\ some => InTurn(parts[i], D, i - 1, i)
                         /\ ~some => InTurn(parts[i], D, 0, 0)
  PROVE  /\ Each(parts) \in Seq(Instr)
         /\ some => InTurn(Each(parts), D, 0, n)
         /\ ~some => \A k \in Int : InTurn(Each(parts), D, k, k)
<1>1. Each(parts) \in Seq(Instr)
  BY EachIs
<1>2. CASE some
  <2>1. \A i \in 1..n : InTurn(parts[i], D, i - 1, i)
    BY <1>2
  <2>2. InTurn(Each(parts), D, 0, n)
    BY <2>1, EachInTurn
  <2>3. QED
    BY <1>1, <1>2, <2>2
<1>3. CASE ~some
  <2>1. \A i \in 1..n : InTurn(parts[i], D, 0, 0)
    BY <1>3
  <2>2. \A k \in Int : InTurn(Each(parts), D, k, k)
    BY <2>1, EachNone
  <2>3. QED
    BY <1>1, <1>3, <2>2
<1>4. QED
  BY <1>2, <1>3

-----------------------------------------------------------------------------
(* The programs of bulk methods                                            *)

LEMMA OneByOneInTurn ==
  ASSUME NEW m \in BulkMethods, NEW n \in Nat, NEW D, D \cap {"check", "name"} = {},
         ~("call" \in D /\ "report" \in D)
  PROVE  /\ OneByOne(m, n) \in Seq(Instr)
         /\ "call" \in D \/ "report" \in D => InTurn(OneByOne(m, n), D, 0, n)
         /\ "call" \notin D /\ "report" \notin D => \A k \in Int : InTurn(OneByOne(m, n), D, k, k)
<1> DEFINE part(i) == (Check \o Single(SingleOf[m], i, FALSE)) \o Step("report", i)
           parts == [i \in 1..n |-> part(i)]
<1>1. PICK v \in {4, 6} : \A i \in Nat : Len(part(i)) = v
  <2>1. PICK w \in {2, 4} : \A at \in Nat :
          Ordinary(Single(SingleOf[m], at, FALSE)) /\ Len(Single(SingleOf[m], at, FALSE)) = w
    BY SingleOfBulk
  <2>2. PICK v : v = w + 2
    OBVIOUS
  <2>3. \A i \in Nat : Len(part(i)) = v
    <3> TAKE i \in Nat
    <3>1. Ordinary(Single(SingleOf[m], i, FALSE)) /\ Len(Single(SingleOf[m], i, FALSE)) = w
      BY <2>1
    <3>2. Len(part(i)) = Len(Single(SingleOf[m], i, FALSE)) + 2
      BY <3>1, ThenReport
    <3> HIDE DEF part
    <3>3. QED
      BY <2>2, <3>1, <3>2
  <2> HIDE DEF part
  <2>4. v \in {4, 6}
    BY <2>2
  <2>5. QED
    BY <2>3, <2>4
<1>2. PICK some \in BOOLEAN : some <=> "call" \in D \/ "report" \in D
  OBVIOUS
<1>3. \A i \in 1..n : /\ part(i) \in Seq(Instr)
                      /\ some => InTurn(part(i), D, i - 1, i)
                      /\ ~some => InTurn(part(i), D, 0, 0)
  <2> TAKE i \in 1..n
  <2>1. i \in Nat
    OBVIOUS
  <2>2. PICK k \in Int : k = From(D, "call", i) /\ k <= i
    BY <2>1, StepFrom DEF Does
  <2>3. PICK s \in Seq(Instr) : s = Single(SingleOf[m], i, FALSE) /\ InTurn(s, D, k, i)
    BY <2>1, <2>2, SingleFrom
  <2>4. PICK b \in Seq(Instr) : b = Check /\ InTurn(b, D, 0, 0)
    <3>1. "check" \notin D
      OBVIOUS
    <3>2. QED
      BY <3>1, CheckNone
  <2>9. b \o s \in Seq(Instr) /\ InTurn(b \o s, D, k, i)
    <3>1. 0 \in Int /\ i \in Int
      OBVIOUS
    <3>2. QED
      BY <2>2, <2>3, <2>4, <3>1, JoinNone, Zenon
  <2>5. PICK c \in Seq(Instr) : c = b \o s /\ InTurn(c, D, k, i)
    BY <2>9
  <2>6. /\ c \o Step("report", i) \in Seq(Instr)
        /\ "call" \in D \/ "report" \in D => InTurn(c \o Step("report", i), D, i - 1, i)
        /\ "call" \notin D /\ "report" \notin D => InTurn(c \o Step("report", i), D, 0, 0)
    <3>1. "report" \in Does
      BY DEF Does
    <3>2. InTurn(c, D, From(D, "call", i), i)
      BY <2>2, <2>5
    <3>3. QED
      BY <2>1, <3>1, <3>2, PartFrom
  <2>7. part(i) = c \o Step("report", i)
    BY <2>3, <2>4, <2>5
  <2> HIDE DEF part
  <2>8. QED
    BY <1>2, <2>6, <2>7
<1> HIDE DEF part
<1>4. parts \in [1..n -> Seq(Instr)] /\ \A i \in 1..n : Len(parts[i]) = v
  BY <1>1, <1>3
<1>5. \A i \in 1..n : /\ some => InTurn(parts[i], D, i - 1, i)
                      /\ ~some => InTurn(parts[i], D, 0, 0)
  BY <1>3
<1>6. v \in {2, 3, 4, 6}
  OBVIOUS
<1> HIDE DEF parts
<1>7. PICK e \in Seq(Instr) : /\ e = Each(parts)
                              /\ some => InTurn(e, D, 0, n)
                              /\ ~some => \A k \in Int : InTurn(e, D, k, k)
  BY <1>4, <1>5, <1>6, EachFrom
<1>8. Check \in Seq(Instr) /\ \A k \in Int : InTurn(Check, D, k, k)
  BY CheckNone
<1>9. OneByOne(m, n) = Check \o e
  BY <1>7 DEF OneByOne, parts, part
<1>10. Check \o e \in Seq(Instr)
  BY <1>8, ConcatProperties
<1>11. some => InTurn(Check \o e, D, 0, n)
  BY <1>7, <1>8, JoinNone
<1>12. ~some => \A k \in Int : InTurn(Check \o e, D, k, k)
  <2> SUFFICES ASSUME ~some, NEW k \in Int PROVE InTurn(Check \o e, D, k, k)
    OBVIOUS
  <2>1. InTurn(e, D, k, k) /\ InTurn(Check, D, k, k) /\ k <= k
    BY <1>7, <1>8
  <2>2. QED
    BY <1>8, <2>1, JoinNone
<1>13. QED
  BY <1>2, <1>9, <1>10, <1>11, <1>12

LEMMA AllAtOnceInTurn ==
  ASSUME NEW n \in Nat, NEW sink \in BOOLEAN, NEW D, D \cap {"enter", "leave"} = {},
         ~("work" \in D /\ "tick" \in D)
  PROVE  /\ AllAtOnce(n, sink) \in Seq(Instr)
         /\ sink /\ ("work" \in D \/ "tick" \in D) => InTurn(AllAtOnce(n, sink), D, 0, n)
         /\ sink /\ ~("work" \in D \/ "tick" \in D) =>
              \A k \in Int : InTurn(AllAtOnce(n, sink), D, k, k)
         /\ ~sink /\ "all" \in D => InTurn(AllAtOnce(n, sink), D, n - 1, n)
         /\ ~sink /\ "all" \notin D => \A k \in Int : InTurn(AllAtOnce(n, sink), D, k, k)
<1>1. CASE sink
  <2> DEFINE part(i) == Step("work", i) \o Step("tick", i)
             parts == [i \in 1..n |-> part(i)]
  <2>1. PICK some \in BOOLEAN : some <=> "work" \in D \/ "tick" \in D
    OBVIOUS
  <2>2. \A i \in 1..n : /\ part(i) \in Seq(Instr) /\ Len(part(i)) = 2
                        /\ some => InTurn(part(i), D, i - 1, i)
                        /\ ~some => InTurn(part(i), D, 0, 0)
    <3> TAKE i \in 1..n
    <3>1. i \in Nat /\ "tick" \in Does /\ "work" \in Does
      BY DEF Does
    <3>2. PICK s \in Seq(Instr) : s = Step("work", i) /\ Len(s) = 1
      BY <3>1, StepIs
    <3>3. InTurn(s, D, From(D, "work", i), i)
      BY <3>1, <3>2, StepFrom
    <3>4. /\ s \o Step("tick", i) \in Seq(Instr)
          /\ "work" \in D \/ "tick" \in D => InTurn(s \o Step("tick", i), D, i - 1, i)
          /\ "work" \notin D /\ "tick" \notin D => InTurn(s \o Step("tick", i), D, 0, 0)
      BY <3>1, <3>3, PartFrom
    <3>5. PICK t \in Seq(Instr) : t = Step("tick", i) /\ Len(t) = 1
      BY <3>1, StepIs
    <3>6. Len(s \o t) = 2
      BY <3>2, <3>5, TwoSteps, Zenon
    <3>7. part(i) = s \o Step("tick", i) /\ Len(part(i)) = 2
      BY <3>2, <3>5, <3>6
    <3> HIDE DEF part
    <3>8. QED
      BY <2>1, <3>4, <3>7
  <2> HIDE DEF part
  <2>3. parts \in [1..n -> Seq(Instr)] /\ \A i \in 1..n : Len(parts[i]) = 2
    BY <2>2
  <2>4. \A i \in 1..n : /\ some => InTurn(parts[i], D, i - 1, i)
                        /\ ~some => InTurn(parts[i], D, 0, 0)
    BY <2>2
  <2> HIDE DEF parts
  <2>5. PICK e \in Seq(Instr) : /\ e = Each(parts)
                                /\ some => InTurn(e, D, 0, n)
                                /\ ~some => \A k \in Int : InTurn(e, D, k, k)
    <3>1. 2 \in {2, 3, 4, 6}
      OBVIOUS
    <3>2. QED
      BY <2>3, <2>4, <3>1, EachFrom
  <2>6. PICK a \in Seq(Instr) : a = Step("enter", 0) /\ \A k \in Int : InTurn(a, D, k, k)
    BY StepInTurn DEF Does
  <2>7. PICK z \in Seq(Instr) : z = Step("leave", 0) /\ \A k \in Int : InTurn(z, D, k, k)
    BY StepInTurn DEF Does
  <2>8. \A k \in Int : \A x \in Int : k <= x /\ InTurn(e, D, k, x) =>
          (a \o e) \o z \in Seq(Instr) /\ InTurn((a \o e) \o z, D, k, x)
    <3> TAKE k \in Int
    <3> TAKE x \in Int
    <3> HAVE k <= x /\ InTurn(e, D, k, x)
    <3>1. PICK c \in Seq(Instr) : c = a \o e /\ InTurn(c, D, k, x)
      <4>1. InTurn(a, D, k, k)
        BY <2>6
      <4>2. QED
        BY <4>1, JoinNone
    <3>2. InTurn(z, D, k, k)
      BY <2>7
    <3>3. c \o z \in Seq(Instr) /\ InTurn(c \o z, D, k, x)
      BY <3>1, <3>2, JoinNone
    <3>4. QED
      BY <3>1, <3>3
  <2>9. AllAtOnce(n, sink) = (a \o e) \o z
    BY <1>1, <2>5, <2>6, <2>7 DEF AllAtOnce, Bridged, parts, part
  <2>10. (a \o e) \o z \in Seq(Instr)
    BY ConcatProperties
  <2>11. some => InTurn((a \o e) \o z, D, 0, n)
    BY <2>5, <2>8
  <2>12. ~some => \A k \in Int : InTurn((a \o e) \o z, D, k, k)
    BY <2>5, <2>8
  <2>13. QED
    BY <1>1, <2>1, <2>9, <2>10, <2>11, <2>12
<1>2. CASE ~sink
  <2>1. AllAtOnce(n, sink) = Step("all", n)
    BY <1>2 DEF AllAtOnce
  <2>2. QED
    BY <1>2, <2>1, StepInTurn DEF Does
<1>3. QED
  BY <1>1, <1>2

\* The part of query_declarations_bulk that makes the names.
NamesMade(n) ==
  Check \o Each([i \in 1..n |-> Check \o Step("name", i) \o Step("report", i)]) \o Check

LEMMA NamesMadeInTurn ==
  ASSUME NEW n \in Nat, NEW D, D \cap {"check", "name"} = {}
  PROVE  /\ NamesMade(n) \in Seq(Instr)
         /\ "report" \in D => InTurn(NamesMade(n), D, 0, n)
         /\ "report" \notin D => \A k \in Int : InTurn(NamesMade(n), D, k, k)
<1> DEFINE part(i) == (Check \o Step("name", i)) \o Step("report", i)
           parts == [i \in 1..n |-> part(i)]
<1>1. PICK some \in BOOLEAN : some <=> "report" \in D
  OBVIOUS
<1>2. \A i \in 1..n : /\ part(i) \in Seq(Instr) /\ Len(part(i)) = 3
                      /\ some => InTurn(part(i), D, i - 1, i)
                      /\ ~some => InTurn(part(i), D, 0, 0)
  <2> TAKE i \in 1..n
  <2>1. i \in Nat /\ "name" \in Does /\ "report" \in Does
    BY DEF Does
  <2>2. PICK s \in Seq(Instr) : s = Check \o Step("name", i) /\ Len(s) = 2
    <3>1. Check \in Seq(Instr) /\ Len(Check) = 1
      BY StepIs DEF Check, Does
    <3>2. PICK a \in Seq(Instr) : a = Step("name", i) /\ Len(a) = 1
      BY <2>1, StepIs
    <3>3. Check \o a \in Seq(Instr) /\ Len(Check \o a) = 2
      BY <3>1, <3>2, LenJoin, TwoSteps, Zenon
    <3>4. QED
      BY <3>1, <3>2, <3>3
  <2>3. InTurn(s, D, From(D, "name", i), i)
    BY <2>1, <2>2, CheckedFrom
  <2>4. /\ s \o Step("report", i) \in Seq(Instr)
        /\ "name" \in D \/ "report" \in D => InTurn(s \o Step("report", i), D, i - 1, i)
        /\ "name" \notin D /\ "report" \notin D => InTurn(s \o Step("report", i), D, 0, 0)
    BY <2>1, <2>3, PartFrom
  <2>5. PICK t \in Seq(Instr) : t = Step("report", i) /\ Len(t) = 1
    BY <2>1, StepIs
  <2>6. Len(s \o t) = 3
    BY <2>2, <2>5, TwoSteps, Zenon
  <2>7. part(i) = s \o Step("report", i) /\ Len(part(i)) = 3
    BY <2>2, <2>5, <2>6
  <2> HIDE DEF part
  <2>8. QED
    BY <1>1, <2>4, <2>7
<1> HIDE DEF part
<1>3. parts \in [1..n -> Seq(Instr)] /\ \A i \in 1..n : Len(parts[i]) = 3
  BY <1>2
<1>4. \A i \in 1..n : /\ some => InTurn(parts[i], D, i - 1, i)
                      /\ ~some => InTurn(parts[i], D, 0, 0)
  BY <1>2
<1> HIDE DEF parts
<1>5. PICK e \in Seq(Instr) : /\ e = Each(parts)
                              /\ some => InTurn(e, D, 0, n)
                              /\ ~some => \A k \in Int : InTurn(e, D, k, k)
  <2>1. 3 \in {2, 3, 4, 6}
    OBVIOUS
  <2>2. QED
    BY <1>3, <1>4, <2>1, EachFrom
<1>6. PICK c \in Seq(Instr) : c = Check /\ \A k \in Int : InTurn(c, D, k, k)
  BY CheckNone
<1>7. \A k \in Int : \A x \in Int : k <= x /\ InTurn(e, D, k, x) =>
        InTurn((c \o e) \o c, D, k, x)
  <2> TAKE k \in Int
  <2> TAKE x \in Int
  <2> HAVE k <= x /\ InTurn(e, D, k, x)
  <2>1. PICK d \in Seq(Instr) : d = c \o e /\ InTurn(d, D, k, x)
    <3>1. InTurn(c, D, k, k)
      BY <1>6
    <3>2. QED
      BY <3>1, JoinNone
  <2>2. InTurn(c, D, k, k)
    BY <1>6
  <2>3. InTurn(d \o c, D, k, x)
    BY <2>1, <2>2, JoinNone
  <2>4. QED
    BY <2>1, <2>3
<1>8. NamesMade(n) = (c \o e) \o c
  BY <1>5, <1>6 DEF NamesMade, parts, part
<1>9. (c \o e) \o c \in Seq(Instr)
  BY ConcatProperties
<1>10. some => InTurn((c \o e) \o c, D, 0, n)
  BY <1>5, <1>7
<1>11. ~some => \A k \in Int : InTurn((c \o e) \o c, D, k, k)
  BY <1>5, <1>7
<1>12. QED
  BY <1>1, <1>8, <1>9, <1>10, <1>11

-----------------------------------------------------------------------------
(* What a call starts with                                                 *)

Starts(p, answers, n, same, sink, query) ==
  /\ CollectFits(p, <<>>, answers, n, same)
  /\ sink => TicksFit(p, <<>>, n)
  /\ query => ZipFits(p, <<>>)

\* The kinds of steps that the invariant speaks of.
Kinds == {Collecting, Whole, {"report"}, {"tick"}, {"zip"}, {"one"}, {"work"}}

LEMMA KindsAre ==
  \A D \in Kinds :
    /\ D \cap {"check", "name", "list", "enter", "leave"} = {}
    /\ ~("call" \in D /\ "report" \in D) /\ ~("work" \in D /\ "tick" \in D)
BY DEF Kinds, Collecting, Whole

\* Nothing is collected and reported at the start.
LEMMA CollectStarts ==
  ASSUME NEW p, NEW n \in Nat, NEW answers, NEW same,
         InTurn(p, Collecting, 0, n), InTurn(p, Whole, n, n),
         \A i \in 1..Len(p) : p[i].does = "one" => same
  PROVE  CollectFits(p, <<>>, answers, n, same)
<1>1. <<>> = [i \in 1..0 |-> answers[i]]
  OBVIOUS
<1>2. 0 \in 0..n /\ n \in {n - 1, n}
  OBVIOUS
<1>3. n = n => <<>> = [i \in 1..0 |-> answers[i]]
  BY <1>1
<1>4. \E k \in 0..n, w \in {n - 1, n} :
        /\ InTurn(p, Collecting, k, n) /\ InTurn(p, Whole, w, n)
        /\ w = n => <<>> = [i \in 1..k |-> answers[i]]
        /\ w # n => k = n /\ <<>> = <<>>
  <2> WITNESS 0 \in 0..n
  <2> WITNESS n \in {n - 1, n}
  <2> QED
    BY <1>1
<1>5. QED
  BY <1>4 DEF CollectFits

LEMMA TicksStart ==
  ASSUME NEW p, NEW n \in Nat, NEW a \in {0, n}, NEW b \in {0, n}, n \in {a, b},
         InTurn(p, {"report"}, 0, a), InTurn(p, {"tick"}, 0, b),
         Before(p, {"report"}, {"tick"})
  PROVE  TicksFit(p, <<>>, n)
<1>1. Count(0) \o Count(0) = <<>>
  BY DEF Count
<1>2. \E reports, inLean \in {0, n} : \E x \in 0..reports, y \in 0..inLean :
        /\ n \in {reports, inLean} /\ (y > 0 => x = reports)
        /\ InTurn(p, {"report"}, x, reports) /\ InTurn(p, {"tick"}, y, inLean)
        /\ <<>> = Count(x) \o Count(y)
  <2> WITNESS a \in {0, n}
  <2> WITNESS b \in {0, n}
  <2> a \in Nat /\ b \in Nat
    OBVIOUS
  <2> WITNESS 0 \in 0..a
  <2> WITNESS 0 \in 0..b
  <2> QED
    BY <1>1
<1>3. QED
  BY <1>2 DEF TicksFit

\* Nothing to collect, and nothing to report.
LEMMA StartsEmpty ==
  ASSUME NEW answers, NEW same, NEW sink, NEW query
  PROVE  Starts(<<>>, answers, 0, same, sink, query)
<1> DEFINE p == <<>>
<1>1. Len(p) = 0 /\ 1..Len(p) = {} /\ 1..0 = {} /\ p = <<>>
  OBVIOUS
<1> HIDE DEF p
<1>2. ASSUME NEW D PROVE InTurn(p, D, 0, 0)
  <2>1. (0 + 1)..0 = {}
    OBVIOUS
  <2>2. QED
    BY <1>1, <2>1 DEF InTurn
<1>3. CollectFits(p, <<>>, answers, 0, same)
  <2>1. InTurn(p, Collecting, 0, 0) /\ InTurn(p, Whole, 0, 0)
    BY <1>2
  <2>2. \A i \in 1..Len(p) : p[i].does = "one" => same
    BY <1>1
  <2>3. QED
    BY <2>1, <2>2, CollectStarts
<1>4. TicksFit(p, <<>>, 0)
  <2>1. InTurn(p, {"report"}, 0, 0) /\ InTurn(p, {"tick"}, 0, 0)
    BY <1>2
  <2>2. Before(p, {"report"}, {"tick"})
    BY <1>1 DEF Before
  <2>3. QED
    BY <2>1, <2>2, TicksStart
<1>5. ZipFits(p, <<>>)
  BY <1>1 DEF ZipFits, Before, Contains
<1>6. QED
  BY <1>1, <1>3, <1>4, <1>5 DEF Starts

\* Item by item: each is collected and reported, and looked at.
LEMMA StartsItems ==
  ASSUME NEW p \in Seq(Instr), NEW n \in Nat, NEW answers, NEW same, NEW sink, NEW query,
         InTurn(p, Collecting, 0, n), InTurn(p, {"report"}, 0, n),
         InTurn(p, Whole, n, n), InTurn(p, {"tick"}, 0, 0), InTurn(p, {"zip"}, 0, 0),
         InTurn(p, {"work"}, 0, 0)
  PROVE  Starts(p, answers, n, same, sink, query)
<1>1. \A i \in 1..Len(p) : p[i].does \notin {"one", "all", "work"}
  <2>1. \A i \in 1..Len(p) : p[i].does \notin Whole /\ p[i].does \notin {"work"}
    BY NoneInTurn
  <2>2. QED
    BY <2>1 DEF Whole
<1>2. CollectFits(p, <<>>, answers, n, same)
  <2>1. \A i \in 1..Len(p) : p[i].does = "one" => same
    BY <1>1
  <2>2. QED
    BY <2>1, CollectStarts
<1>3. TicksFit(p, <<>>, n)
  <2>1. Before(p, {"report"}, {"tick"})
    <3>1. 0 \in Int
      OBVIOUS
    <3>2. QED
      BY <3>1, BeforeNone, Zenon
  <2>2. QED
    BY <2>1, TicksStart
<1>4. ZipFits(p, <<>>)
  <2>1. Before(p, Collecting \cup Whole, {"zip"})
    <3>1. 0 \in Int
      OBVIOUS
    <3>2. QED
      BY <3>1, BeforeNone, Zenon
  <2>2. ~Contains(<<>>, "absent")
    BY DEF Contains
  <2>3. \A i \in 1..Len(p) : p[i].does \notin Whole \cup {"work"}
    BY <1>1 DEF Whole
  <2>4. QED
    BY <2>1, <2>2, <2>3 DEF ZipFits
<1>5. QED
  BY <1>2, <1>3, <1>4 DEF Starts


\* One entry into Lean is to give all answers, or reports each of them.
LeanKinds == {Collecting, Whole, {"tick"}, {"one"}}
AtOnce(p, n, sink) ==
  /\ InTurn(p, {"one"}, 0, 0)
  /\ sink => /\ InTurn(p, Collecting, 0, n) /\ InTurn(p, Whole, n, n)
             /\ InTurn(p, {"tick"}, 0, n)
  /\ ~sink => /\ InTurn(p, Collecting, n, n) /\ InTurn(p, Whole, n - 1, n)
              /\ InTurn(p, {"tick"}, 0, 0)

LEMMA JoinAtOnce ==
  ASSUME NEW p \in Seq(Instr), NEW q \in Seq(Instr), NEW n \in Nat, NEW sink \in BOOLEAN,
         \A D \in LeanKinds : InTurn(p, D, 0, 0), AtOnce(q, n, sink)
  PROVE  /\ p \o q \in Seq(Instr) /\ AtOnce(p \o q, n, sink)
         /\ q \o p \in Seq(Instr) /\ AtOnce(q \o p, n, sink)
<1>1. ASSUME NEW D \in LeanKinds, NEW k \in Int, NEW x \in Int, k <= x, InTurn(q, D, k, x)
      PROVE  InTurn(p \o q, D, k, x) /\ InTurn(q \o p, D, k, x)
  <2>1. InTurn(p, D, 0, 0) /\ 0 \in Int
    OBVIOUS
  <2>2. QED
    BY <1>1, <2>1, JoinNone, Zenon
<1>2. /\ Collecting \in LeanKinds /\ Whole \in LeanKinds
      /\ {"tick"} \in LeanKinds /\ {"one"} \in LeanKinds
  BY DEF LeanKinds
<1>3. /\ 0 \in Int /\ n \in Int /\ n - 1 \in Int
      /\ 0 <= 0 /\ 0 <= n /\ n <= n /\ n - 1 <= n
  OBVIOUS
<1>4. InTurn(p \o q, {"one"}, 0, 0) /\ InTurn(q \o p, {"one"}, 0, 0)
  <2>1. InTurn(q, {"one"}, 0, 0)
    BY DEF AtOnce
  <2>2. QED
    BY <1>1, <1>2, <1>3, <2>1, Zenon
<1>5. ASSUME sink PROVE AtOnce(p \o q, n, sink) /\ AtOnce(q \o p, n, sink)
  <2>1. InTurn(q, Collecting, 0, n) /\ InTurn(q, Whole, n, n) /\ InTurn(q, {"tick"}, 0, n)
    BY <1>5 DEF AtOnce
  <2>2. InTurn(p \o q, Collecting, 0, n) /\ InTurn(q \o p, Collecting, 0, n)
    BY <1>1, <1>2, <1>3, <2>1, Zenon
  <2>3. InTurn(p \o q, Whole, n, n) /\ InTurn(q \o p, Whole, n, n)
    BY <1>1, <1>2, <1>3, <2>1, Zenon
  <2>4. InTurn(p \o q, {"tick"}, 0, n) /\ InTurn(q \o p, {"tick"}, 0, n)
    BY <1>1, <1>2, <1>3, <2>1, Zenon
  <2>5. QED
    BY <1>4, <1>5, <2>2, <2>3, <2>4, Zenon DEF AtOnce
<1>6. ASSUME ~sink PROVE AtOnce(p \o q, n, sink) /\ AtOnce(q \o p, n, sink)
  <2>1. /\ InTurn(q, Collecting, n, n) /\ InTurn(q, Whole, n - 1, n)
        /\ InTurn(q, {"tick"}, 0, 0)
    BY <1>6 DEF AtOnce
  <2>2. InTurn(p \o q, Collecting, n, n) /\ InTurn(q \o p, Collecting, n, n)
    BY <1>1, <1>2, <1>3, <2>1, Zenon
  <2>3. InTurn(p \o q, Whole, n - 1, n) /\ InTurn(q \o p, Whole, n - 1, n)
    BY <1>1, <1>2, <1>3, <2>1, Zenon
  <2>4. InTurn(p \o q, {"tick"}, 0, 0) /\ InTurn(q \o p, {"tick"}, 0, 0)
    BY <1>1, <1>2, <1>3, <2>1, Zenon
  <2>5. QED
    BY <1>4, <1>6, <2>2, <2>3, <2>4, Zenon DEF AtOnce
<1>7. p \o q \in Seq(Instr) /\ q \o p \in Seq(Instr)
  BY LenJoin, Zenon
<1>8. QED
  BY <1>5, <1>6, <1>7

LEMMA CheckIsPlain ==
  Check \in Seq(Instr) /\ \A D \in LeanKinds \cup {{"report"}, {"zip"}} : InTurn(Check, D, 0, 0)
<1>1. \A D \in LeanKinds \cup {{"report"}, {"zip"}} : "check" \notin D
  BY DEF LeanKinds, Collecting, Whole
<1>2. 0 \in Int
  OBVIOUS
<1>3. QED
  BY <1>1, <1>2, CheckNone, Zenon

LEMMA AllIsAtOnce ==
  ASSUME NEW n \in Nat, NEW sink \in BOOLEAN
  PROVE  /\ AllAtOnce(n, sink) \in Seq(Instr) /\ AtOnce(AllAtOnce(n, sink), n, sink)
         /\ InTurn(AllAtOnce(n, sink), {"report"}, 0, 0)
         /\ InTurn(AllAtOnce(n, sink), {"zip"}, 0, 0)
<1> DEFINE a == AllAtOnce(n, sink)
<1>1. \A D \in {{"report"}, {"zip"}, {"one"}} :
        /\ D \cap {"enter", "leave"} = {} /\ ~("work" \in D /\ "tick" \in D)
        /\ "work" \notin D /\ "tick" \notin D /\ "all" \notin D
  OBVIOUS
<1>2. 0 \in Int /\ n \in Int
  OBVIOUS
<1>3. \A D \in {{"report"}, {"zip"}, {"one"}} : a \in Seq(Instr) /\ InTurn(a, D, 0, 0)
  <2> HIDE DEF a
  <2>1. ASSUME NEW D \in {{"report"}, {"zip"}, {"one"}}
        PROVE  a \in Seq(Instr) /\ InTurn(a, D, 0, 0)
    BY <1>1, <1>2, <2>1, AllAtOnceInTurn, Zenon DEF a
  <2>2. QED
    BY <2>1
<1>4. /\ sink => InTurn(a, Collecting, 0, n)
      /\ ~sink => InTurn(a, Collecting, n, n)
  <2>1. /\ Collecting \cap {"enter", "leave"} = {} /\ "work" \in Collecting
        /\ "tick" \notin Collecting /\ "all" \notin Collecting
    BY DEF Collecting
  <2> HIDE DEF a
  <2>2. QED
    BY <1>2, <2>1, AllAtOnceInTurn, Zenon DEF a
<1>5. /\ sink => InTurn(a, Whole, n, n)
      /\ ~sink => InTurn(a, Whole, n - 1, n)
  <2>1. /\ Whole \cap {"enter", "leave"} = {} /\ "work" \notin Whole
        /\ "tick" \notin Whole /\ "all" \in Whole
    BY DEF Whole
  <2> HIDE DEF a
  <2>2. QED
    BY <1>2, <2>1, AllAtOnceInTurn, Zenon DEF a
<1>6. /\ sink => InTurn(a, {"tick"}, 0, n)
      /\ ~sink => InTurn(a, {"tick"}, 0, 0)
  <2>1. /\ {"tick"} \cap {"enter", "leave"} = {} /\ "work" \notin {"tick"}
        /\ "tick" \in {"tick"} /\ "all" \notin {"tick"}
    OBVIOUS
  <2> HIDE DEF a
  <2>2. QED
    BY <1>2, <2>1, AllAtOnceInTurn, Zenon DEF a
<1> HIDE DEF a
<1>7. {"report"} \in {{"report"}, {"zip"}, {"one"}} /\ {"zip"} \in {{"report"}, {"zip"}, {"one"}}
      /\ {"one"} \in {{"report"}, {"zip"}, {"one"}}
  OBVIOUS
<1>8. a \in Seq(Instr) /\ InTurn(a, {"report"}, 0, 0) /\ InTurn(a, {"zip"}, 0, 0)
      /\ InTurn(a, {"one"}, 0, 0)
  BY <1>3, <1>7, Zenon
<1>9. AtOnce(a, n, sink)
  BY <1>4, <1>5, <1>6, <1>8, Zenon DEF AtOnce
<1>10. QED
  BY <1>8, <1>9 DEF a

\* One answer for all is to come.
LEMMA CollectOnce ==
  ASSUME NEW p, NEW n \in Nat, NEW answers, NEW same,
         InTurn(p, Collecting, n, n), InTurn(p, Whole, n - 1, n),
         \A i \in 1..Len(p) : p[i].does = "one" => same
  PROVE  CollectFits(p, <<>>, answers, n, same)
<1>1. \E k \in 0..n, w \in {n - 1, n} :
        /\ InTurn(p, Collecting, k, n) /\ InTurn(p, Whole, w, n)
        /\ w = n => <<>> = [i \in 1..k |-> answers[i]]
        /\ w # n => k = n /\ <<>> = <<>>
  <2> WITNESS n \in 0..n
  <2> WITNESS n - 1 \in {n - 1, n}
  <2> QED
    OBVIOUS
<1>2. QED
  BY <1>1 DEF CollectFits

LEMMA AtOnceCollects ==
  ASSUME NEW p \in Seq(Instr), NEW n \in Nat, NEW sink \in BOOLEAN, NEW answers, NEW same,
         AtOnce(p, n, sink)
  PROVE  CollectFits(p, <<>>, answers, n, same)
<1>1. \A i \in 1..Len(p) : p[i].does = "one" => same
  <2>1. InTurn(p, {"one"}, 0, 0) /\ 0 \in Int
    BY DEF AtOnce
  <2>2. \A i \in 1..Len(p) : p[i].does \notin {"one"}
    BY <2>1, NoneInTurn, Zenon
  <2>3. QED
    BY <2>2
<1>2. CASE sink
  BY <1>1, <1>2, CollectStarts, Zenon DEF AtOnce
<1>3. CASE ~sink
  BY <1>1, <1>3, CollectOnce, Zenon DEF AtOnce
<1>4. QED
  BY <1>2, <1>3

LEMMA StartsAtOnce ==
  ASSUME NEW n \in Nat, NEW sink \in BOOLEAN, NEW answers, NEW same
  PROVE  Starts(Check \o AllAtOnce(n, sink), answers, n, same, sink, FALSE)
<1>1. PICK a \in Seq(Instr) :
        a = AllAtOnce(n, sink) /\ AtOnce(a, n, sink) /\ InTurn(a, {"report"}, 0, 0)
  BY AllIsAtOnce
<1>2. PICK c \in Seq(Instr) :
        c = Check /\ \A D \in LeanKinds \cup {{"report"}, {"zip"}} : InTurn(c, D, 0, 0)
  BY CheckIsPlain
<1>3. \A D \in LeanKinds : InTurn(c, D, 0, 0)
  BY <1>2
<1>4. PICK p \in Seq(Instr) : p = c \o a /\ AtOnce(p, n, sink)
  BY <1>1, <1>3, JoinAtOnce
<1>5. CollectFits(p, <<>>, answers, n, same)
  BY <1>4, AtOnceCollects
<1>6. ASSUME sink PROVE TicksFit(p, <<>>, n)
  <2>1. InTurn(p, {"report"}, 0, 0)
    <3>1. InTurn(c, {"report"}, 0, 0)
      BY <1>2
    <3>2. 0 \in Int /\ 0 <= 0
      OBVIOUS
    <3>3. QED
      BY <1>1, <1>4, <3>1, <3>2, JoinNone, Zenon
  <2>2. InTurn(p, {"tick"}, 0, n)
    BY <1>4, <1>6 DEF AtOnce
  <2>3. Before(p, {"report"}, {"tick"})
    <3>1. 0 \in Int
      OBVIOUS
    <3>2. QED
      BY <2>1, <3>1, BeforeNone, Zenon
  <2>4. QED
    BY <2>1, <2>2, <2>3, TicksStart
<1>7. Check \o AllAtOnce(n, sink) = p
  BY <1>1, <1>2, <1>4
<1>8. QED
  BY <1>5, <1>6, <1>7 DEF Starts

\* The names, each reported; then one entry into Lean; then the look for absent ones.
LEMMA StartsQuery ==
  ASSUME NEW n \in Nat, NEW sink \in BOOLEAN, NEW answers, NEW same
  PROVE  Starts(QueryAtOnce(n, sink), answers, n, same, sink, TRUE)
<1>1. PICK a \in Seq(Instr) :
        /\ a = AllAtOnce(n, sink) /\ AtOnce(a, n, sink) /\ InTurn(a, {"report"}, 0, 0)
        /\ InTurn(a, {"zip"}, 0, 0)
  BY AllIsAtOnce
<1>0. 0 \in Int /\ n \in Int /\ 0 <= 0 /\ 0 <= n
  OBVIOUS
<1>2. PICK m \in Seq(Instr) :
        /\ m = NamesMade(n) /\ InTurn(m, {"report"}, 0, n)
        /\ \A D \in LeanKinds \cup {{"zip"}} : InTurn(m, D, 0, 0)
  <2>1. ASSUME NEW D \in LeanKinds \cup {{"zip"}} PROVE InTurn(NamesMade(n), D, 0, 0)
    <3>1. D \cap {"check", "name"} = {} /\ "report" \notin D
      BY <2>1 DEF LeanKinds, Collecting, Whole
    <3>2. QED
      BY <1>0, <3>1, NamesMadeInTurn, Zenon
  <2>2. {"report"} \cap {"check", "name"} = {} /\ "report" \in {"report"}
    OBVIOUS
  <2>3. NamesMade(n) \in Seq(Instr) /\ InTurn(NamesMade(n), {"report"}, 0, n)
    BY <2>2, NamesMadeInTurn, Zenon
  <2>4. QED
    BY <2>1, <2>3
<1>3. PICK z \in Seq(Instr) :
        /\ z = Step("zip", 0) /\ Len(z) = 1 /\ z[1].does = "zip"
        /\ \A D \in LeanKinds \cup {{"report"}, Collecting \cup Whole} : InTurn(z, D, 0, 0)
  <2>1. "zip" \in Does /\ 0 \in Nat
    BY DEF Does
  <2>2. \A D \in LeanKinds \cup {{"report"}, Collecting \cup Whole} : "zip" \notin D
    BY DEF LeanKinds, Collecting, Whole
  <2>3. PICK z \in Seq(Instr) : z = Step("zip", 0) /\ Len(z) = 1 /\ z[1].does = "zip"
    BY <2>1, StepIs
  <2>4. \A D \in LeanKinds \cup {{"report"}, Collecting \cup Whole} : InTurn(z, D, 0, 0)
    BY <1>0, <2>1, <2>2, <2>3, StepInTurn, Zenon
  <2>5. QED
    BY <2>3, <2>4
<1>4. PICK b \in Seq(Instr) : b = m \o a /\ AtOnce(b, n, sink)
  <2>1. \A D \in LeanKinds : InTurn(m, D, 0, 0)
    BY <1>2
  <2>0. AtOnce(a, n, sink)
    BY <1>1
  <2>2. m \o a \in Seq(Instr) /\ AtOnce(m \o a, n, sink)
    BY <2>0, <2>1, JoinAtOnce
  <2>3. QED
    BY <2>2
<1>5. PICK p \in Seq(Instr) : p = b \o z /\ AtOnce(p, n, sink)
  <2>1. \A D \in LeanKinds : InTurn(z, D, 0, 0)
    BY <1>3
  <2>0. AtOnce(b, n, sink)
    BY <1>4
  <2>2. b \o z \in Seq(Instr) /\ AtOnce(b \o z, n, sink)
    BY <2>0, <2>1, JoinAtOnce
  <2>3. QED
    BY <2>2
<1>6. CollectFits(p, <<>>, answers, n, same)
  BY <1>5, AtOnceCollects
<1>7. /\ Before(m, {"report"}, {"tick"}) /\ Before(a, {"report"}, {"tick"})
      /\ Before(z, {"report"}, {"tick"})
  <2>1. InTurn(m, {"tick"}, 0, 0) /\ InTurn(z, {"report"}, 0, 0)
    BY <1>2, <1>3 DEF LeanKinds
  <2>2. QED
    BY <1>0, <1>1, <2>1, BeforeNone, Zenon
<1>8. Before(p, {"report"}, {"tick"})
  <2>1. InTurn(m, {"tick"}, 0, 0) \/ InTurn(a, {"report"}, 0, 0)
    BY <1>1
  <2>2. Before(b, {"report"}, {"tick"})
    BY <1>4, <1>7, <2>1, BeforeJoin, Zenon
  <2>3. InTurn(z, {"report"}, 0, 0)
    BY <1>3
  <2>4. QED
    BY <1>5, <1>7, <2>2, <2>3, BeforeJoin, Zenon
<1>9. InTurn(p, {"report"}, 0, n)
  <2>1. InTurn(b, {"report"}, 0, n)
    BY <1>0, <1>1, <1>2, <1>4, JoinNone, Zenon
  <2>2. InTurn(z, {"report"}, 0, 0)
    BY <1>3
  <2>3. QED
    BY <1>0, <1>5, <2>1, <2>2, JoinNone, Zenon
<1>10. TicksFit(p, <<>>, n)
  <2>1. CASE sink
    <3>1. InTurn(p, {"tick"}, 0, n)
      BY <1>5, <2>1 DEF AtOnce
    <3>2. n \in {0, n} /\ n \in {n, n}
      OBVIOUS
    <3>3. QED
      BY <1>8, <1>9, <3>1, <3>2, TicksStart, Zenon
  <2>2. CASE ~sink
    <3>1. InTurn(p, {"tick"}, 0, 0)
      BY <1>5, <2>2 DEF AtOnce
    <3>2. n \in {0, n} /\ 0 \in {0, n} /\ n \in {n, 0}
      OBVIOUS
    <3>3. QED
      BY <1>8, <1>9, <3>1, <3>2, TicksStart, Zenon
  <2>3. QED
    BY <2>1, <2>2
<1>11. ZipFits(p, <<>>)
  <2>1. InTurn(b, {"zip"}, 0, 0)
    <3>1. InTurn(m, {"zip"}, 0, 0)
      BY <1>2
    <3>2. QED
      BY <1>0, <1>1, <1>4, <3>1, JoinNone, Zenon
  <2>2. Before(b, Collecting \cup Whole, {"zip"}) /\ Before(z, Collecting \cup Whole, {"zip"})
    <3>1. InTurn(z, Collecting \cup Whole, 0, 0)
      BY <1>3
    <3>2. QED
      BY <1>0, <2>1, <3>1, BeforeNone, Zenon
  <2>3. Before(p, Collecting \cup Whole, {"zip"})
    BY <1>5, <2>1, <2>2, BeforeJoin, Zenon
  <2>4. \E i \in 1..Len(p) : p[i].does = "zip"
    <3>1. /\ Len(p) = Len(b) + Len(z) /\ Len(b) \in Nat
          /\ \A i \in 1..Len(z) : p[Len(b) + i] = z[i]
      BY <1>5, Concat
    <3>2. Len(b) + 1 \in 1..Len(p) /\ p[Len(b) + 1] = z[1]
      BY <1>3, <3>1
    <3>3. QED
      BY <1>3, <3>2
  <2>5. QED
    BY <2>3, <2>4, Zenon DEF ZipFits
<1>12. QueryAtOnce(n, sink) = p
  <2>1. QueryAtOnce(n, sink) = (NamesMade(n) \o AllAtOnce(n, sink)) \o Step("zip", 0)
    BY DEF QueryAtOnce, NamesMade
  <2>2. QED
    BY <1>1, <1>2, <1>3, <1>4, <1>5, <2>1
<1>13. QED
  BY <1>6, <1>10, <1>11, <1>12 DEF Starts

\* One answer for a batch of equal names.
LEMMA StartsOne ==
  ASSUME NEW n \in Nat, NEW answers
  PROVE  Starts(Check \o Step("one", n), answers, n, TRUE, FALSE, FALSE)
<1>1. "one" \in Does /\ "check" \notin Collecting /\ "check" \notin Whole
      /\ "one" \notin Collecting /\ "one" \in Whole
  BY DEF Does, Collecting, Whole
<1>2. PICK p \in Seq(Instr) : p = Check \o Step("one", n)
  BY <1>1, CheckedFrom
<1>3. InTurn(p, Collecting, n, n) /\ InTurn(p, Whole, n - 1, n)
  BY <1>1, <1>2, CheckedFrom DEF From
<1>4. CollectFits(p, <<>>, answers, n, TRUE)
  BY <1>3, CollectOnce
<1>5. QED
  BY <1>2, <1>4 DEF Starts

\* Item by item, after the listing or not.
LEMMA StartsOneByOne ==
  ASSUME NEW m \in BulkMethods, NEW n \in Nat, NEW answers, NEW same, NEW sink, NEW query,
         NEW c \in Seq(Instr), \A D \in Kinds : InTurn(c, D, 0, 0)
  PROVE  Starts(c \o OneByOne(m, n), answers, n, same, sink, query)
<1>0. 0 \in Int /\ n \in Int /\ 0 <= 0 /\ 0 <= n /\ n <= n
  OBVIOUS
<1>1. PICK e \in Seq(Instr) :
        /\ e = OneByOne(m, n) /\ InTurn(e, Collecting, 0, n) /\ InTurn(e, {"report"}, 0, n)
        /\ InTurn(e, Whole, n, n)
        /\ \A D \in {{"tick"}, {"zip"}, {"work"}} : InTurn(e, D, 0, 0)
  <2>1. \A D \in Kinds : D \cap {"check", "name"} = {} /\ ~("call" \in D /\ "report" \in D)
    BY KindsAre
  <2>2. /\ Collecting \in Kinds /\ {"report"} \in Kinds /\ Whole \in Kinds
        /\ {"tick"} \in Kinds /\ {"zip"} \in Kinds /\ {"work"} \in Kinds
    BY DEF Kinds
  <2>3. OneByOne(m, n) \in Seq(Instr)
    BY <2>1, <2>2, OneByOneInTurn, Zenon
  <2>4. InTurn(OneByOne(m, n), Collecting, 0, n)
    <3>1. "call" \in Collecting
      BY DEF Collecting
    <3>2. QED
      BY <2>1, <2>2, <3>1, OneByOneInTurn, Zenon
  <2>5. InTurn(OneByOne(m, n), {"report"}, 0, n)
    <3>1. "report" \in {"report"}
      OBVIOUS
    <3>2. QED
      BY <2>1, <2>2, <3>1, OneByOneInTurn, Zenon
  <2>6. InTurn(OneByOne(m, n), Whole, n, n)
    <3>1. "call" \notin Whole /\ "report" \notin Whole
      BY DEF Whole
    <3>2. QED
      BY <1>0, <2>1, <2>2, <3>1, OneByOneInTurn, Zenon
  <2>7. ASSUME NEW D \in {{"tick"}, {"zip"}, {"work"}} PROVE InTurn(OneByOne(m, n), D, 0, 0)
    <3>1. "call" \notin D /\ "report" \notin D /\ D \in Kinds
      BY <2>2, <2>7
    <3>2. QED
      BY <1>0, <2>1, <3>1, OneByOneInTurn, Zenon
  <2>8. QED
    BY <2>3, <2>4, <2>5, <2>6, <2>7
<1>2. \A D \in Kinds : InTurn(c, D, 0, 0)
  OBVIOUS
<1>3. PICK p \in Seq(Instr) : p = c \o e
  BY LenJoin
<1>4. ASSUME NEW D \in Kinds, NEW k \in Int, NEW x \in Int, k <= x, InTurn(e, D, k, x)
      PROVE  InTurn(p, D, k, x)
  BY <1>0, <1>2, <1>3, <1>4, JoinNone, Zenon
<1>5. /\ Collecting \in Kinds /\ {"report"} \in Kinds /\ Whole \in Kinds
      /\ {"tick"} \in Kinds /\ {"zip"} \in Kinds /\ {"work"} \in Kinds
  BY DEF Kinds
<1>6. /\ InTurn(p, Collecting, 0, n) /\ InTurn(p, {"report"}, 0, n) /\ InTurn(p, Whole, n, n)
  BY <1>0, <1>1, <1>4, <1>5, Zenon
<1>7. InTurn(e, {"tick"}, 0, 0) /\ InTurn(e, {"zip"}, 0, 0) /\ InTurn(e, {"work"}, 0, 0)
  BY <1>1
<1>8. InTurn(p, {"tick"}, 0, 0) /\ InTurn(p, {"zip"}, 0, 0) /\ InTurn(p, {"work"}, 0, 0)
  BY <1>0, <1>4, <1>5, <1>7, Zenon
<1>9. Starts(p, answers, n, same, sink, query)
  BY <1>6, <1>8, StartsItems
<1>10. QED
  BY <1>1, <1>3, <1>9

LEMMA EmptyIsPlain == <<>> \in Seq(Instr) /\ \A D \in Kinds : InTurn(<<>>, D, 0, 0)
<1> DEFINE p == <<>>
<1>1. p \in Seq(Instr) /\ 1..Len(p) = {}
  OBVIOUS
<1> HIDE DEF p
<1>2. ASSUME NEW D \in Kinds PROVE InTurn(p, D, 0, 0)
  <2>1. 0 \in Int /\ \A i \in 1..Len(p) : p[i].does \notin D
    BY <1>1
  <2>2. QED
    BY <1>1, <2>1, NoneInTurn, Zenon
<1>3. QED
  BY <1>1, <1>2 DEF p

\* The listing of list_declarations_strings.
LEMMA ListingIsPlain ==
  /\ Check \o Step("list", 0) \in Seq(Instr)
  /\ \A D \in Kinds : InTurn(Check \o Step("list", 0), D, 0, 0)
<1>1. "list" \in Does /\ 0 \in Nat
  BY DEF Does
<1>2. ASSUME NEW D \in Kinds PROVE /\ Check \o Step("list", 0) \in Seq(Instr)
                                   /\ InTurn(Check \o Step("list", 0), D, 0, 0)
  <2>1. D \cap {"check", "name", "list", "enter", "leave"} = {}
    BY KindsAre
  <2>2. "check" \notin D /\ "list" \notin D
    BY <2>1
  <2>3. From(D, "list", 0) = 0
    BY <2>2 DEF From
  <2>4. QED
    BY <1>1, <2>2, <2>3, CheckedFrom
<1>3. {"zip"} \in Kinds
  BY DEF Kinds
<1>4. QED
  BY <1>2, <1>3

LEMMA StartsListing ==
  ASSUME NEW answers, NEW same, NEW sink, NEW query
  PROVE  Starts(Check \o Step("list", 0), answers, 0, same, sink, query)
<1>1. PICK p \in Seq(Instr) :
        p = Check \o Step("list", 0) /\ \A D \in Kinds : InTurn(p, D, 0, 0)
  BY ListingIsPlain
<1>2. /\ InTurn(p, Collecting, 0, 0) /\ InTurn(p, {"report"}, 0, 0) /\ InTurn(p, Whole, 0, 0)
      /\ InTurn(p, {"tick"}, 0, 0) /\ InTurn(p, {"zip"}, 0, 0) /\ InTurn(p, {"work"}, 0, 0)
  BY <1>1 DEF Kinds
<1>3. Starts(p, answers, 0, same, sink, query)
  BY <1>2, StartsItems
<1>4. QED
  BY <1>1, <1>3

LEMMA BulkStarts ==
  ASSUME NEW m \in BulkMethods, NEW names, Len(names) \in Nat, NEW token \in BOOLEAN,
         NEW sink \in BOOLEAN, NEW answers
  PROVE  Starts(Bulk(m, names, token, sink), answers, Len(names), Same(names), sink,
                SingleOf[m] = "query_declaration")
<1> DEFINE n == Len(names)
           query == SingleOf[m] = "query_declaration"
           b == Bulk(m, names, token, sink)
           Fits(p) == Starts(p, answers, n, Same(names), sink, query)
<1>1. m \in DOMAIN SingleOf /\ (query <=> m = "query_declarations_bulk")
  BY DEF BulkMethods, SingleOf
<1>2. names = <<>> => n = 0
  OBVIOUS
<1>3. ASSUME NEW k \in Nat PROVE Starts(<<>> \o OneByOne(m, k), answers, k, Same(names), sink, query)
  BY EmptyIsPlain, StartsOneByOne
<1>4. <<>> \o OneByOne(m, n) = OneByOne(m, n)
  <2>1. PICK s \in Seq(Instr) : s = OneByOne(m, n)
    BY OneByOneIs DEF Ordinary
  <2>2. <<>> \o s = s
    OBVIOUS
  <2>3. QED
    BY <2>1, <2>2
<1>5. Fits(OneByOne(m, n))
  BY <1>3, <1>4
<1>6. Fits((Check \o Step("list", 0)) \o OneByOne(m, n))
  BY ListingIsPlain, StartsOneByOne
<1>7. names = <<>> => Fits(Check \o Step("list", 0)) /\ Fits(<<>>)
  BY <1>2, StartsListing, StartsEmpty
<1>8. query => Fits(QueryAtOnce(n, sink))
  BY StartsQuery
<1>9. ~query => Fits(Check \o AllAtOnce(n, sink))
  BY StartsAtOnce
<1>10. ~query /\ ~sink /\ Same(names) => Fits(Check \o Step("one", n))
  BY StartsOne
<1> HIDE DEF query, n
<1> DEFINE listing == (Check \o Step("list", 0)) \o (IF names = <<>> THEN <<>> ELSE OneByOne(m, n))
           Equal == ~sink /\ Same(names) /\ m \notin {"elaborate_bulk", "query_declarations_bulk"}
<1>11. Fits(listing)
  <2>1. CASE names = <<>>
    <3>1. PICK s \in Seq(Instr) : s = Check \o Step("list", 0)
      BY ListingIsPlain
    <3>2. s \o <<>> = s
      OBVIOUS
    <3>3. listing = Check \o Step("list", 0)
      BY <2>1, <3>1, <3>2
    <3> HIDE DEF listing, Fits
    <3>4. QED
      BY <1>7, <2>1, <3>3 DEF Fits, query, n
  <2>2. CASE names # <<>>
    <3>1. listing = (Check \o Step("list", 0)) \o OneByOne(m, n)
      BY <2>2
    <3> HIDE DEF listing, Fits
    <3>2. QED
      BY <1>6, <3>1 DEF Fits, query, n
  <2>3. QED
    BY <2>1, <2>2
\* Where conditions overlap, any of the programs will do.
<1>12. \/ b = listing
       \/ names = <<>> /\ b = <<>>
       \/ b = OneByOne(m, n)
       \/ m = "query_declarations_bulk" /\ b = QueryAtOnce(n, sink)
       \/ Equal /\ b = Check \o Step("one", n)
       \/ m # "query_declarations_bulk" /\ b = Check \o AllAtOnce(n, sink)
  <2> DEFINE first == m = "list_declarations_strings"
             second == names = <<>>
             third == token \/ m = "name_to_string_bulk"
             fourth == m = "query_declarations_bulk"
             one == Check \o Step("one", n)
             all == Check \o AllAtOnce(n, sink)
             each == OneByOne(m, n)
             query1 == QueryAtOnce(n, sink)
  <2>1. b = CASE first -> listing [] second -> <<>> [] third -> each [] fourth -> query1
              [] Equal -> one [] OTHER -> all
    BY DEF Bulk, n
  <2> HIDE DEF first, second, third, fourth, one, all, each, query1, listing, Equal, b
  <2>2. \/ b = listing
        \/ second /\ b = <<>>
        \/ b = each
        \/ fourth /\ b = query1
        \/ Equal /\ b = one
        \/ ~fourth /\ b = all
    BY <2>1
  <2>3. QED
    BY <2>2, Zenon DEF second, fourth, one, all, each, query1
<1>13. Equal => ~query /\ ~sink /\ Same(names)
  BY <1>1
<1> HIDE DEF b, listing, Equal
<1>14. Fits(b)
  <2> HIDE DEF Fits
  <2>1. /\ names = <<>> => Fits(<<>>)
        /\ m = "query_declarations_bulk" => Fits(QueryAtOnce(n, sink))
        /\ Equal => Fits(Check \o Step("one", n))
        /\ m # "query_declarations_bulk" => Fits(Check \o AllAtOnce(n, sink))
    BY <1>1, <1>7, <1>8, <1>9, <1>10, <1>13 DEF Fits
  <2>2. Fits(OneByOne(m, n)) /\ Fits(listing)
    BY <1>5, <1>11 DEF Fits
  <2>3. QED
    BY <1>12, <2>1, <2>2, Zenon
<1>15. QED
  BY <1>14 DEF b, n, query

-----------------------------------------------------------------------------
(* One step more                                                           *)

\* The first ones of a sequence, and one more.
LEMMA OneMore ==
  ASSUME NEW e, NEW k \in Nat
  PROVE  [i \in 1..k |-> e[i]] \o <<e[k + 1]>> = [i \in 1..(k + 1) |-> e[i]]
<1> DEFINE S == {e[i] : i \in 1..(k + 1)}
           a == [i \in 1..k |-> e[i]]
           z == <<e[k + 1]>>
           c == a \o z
           d == [i \in 1..(k + 1) |-> e[i]]
<1>1. a \in Seq(S) /\ Len(a) = k /\ \A i \in 1..k : a[i] = e[i]
  OBVIOUS
<1>2. z \in Seq(S) /\ Len(z) = 1 /\ z[1] = e[k + 1]
  <2>1. e[k + 1] \in S
    OBVIOUS
  <2> HIDE DEF S
  <2>2. QED
    BY <2>1
<1>3. DOMAIN d = 1..(k + 1) /\ d = [i \in 1..(k + 1) |-> d[i]] /\ \A i \in 1..(k + 1) : d[i] = e[i]
  OBVIOUS
<1> HIDE DEF a, z, S, d
<1>4. /\ c \in Seq(S) /\ Len(c) = Len(a) + Len(z)
      /\ \A i \in 1..(Len(a) + Len(z)) : c[i] = IF i <= Len(a) THEN a[i] ELSE z[i - Len(a)]
  BY <1>1, <1>2, ConcatProperties
<1> HIDE DEF c
<1>5. Len(c) = k + 1 /\ c = [i \in 1..(k + 1) |-> c[i]]
  BY <1>1, <1>2, <1>4
<1>6. \A i \in 1..(k + 1) : c[i] = e[i]
  <2> TAKE i \in 1..(k + 1)
  <2>1. c[i] = IF i <= k THEN a[i] ELSE z[i - k]
    BY <1>1, <1>2, <1>4
  <2>2. CASE i <= k
    BY <1>1, <2>1, <2>2
  <2>3. CASE ~(i <= k)
    <3>1. i = k + 1 /\ i - k = 1
      BY <2>3
    <3>2. QED
      BY <1>2, <2>1, <2>3, <3>1
  <2>4. QED
    BY <2>2, <2>3
<1>7. c = d
  BY <1>3, <1>5, <1>6
<1>8. QED
  BY <1>7 DEF a, z, c, d

LEMMA CountIs == \A k \in Nat : Count(k) \in Seq(Nat) /\ Len(Count(k)) = k
BY DEF Count

LEMMA CountMore == ASSUME NEW k \in Nat PROVE Count(k) \o <<k + 1>> = Count(k + 1)
<1> DEFINE e == [i \in 1..(k + 1) |-> i]
<1>1. [i \in 1..k |-> e[i]] \o <<e[k + 1]>> = [i \in 1..(k + 1) |-> e[i]]
  BY OneMore
<1>2. [i \in 1..k |-> e[i]] = Count(k) /\ [i \in 1..(k + 1) |-> e[i]] = Count(k + 1)
      /\ e[k + 1] = k + 1
  BY DEF Count
<1>3. QED
  BY <1>1, <1>2

\* The item a step is about.
LEMMA CollectIsOne ==
  ASSUME NEW p \in Seq(Instr), p # <<>>, NEW n \in Nat, NEW out, NEW answers, NEW same,
         CollectFits(p, out, answers, n, same)
  PROVE  /\ p[1].does \in Collecting => p[1].at \in 1..n
         /\ p[1].does \in Whole => p[1].at = n
         /\ p[1].does = "one" => same
<1>1. PICK k \in 0..n, w \in {n - 1, n} :
        InTurn(p, Collecting, k, n) /\ InTurn(p, Whole, w, n)
  BY DEF CollectFits
<1>2. k \in Int /\ w \in Int /\ n \in Int
  OBVIOUS
<1>3. p[1].does \in Collecting => k < n /\ p[1].at = k + 1
  BY <1>1, <1>2, InTurnTail, Zenon
<1>4. p[1].does \in Whole => w < n /\ p[1].at = w + 1
  BY <1>1, <1>2, InTurnTail, Zenon
<1>5. 1 \in 1..Len(p)
  BY TailIs
<1>6. p[1].does = "one" => same
  BY <1>5 DEF CollectFits
<1>7. QED
  BY <1>3, <1>4, <1>6

LEMMA FitsWhen ==
  ASSUME NEW p, NEW n \in Nat, NEW out, NEW answers, NEW same, NEW k \in 0..n,
         \A i \in 1..Len(p) : p[i].does = "one" => same,
         InTurn(p, Collecting, k, n), InTurn(p, Whole, n, n),
         out = [i \in 1..k |-> answers[i]]
  PROVE  CollectFits(p, out, answers, n, same)
<1>1. \E x \in 0..n, w \in {n - 1, n} :
        /\ InTurn(p, Collecting, x, n) /\ InTurn(p, Whole, w, n)
        /\ w = n => out = [i \in 1..x |-> answers[i]]
        /\ w # n => x = n /\ out = <<>>
  <2> WITNESS k \in 0..n
  <2> WITNESS n \in {n - 1, n}
  <2> QED
    OBVIOUS
<1>2. QED
  BY <1>1 DEF CollectFits

LEMMA CollectStep ==
  ASSUME NEW p \in Seq(Instr), p # <<>>, NEW n \in Nat, NEW out, NEW answers, NEW same,
         CollectFits(p, out, answers, n, same), NEW new,
         p[1].does \in Collecting => new = out \o <<answers[p[1].at]>>,
         p[1].does \in Whole => new = out \o [j \in 1..n |-> answers[j]],
         p[1].does \notin Collecting \cup Whole => new = out
  PROVE  CollectFits(Tail(p), new, answers, n, same)
<1> DEFINE q == Tail(p)
<1>1. PICK k \in 0..n, w \in {n - 1, n} :
        /\ InTurn(p, Collecting, k, n) /\ InTurn(p, Whole, w, n)
        /\ w = n => out = [i \in 1..k |-> answers[i]]
        /\ w # n => k = n /\ out = <<>>
  BY DEF CollectFits
<1>2. k \in Int /\ w \in Int /\ n \in Int /\ k \in Nat
  OBVIOUS
<1>3. /\ p[1].does \notin Collecting => InTurn(q, Collecting, k, n)
      /\ p[1].does \in Collecting => k < n /\ p[1].at = k + 1 /\ InTurn(q, Collecting, k + 1, n)
  BY <1>1, <1>2, InTurnTail, Zenon
<1>4. /\ p[1].does \notin Whole => InTurn(q, Whole, w, n)
      /\ p[1].does \in Whole => w < n /\ p[1].at = w + 1 /\ InTurn(q, Whole, w + 1, n)
  BY <1>1, <1>2, InTurnTail, Zenon
<1>5. \A i \in 1..Len(q) : q[i].does = "one" => same
  <2>1. \A i \in 1..Len(q) : q[i] = p[i + 1] /\ i + 1 \in 1..Len(p)
    BY TailIs
  <2> HIDE DEF q
  <2>2. QED
    BY <2>1 DEF CollectFits
<1> HIDE DEF q
<1>6. CASE p[1].does \in Collecting
  <2>1. p[1].does \notin Whole
    BY <1>6 DEF Collecting, Whole
  <2>2. w = n /\ k + 1 \in 0..n
    BY <1>1, <1>3, <1>6
  <2>3. new = [i \in 1..(k + 1) |-> answers[i]]
    <3>1. out = [i \in 1..k |-> answers[i]] /\ p[1].at = k + 1
      BY <1>1, <1>3, <1>6, <2>2
    <3>2. new = [i \in 1..k |-> answers[i]] \o <<answers[k + 1]>>
      BY <1>6, <3>1
    <3>3. QED
      BY <1>2, <3>2, OneMore
  <2>4. InTurn(q, Collecting, k + 1, n) /\ InTurn(q, Whole, n, n)
    BY <1>3, <1>4, <1>6, <2>1, <2>2
  <2>5. QED
    BY <1>5, <2>2, <2>3, <2>4, FitsWhen DEF q
<1>7. CASE p[1].does \in Whole
  <2>1. p[1].does \notin Collecting
    BY <1>7 DEF Collecting, Whole
  <2>2. w = n - 1 /\ k = n /\ out = <<>> /\ n \in 0..n
    BY <1>1, <1>4, <1>7
  <2>3. new = [i \in 1..n |-> answers[i]]
    <3>1. PICK s : s = [j \in 1..n |-> answers[j]]
      OBVIOUS
    <3>2. PICK S : S = {answers[j] : j \in 1..n}
      OBVIOUS
    <3>3. s \in Seq(S)
      BY <3>1, <3>2
    <3>4. <<>> \o s = s
      BY <3>3, ConcatEmptySeq
    <3>5. QED
      BY <1>7, <2>2, <3>1, <3>4
  <2>4. InTurn(q, Collecting, n, n) /\ InTurn(q, Whole, n, n)
    BY <1>3, <1>4, <1>7, <2>1, <2>2
  <2>5. QED
    BY <1>5, <2>2, <2>3, <2>4, FitsWhen DEF q
<1>8. CASE p[1].does \notin Collecting \cup Whole
  <2>1. InTurn(q, Collecting, k, n) /\ InTurn(q, Whole, w, n) /\ new = out
    BY <1>3, <1>4, <1>8
  <2>2. QED
    BY <1>1, <1>5, <2>1 DEF CollectFits, q
<1>9. QED
  BY <1>6, <1>7, <1>8

\* What was reported is as far as the steps that are gone.
LEMMA TicksWhen ==
  ASSUME NEW p, NEW n \in Nat, NEW r \in {0, n}, NEW l \in {0, n}, n \in {r, l},
         NEW a \in 0..r, NEW b \in 0..l, b > 0 => a = r,
         InTurn(p, {"report"}, a, r), InTurn(p, {"tick"}, b, l),
         Before(p, {"report"}, {"tick"}), NEW ticks, ticks = Count(a) \o Count(b)
  PROVE  TicksFit(p, ticks, n)
<1>1. \E reports, inLean \in {0, n} : \E x \in 0..reports, y \in 0..inLean :
        /\ n \in {reports, inLean} /\ (y > 0 => x = reports)
        /\ InTurn(p, {"report"}, x, reports) /\ InTurn(p, {"tick"}, y, inLean)
        /\ ticks = Count(x) \o Count(y)
  <2> WITNESS r \in {0, n}
  <2> WITNESS l \in {0, n}
  <2> WITNESS a \in 0..r
  <2> WITNESS b \in 0..l
  <2> QED
    OBVIOUS
<1>2. QED
  BY <1>1 DEF TicksFit

\* Without steps there was nothing between.
LEMMA NoneIsEqual ==
  ASSUME NEW p \in Seq(Instr), NEW D, NEW k \in Int, NEW n \in Int, k <= n,
         InTurn(p, D, k, n), \A i \in 1..Len(p) : p[i].does \notin D
  PROVE  k = n
<1>1. CASE k < n
  <2>1. k + 1 \in (k + 1)..n
    BY <1>1
  <2>2. QED
    BY <2>1 DEF InTurn
<1>2. QED
  BY <1>1

LEMMA TickStep ==
  ASSUME NEW p \in Seq(Instr), p # <<>>, NEW n \in Nat, NEW ticks, TicksFit(p, ticks, n),
         NEW new,
         p[1].does \in {"report", "tick"} => new = Append(ticks, p[1].at),
         p[1].does \notin {"report", "tick"} => new = ticks
  PROVE  TicksFit(Tail(p), new, n)
<1> DEFINE q == Tail(p)
<1>1. PICK r \in {0, n}, l \in {0, n} : \E a \in 0..r, b \in 0..l :
        /\ n \in {r, l} /\ (b > 0 => a = r)
        /\ InTurn(p, {"report"}, a, r) /\ InTurn(p, {"tick"}, b, l)
        /\ ticks = Count(a) \o Count(b)
  BY DEF TicksFit
<1>2. PICK a \in 0..r, b \in 0..l :
        /\ n \in {r, l} /\ (b > 0 => a = r)
        /\ InTurn(p, {"report"}, a, r) /\ InTurn(p, {"tick"}, b, l)
        /\ ticks = Count(a) \o Count(b)
  BY <1>1
<1>3. /\ a \in Int /\ b \in Int /\ r \in Int /\ l \in Int /\ a \in Nat /\ b \in Nat
      /\ a <= r /\ b <= l
  OBVIOUS
<1>4. /\ p[1].does \notin {"report"} => InTurn(q, {"report"}, a, r)
      /\ p[1].does \in {"report"} => a < r /\ p[1].at = a + 1 /\ InTurn(q, {"report"}, a + 1, r)
  BY <1>2, <1>3, InTurnTail, Zenon
<1>5. /\ p[1].does \notin {"tick"} => InTurn(q, {"tick"}, b, l)
      /\ p[1].does \in {"tick"} => b < l /\ p[1].at = b + 1 /\ InTurn(q, {"tick"}, b + 1, l)
  BY <1>2, <1>3, InTurnTail, Zenon
<1>6. Before(q, {"report"}, {"tick"}) /\ Before(p, {"report"}, {"tick"})
  BY BeforeTail DEF TicksFit
<1>7. PICK x, y : x = Count(a) /\ y = Count(b)
  OBVIOUS
<1>8. x \in Seq(Nat) /\ y \in Seq(Nat)
  BY <1>3, <1>7, CountIs
<1> HIDE DEF q
<1>9. CASE p[1].does = "report"
  <2>1. a < r /\ p[1].at = a + 1 /\ InTurn(q, {"report"}, a + 1, r) /\ InTurn(q, {"tick"}, b, l)
    BY <1>4, <1>5, <1>9
  <2>2. b = 0 /\ a + 1 \in 0..r
    BY <1>2, <2>1
  <2>3. Count(0) = <<>>
    BY DEF Count
  <2>4. x \o <<>> = x /\ Append(x, a + 1) = x \o <<a + 1>>
    <3>1. a + 1 \in Nat
      BY <1>3
    <3>2. QED
      BY <1>8, <3>1, ConcatEmptySeq, AppendIsConcat, Zenon
  <2>5. new = Append(x \o <<>>, a + 1)
    BY <1>2, <1>7, <1>9, <2>1, <2>2, <2>3
  <2>6. new = Count(a + 1)
    <3>1. Count(a) \o <<a + 1>> = Count(a + 1)
      BY <1>3, CountMore
    <3>2. QED
      BY <1>7, <2>4, <2>5, <3>1
  <2>7. new = Count(a + 1) \o Count(b)
    <3>1. PICK z \in Seq(Nat) : z = Count(a + 1)
      <4>1. a + 1 \in Nat
        BY <1>3
      <4>2. QED
        BY <4>1, CountIs
    <3>2. z \o <<>> = z
      OBVIOUS
    <3>3. QED
      BY <2>2, <2>3, <2>6, <3>1, <3>2
  <2>8. TicksFit(q, new, n)
    <3>1. b > 0 => a + 1 = r
      BY <2>2
    <3>2. QED
      BY <1>2, <1>6, <2>1, <2>2, <2>7, <3>1, TicksWhen
  <2>9. QED
    BY <2>8 DEF q
<1>10. CASE p[1].does = "tick"
  <2>1. b < l /\ p[1].at = b + 1 /\ InTurn(q, {"tick"}, b + 1, l) /\ InTurn(q, {"report"}, a, r)
    BY <1>4, <1>5, <1>10
  <2>2. a = r
    <3>1. \A i \in 1..Len(p) : p[i].does \notin {"report"}
      <4>1. p[1].does \in {"tick"}
        BY <1>10
      <4>2. QED
        BY <1>6, <4>1, BeforeTail, Zenon
    <3>2. QED
      BY <1>2, <1>3, <3>1, NoneIsEqual, Zenon
  <2>3. b + 1 \in 0..l
    BY <2>1
  <2>4. new = x \o Count(b + 1)
    <3>1. PICK c \in Nat : c = b + 1
      BY <1>3
    <3>2. Append(x \o y, c) = (x \o y) \o <<c>>
      <4>1. x \o y \in Seq(Nat)
        BY <1>8, ConcatProperties
      <4>2. QED
        BY <4>1, AppendIsConcat, Zenon
    <3>3. PICK z \in Seq(Nat) : z = <<c>>
      <4>1. <<c>> \in Seq(Nat)
        OBVIOUS
      <4>2. QED
        BY <4>1
    <3>4. (x \o y) \o z = x \o (y \o z)
      <4>1. PICK S : x \in Seq(S) /\ y \in Seq(S) /\ z \in Seq(S)
        BY <1>8
      <4>2. QED
        BY <4>1, ConcatAssociative
    <3>5. y \o <<c>> = Count(b + 1)
      BY <1>3, <1>7, <3>1, CountMore
    <3>6. new = Append(x \o y, c)
      BY <1>2, <1>7, <1>10, <2>1, <3>1
    <3>7. QED
      BY <3>2, <3>3, <3>4, <3>5, <3>6
  <2>5. TicksFit(q, new, n)
    <3>1. new = Count(a) \o Count(b + 1) /\ (b + 1 > 0 => a = r)
      BY <1>7, <2>2, <2>4
    <3>2. QED
      BY <1>2, <1>6, <2>1, <2>3, <3>1, TicksWhen
  <2>6. QED
    BY <2>5 DEF q
<1>11. CASE p[1].does \notin {"report", "tick"}
  <2>1. InTurn(q, {"report"}, a, r) /\ InTurn(q, {"tick"}, b, l) /\ new = ticks
    BY <1>4, <1>5, <1>11
  <2>2. TicksFit(q, new, n)
    BY <1>2, <1>6, <2>1, TicksWhen
  <2>3. QED
    BY <2>2 DEF q
<1>12. QED
  BY <1>9, <1>10, <1>11

\* What was collected is some of the answers.
Among(answers, n) == {answers[j] : j \in 1..n}
LEMMA OutIs ==
  ASSUME NEW p, NEW n \in Nat, NEW out, NEW answers, NEW same,
         CollectFits(p, out, answers, n, same)
  PROVE  /\ out \in Seq(Among(answers, n))
         /\ \A e : Contains(out, e) => \E j \in 1..n : answers[j] = e
<1> DEFINE S == Among(answers, n)
<1>1. PICK k \in 0..n : out = [i \in 1..k |-> answers[i]]
  <2>1. PICK k \in 0..n, w \in {n - 1, n} :
          /\ w = n => out = [i \in 1..k |-> answers[i]]
          /\ w # n => k = n /\ out = <<>>
    BY DEF CollectFits
  <2>2. <<>> = [i \in 1..0 |-> answers[i]] /\ 0 \in 0..n
    OBVIOUS
  <2>3. QED
    BY <2>1, <2>2
<1>2. k \in Nat /\ \A i \in 1..k : i \in 1..n /\ answers[i] \in S
  BY DEF Among
<1> HIDE DEF S
<1>3. out \in Seq(S) /\ Len(out) = k /\ \A i \in 1..k : out[i] = answers[i]
  BY <1>1, <1>2
<1>4. QED
  BY <1>2, <1>3 DEF Contains, S

LEMMA ZipStep ==
  ASSUME NEW p \in Seq(Instr), p # <<>>, NEW S, NEW out \in Seq(S), ZipFits(p, out), NEW new,
         p[1].does = "zip" => ~Contains(out, "absent"),
         p[1].does = "call" => \E x \in S : x # "absent" /\ new = out \o <<x>>,
         p[1].does \notin Collecting \cup Whole => new = out
  PROVE  ZipFits(Tail(p), new)
<1> DEFINE q == Tail(p)
<1>1. /\ Len(p) \in Nat /\ Len(p) >= 1 /\ Len(q) = Len(p) - 1
      /\ \A i \in 1..Len(q) : q[i] = p[i + 1] /\ i + 1 \in 1..Len(p)
  BY TailIs
<1>2. /\ Before(q, Collecting \cup Whole, {"zip"})
      /\ p[1].does = "zip" => \A i \in 1..Len(p) : p[i].does \notin Collecting \cup Whole
  BY BeforeTail DEF ZipFits
<1> HIDE DEF q
<1>3. CASE p[1].does = "zip"
  <2>1. \A i \in 1..Len(q) : q[i].does \notin Whole \cup {"work"}
    BY <1>1, <1>2, <1>3 DEF Collecting
  <2>2. new = out /\ ~Contains(out, "absent")
    BY <1>3 DEF Collecting, Whole
  <2>3. QED
    BY <1>2, <2>1, <2>2 DEF ZipFits, q
<1>4. CASE p[1].does # "zip" /\ \E i \in 1..Len(p) : p[i].does = "zip"
  <2>1. PICK i \in 1..Len(p) : p[i].does = "zip"
    BY <1>4
  <2>2. i # 1 /\ i - 1 \in 1..Len(q) /\ q[i - 1] = p[i]
    BY <1>1, <1>4, <2>1
  <2>3. QED
    BY <1>2, <2>1, <2>2 DEF ZipFits, q
<1>5. CASE ~\E i \in 1..Len(p) : p[i].does = "zip"
  <2>1. /\ \A i \in 1..Len(p) : p[i].does \notin Whole \cup {"work"}
        /\ ~Contains(out, "absent")
    BY <1>5 DEF ZipFits
  <2>2. \A i \in 1..Len(q) : q[i].does \notin Whole \cup {"work"}
    BY <1>1, <2>1
  <2>3. ~Contains(new, "absent")
    <3>1. CASE p[1].does = "call"
      <4>1. PICK x \in S : x # "absent" /\ new = out \o <<x>>
        BY <3>1
      <4>2. PICK z \in Seq(S) : z = <<x>> /\ Len(z) = 1 /\ z[1] = x
        <5>1. <<x>> \in Seq(S)
          BY <4>1
        <5>2. QED
          BY <5>1
      <4>3. /\ Len(new) = Len(out) + 1 /\ Len(out) \in Nat
            /\ \A i \in 1..Len(out) + 1 : new[i] = IF i <= Len(out) THEN out[i] ELSE z[i - Len(out)]
        BY <4>1, <4>2, ConcatProperties
      <4>4. ASSUME NEW i \in 1..Len(new) PROVE new[i] # "absent"
        <5>1. CASE i <= Len(out)
          BY <2>1, <4>3, <5>1 DEF Contains
        <5>2. CASE ~(i <= Len(out))
          <6>1. i - Len(out) = 1
            BY <4>3, <5>2
          <6>2. QED
            BY <4>1, <4>2, <4>3, <5>2, <6>1
        <5>3. QED
          BY <5>1, <5>2
      <4>5. QED
        BY <4>4 DEF Contains
    <3>2. CASE p[1].does # "call"
      <4>1. p[1].does \notin Collecting \cup Whole
        <5>1. 1 \in 1..Len(p)
          BY <1>1
        <5>2. QED
          BY <2>1, <3>2, <5>1 DEF Collecting
      <4>2. QED
        BY <2>1, <4>1
    <3>3. QED
      BY <3>1, <3>2
  <2>4. QED
    BY <1>2, <2>2, <2>3 DEF ZipFits, q
<1>6. QED
  BY <1>3, <1>4, <1>5

-----------------------------------------------------------------------------
(* Frames of bulk calls                                                    *)

\* What a step adds to what the call has collected and reported, if it goes on.
Gathers(f, g) ==
  LET does == f.do[1].does
      i == f.do[1].at
  IN /\ does \in Collecting => g.out = f.out \o <<Answers(f)[i]>>
     /\ does \in Whole => g.out = f.out \o [j \in 1..Len(f.names) |-> Answers(f)[j]]
     /\ does \notin Collecting \cup Whole => g.out = f.out
Reports(f, g) ==
  f.sink =>
    /\ f.do[1].does \in {"report", "tick"} => g.ticks = Append(f.ticks, f.do[1].at)
    /\ f.do[1].does \notin {"report", "tick"} => g.ticks = f.ticks
Passes(f) ==
  Queries(f) => /\ f.do[1].does = "call" => Answers(f)[f.do[1].at] # "absent"
                /\ f.do[1].does = "zip" => ~Contains(f.out, "absent")

NamesFit(f) == Len(f.names) \in Nat /\ DOMAIN f.names = 1..Len(f.names)

LEMMA AnswersAre ==
  ASSUME NEW f, NamesFit(f)
  PROVE  /\ Answers(f) = [i \in 1..Len(f.names) |-> Answers(f)[i]]
         /\ \A i \in 1..Len(f.names) : Answers(f)[i] = Answer(SingleOf[f.method], f.names[i])
         /\ Same(f.names) => \A i \in 1..Len(f.names) : Answers(f)[i] = Answers(f)[1]
<1>1. /\ Answers(f) = [i \in 1..Len(f.names) |-> Answers(f)[i]]
      /\ \A i \in 1..Len(f.names) : Answers(f)[i] = Answer(SingleOf[f.method], f.names[i])
  BY DEF Answers, NamesFit
<1>2. ASSUME Same(f.names), NEW i \in 1..Len(f.names) PROVE Answers(f)[i] = Answers(f)[1]
  <2>1. 1 \in 1..Len(f.names) /\ f.names[i] = f.names[1]
    BY <1>2 DEF Same, NamesFit
  <2>2. QED
    BY <1>1, <2>1
<1>3. QED
  BY <1>1, <1>2

LEMMA BulkGoes ==
  ASSUME NEW f, NamesFit(f), f.do \in Seq(Instr), f.do # <<>>, BulkRuns(f),
         NEW g, g.method = f.method, g.names = f.names, g.sink = f.sink, g.do = Tail(f.do),
         Gathers(f, g), Reports(f, g), Passes(f)
  PROVE  BulkRuns(g)
<1> DEFINE n == Len(f.names)
           answers == Answers(f)
           same == Same(f.names)
           S == Among(answers, n)
<1>1. n \in Nat /\ CollectFits(f.do, f.out, answers, n, same)
  BY DEF NamesFit, BulkRuns
<1>2. Answers(g) = answers /\ Len(g.names) = n /\ Same(g.names) = same
  BY DEF Answers
<1>3. CollectFits(Tail(f.do), g.out, answers, n, same)
  <2>1. /\ f.do[1].does \in Collecting => g.out = f.out \o <<answers[f.do[1].at]>>
        /\ f.do[1].does \in Whole => g.out = f.out \o [j \in 1..n |-> answers[j]]
        /\ f.do[1].does \notin Collecting \cup Whole => g.out = f.out
    BY DEF Gathers
  <2> HIDE DEF n, answers, same
  <2>2. QED
    BY <1>1, <2>1, CollectStep
<1>4. ASSUME f.sink PROVE TicksFit(Tail(f.do), g.ticks, n)
  <2>1. TicksFit(f.do, f.ticks, n)
    BY <1>4 DEF BulkRuns
  <2>2. /\ f.do[1].does \in {"report", "tick"} => g.ticks = Append(f.ticks, f.do[1].at)
        /\ f.do[1].does \notin {"report", "tick"} => g.ticks = f.ticks
    BY <1>4 DEF Reports
  <2> HIDE DEF n
  <2>3. QED
    BY <1>1, <2>1, <2>2, TickStep
<1>5. ASSUME Queries(f) PROVE ZipFits(Tail(f.do), g.out)
  <2>1. ZipFits(f.do, f.out)
    BY <1>5 DEF BulkRuns
  <2>2. f.do[1].does = "zip" => ~Contains(f.out, "absent")
    BY <1>5 DEF Passes
  <2>3. f.do[1].does = "call" => \E x \in S : x # "absent" /\ g.out = f.out \o <<x>>
    <3>1. f.do[1].does = "call" => f.do[1].at \in 1..n
      <4> HIDE DEF n, answers, same
      <4>1. QED
        BY <1>1, CollectIsOne DEF Collecting
    <3>2. QED
      BY <1>5, <3>1 DEF Passes, Gathers, Collecting, Among
  <2>4. f.do[1].does \notin Collecting \cup Whole => g.out = f.out
    BY DEF Gathers
  <2>5. f.out \in Seq(S)
    <3> HIDE DEF n, answers, same
    <3>1. QED
      BY <1>1, OutIs
  <2> HIDE DEF S
  <2>6. QED
    BY <2>1, <2>2, <2>3, <2>4, <2>5, ZipStep
<1>6. Queries(g) <=> Queries(f)
  BY DEF Queries
<1>7. QED
  BY <1>2, <1>3, <1>4, <1>5, <1>6 DEF BulkRuns

LEMMA AbsentIsThere ==
  ASSUME NEW f, NamesFit(f), NEW j \in 1..Len(f.names), Answers(f)[j] = "absent"
  PROVE  Contains(Answers(f), "absent")
<1> DEFINE a == Answers(f)
           n == Len(f.names)
<1>1. a = [i \in 1..n |-> a[i]] /\ n \in Nat
  BY AnswersAre DEF NamesFit
<1> HIDE DEF a, n
<1>2. Len(a) = n
  <2>1. PICK b : b = [i \in 1..n |-> a[i]]
    OBVIOUS
  <2>2. Len(b) = n
    BY <1>1, <2>1
  <2>3. QED
    BY <1>1, <2>1, <2>2
<1>3. QED
  BY <1>2 DEF Contains, a, n

LEMMA BulkReturns ==
  ASSUME NEW f, NamesFit(f), f.do = <<>>, BulkRuns(f),
         NEW g, g.method = f.method, g.names = f.names, g.sink = f.sink, g.out = f.out,
         g.ticks = f.ticks
  PROVE  BulkReturned(g)
<1> DEFINE n == Len(f.names)
           answers == Answers(f)
<1>1. /\ n \in Nat /\ CollectFits(<<>>, f.out, answers, n, Same(f.names))
      /\ f.sink => TicksFit(<<>>, f.ticks, n)
      /\ Queries(f) => ZipFits(<<>>, f.out)
  BY DEF NamesFit, BulkRuns
<1>2. answers = [i \in 1..n |-> answers[i]]
  BY AnswersAre
<1>3. Answers(g) = answers /\ Len(g.names) = n /\ (Queries(g) <=> Queries(f))
  BY DEF Answers, Queries
<1> HIDE DEF n, answers
<1>4. f.out = answers
  <2>1. PICK k \in 0..n, w \in {n - 1, n} :
          /\ InTurn(<<>>, Collecting, k, n) /\ InTurn(<<>>, Whole, w, n)
          /\ w = n => f.out = [i \in 1..k |-> answers[i]]
    BY <1>1 DEF CollectFits
  <2>2. k \in Int /\ w \in Int /\ n \in Int /\ k <= n /\ w <= n
    BY <1>1
  <2>3. k = n /\ w = n
    BY <2>1, <2>2, InTurnEnd, Zenon
  <2>4. QED
    BY <1>2, <2>1, <2>3
<1>5. ASSUME f.sink PROVE f.ticks \in {Count(n), Count(n) \o Count(n)}
  <2>1. PICK r \in {0, n}, l \in {0, n} : \E a \in 0..r, b \in 0..l :
          /\ n \in {r, l} /\ InTurn(<<>>, {"report"}, a, r) /\ InTurn(<<>>, {"tick"}, b, l)
          /\ f.ticks = Count(a) \o Count(b)
    BY <1>1, <1>5 DEF TicksFit
  <2>2. PICK a \in 0..r, b \in 0..l :
          /\ n \in {r, l} /\ InTurn(<<>>, {"report"}, a, r) /\ InTurn(<<>>, {"tick"}, b, l)
          /\ f.ticks = Count(a) \o Count(b)
    BY <2>1
  <2>3. a \in Int /\ b \in Int /\ r \in Int /\ l \in Int /\ a <= r /\ b <= l
    BY <1>1
  <2>4. a = r /\ b = l
    BY <2>2, <2>3, InTurnEnd, Zenon
  <2>5. f.ticks = Count(r) \o Count(l)
    BY <2>2, <2>4
  <2>6. Count(0) = <<>>
    BY DEF Count
  <2>7. Count(n) \in Seq(Nat)
    BY <1>1, CountIs
  <2>8. Count(n) \o <<>> = Count(n) /\ <<>> \o Count(n) = Count(n)
    BY <2>7, ConcatEmptySeq, Zenon
  <2>9. \/ r = n /\ l = n
        \/ r = n /\ l = 0
        \/ r = 0 /\ l = n
    BY <2>2
  <2>10. QED
    BY <2>5, <2>6, <2>8, <2>9
<1>6. ASSUME Queries(f) PROVE ~Contains(f.out, "absent")
  <2>1. 1..Len(<<>>) = {}
    OBVIOUS
  <2>2. QED
    BY <1>1, <1>6, <2>1 DEF ZipFits
<1>7. QED
  BY <1>3, <1>4, <1>5, <1>6 DEF BulkReturned

LEMMA FrameNamesFit ==
  ASSUME FramesFit, NEW t \in Threads PROVE NamesFit(frame[t])
<1>1. frame[t].names \in Batches \cup {<<>>}
  BY DEF FramesFit, FrameFits, FrameTypeOK
<1>2. CASE frame[t].names \in Batches
  BY <1>2, HostCallsAssumption DEF NamesFit
<1>3. CASE frame[t].names = <<>>
  BY <1>3 DEF NamesFit
<1>4. QED
  BY <1>1, <1>2, <1>3

\* The call ends: only what is said of ok and of missing is left to show.
LEMMA EndIs ==
  ASSUME FramesFit, NEW t \in Threads, NEW how, End(t, how)
  PROVE  /\ frame'[t].outcome = how /\ frame'[t].method = frame[t].method
         /\ frame'[t].names = frame[t].names /\ frame'[t].sink = frame[t].sink
         /\ frame'[t].out = frame[t].out /\ frame'[t].ticks = frame[t].ticks
<1> DEFINE f == frame[t]
           g == [f EXCEPT !.outcome = how, !.do = <<>>, !.bridge = 0]
<1>1. IsFrame(f) /\ frame' = [frame EXCEPT ![t] = g]
  BY DEF FramesFit, FrameFits, End
<1>2. frame'[t] = g
  BY <1>1 DEF FramesFit
<1> HIDE DEF f
<1>3. /\ g.outcome = how /\ g.method = f.method /\ g.names = f.names /\ g.sink = f.sink
      /\ g.out = f.out /\ g.ticks = f.ticks
  BY <1>1 DEF IsFrame, Fields
<1> HIDE DEF g
<1>4. QED
  BY <1>2, <1>3 DEF f

LEMMA BulkEnds ==
  ASSUME FramesFit, NEW t \in Threads, NEW how, how \notin {"running", "ok", "missing"},
         End(t, how)
  PROVE  BulkFits(frame'[t])
BY EndIs DEF BulkFits

LEMMA BulkMisses ==
  ASSUME FramesFit, NEW t \in Threads, End(t, "missing"),
         frame[t].method \in BulkMethods /\ Queries(frame[t]) =>
           Contains(Answers(frame[t]), "absent")
  PROVE  BulkFits(frame'[t])
<1>1. /\ frame'[t].outcome = "missing" /\ frame'[t].method = frame[t].method
      /\ frame'[t].names = frame[t].names
  BY EndIs
<1>2. PICK f, g : f = frame[t] /\ g = frame'[t]
  OBVIOUS
<1>3. Answers(g) = Answers(f) /\ (Queries(g) <=> Queries(f))
  BY <1>1, <1>2 DEF Answers, Queries
<1>4. QED
  BY <1>1, <1>2, <1>3 DEF BulkFits

LEMMA BulkIsOk ==
  ASSUME FramesFit, NEW t \in Threads, Return(t), BulkFits(frame[t])
  PROVE  BulkFits(frame'[t])
<1>1. /\ frame'[t].outcome = "ok" /\ frame'[t].method = frame[t].method
      /\ frame'[t].names = frame[t].names /\ frame'[t].sink = frame[t].sink
      /\ frame'[t].out = frame[t].out /\ frame'[t].ticks = frame[t].ticks
  BY EndIs DEF Return
<1>2. PICK f, g : f = frame[t] /\ g = frame'[t]
  OBVIOUS
<1>3. NamesFit(f) /\ f.do = <<>> /\ f.outcome = "running"
  BY <1>2, FrameNamesFit DEF Return, Running
<1>4. f.method \in BulkMethods => BulkReturned(g)
  <2>1. f.method \in BulkMethods => BulkRuns(f)
    BY <1>2, <1>3 DEF BulkFits
  <2>2. QED
    BY <1>1, <1>2, <1>3, <2>1, BulkReturns
<1>5. QED
  BY <1>1, <1>2, <1>4 DEF BulkFits

\* The call goes on.
LEMMA BulkGoesOn ==
  ASSUME FramesFit, NEW t \in Threads, NEW does, At(t, does), BulkFits(frame[t]),
         NEW h, frame[t].method \in BulkMethods =>
                  Gathers(frame[t], h) /\ Reports(frame[t], h) /\ Passes(frame[t]),
         frame'[t].method = frame[t].method, frame'[t].names = frame[t].names,
         frame'[t].sink = frame[t].sink, frame'[t].do = Tail(frame[t].do),
         frame'[t].outcome = "running", frame'[t].out = h.out, frame'[t].ticks = h.ticks
  PROVE  BulkFits(frame'[t])
<1>1. PICK f, g : f = frame[t] /\ g = frame'[t]
  OBVIOUS
<1>2. /\ f.do \in Seq(Instr) /\ f.do # <<>> /\ f.outcome = "running" /\ NamesFit(f)
  BY <1>1, AtIs, FrameNamesFit
<1>3. f.method \in BulkMethods => BulkRuns(g)
  <2>1. f.method \in BulkMethods => BulkRuns(f)
    BY <1>1, <1>2 DEF BulkFits
  <2>2. f.method \in BulkMethods => Gathers(f, g) /\ Reports(f, g) /\ Passes(f)
    BY <1>1 DEF Gathers, Reports
  <2>3. /\ g.method = f.method /\ g.names = f.names /\ g.sink = f.sink /\ g.do = Tail(f.do)
    BY <1>1
  <2>4. QED
    BY <1>2, <2>1, <2>2, <2>3, BulkGoes
<1>4. g.method = f.method /\ g.outcome = "running"
  BY <1>1
<1>5. QED
  BY <1>1, <1>3, <1>4 DEF BulkFits

LEMMA BulkGo ==
  ASSUME FramesFit, NEW t \in Threads, NEW does, At(t, does), BulkFits(frame[t]),
         NEW h, Alike(frame[t], h), Go(t, h),
         frame[t].method \in BulkMethods =>
           Gathers(frame[t], h) /\ Reports(frame[t], h) /\ Passes(frame[t])
  PROVE  BulkFits(frame'[t])
<1> DEFINE f == frame[t]
           g == [h EXCEPT !.do = Tail(@)]
<1>1. frame'[t] = g
  BY DEF Go, Advanced, FramesFit
<1>2. /\ IsFrame(h) /\ h.method = f.method /\ h.names = f.names /\ h.sink = f.sink
      /\ h.do = f.do /\ h.outcome = f.outcome
  BY DEF Alike
<1>3. f.outcome = "running"
  BY AtIs
<1> HIDE DEF f
<1>4. /\ g.method = f.method /\ g.names = f.names /\ g.sink = f.sink /\ g.do = Tail(f.do)
      /\ g.outcome = "running" /\ g.out = h.out /\ g.ticks = h.ticks
  BY <1>2, <1>3 DEF IsFrame, Fields
<1> HIDE DEF g
<1>5. QED
  BY <1>1, <1>4, BulkGoesOn DEF f

\* What the parts of a step do to what is collected and reported.
LEMMA EnteringKeeps ==
  ASSUME NEW f, IsFrame(f)
  PROVE  Entering(f).out = f.out /\ Entering(f).ticks = f.ticks
BY DEF IsFrame, Fields, Entering

LEMMA CollectedKeeps ==
  ASSUME NEW f, IsFrame(f), NEW answers
  PROVE  Collected(f, answers).out = f.out \o answers /\ Collected(f, answers).ticks = f.ticks
BY DEF IsFrame, Fields, Collected

LEMMA TickedKeeps ==
  ASSUME NEW f, IsFrame(f), NEW i
  PROVE  Ticked(f, i).out = f.out /\ Ticked(f, i).ticks = Append(f.ticks, i)
BY DEF IsFrame, Fields, Ticked

\* A step that neither collects nor reports nor looks for absent names.
Quiet == {"check", "name", "list", "shim", "roots", "enter", "leave"}

LEMMA QuietKeeps ==
  ASSUME FramesFit, NEW t \in Threads, NEW does \in Quiet, At(t, does), NEW h,
         h.out = frame[t].out, h.ticks = frame[t].ticks
  PROVE  Gathers(frame[t], h) /\ Reports(frame[t], h) /\ Passes(frame[t])
<1>1. frame[t].do[1].does = does
  BY AtIs
<1>2. does \notin Collecting \cup Whole /\ does \notin {"report", "tick", "call", "zip"}
  BY DEF Quiet, Collecting, Whole
<1>3. QED
  BY <1>1, <1>2 DEF Gathers, Reports, Passes

LEMMA ResultIs ==
  ASSUME FramesFit, NEW t \in Threads, frame[t].method \in BulkMethods,
         NEW i \in 1..Len(frame[t].names)
  PROVE  Result(t, i) = Answers(frame[t])[i]
BY FrameNamesFit, AnswersAre DEF Result

\* The item of the step, of a call that was begun right.
LEMMA ItemIs ==
  ASSUME FramesFit, NEW t \in Threads, NEW does, At(t, does), BulkFits(frame[t]),
         frame[t].method \in BulkMethods
  PROVE  /\ frame[t].do[1].does = does /\ Item(t) = frame[t].do[1].at
         /\ does \in Collecting => Item(t) \in 1..Len(frame[t].names)
         /\ does \in Whole => Item(t) = Len(frame[t].names)
         /\ does = "one" => Same(frame[t].names)
<1>1. PICK f : f = frame[t]
  OBVIOUS
<1>2. /\ f.do \in Seq(Instr) /\ f.do # <<>> /\ f.do[1].does = does /\ Head(f.do) = f.do[1]
      /\ f.outcome = "running" /\ NamesFit(f)
  BY <1>1, AtIs, FrameNamesFit
<1>3. CollectFits(f.do, f.out, Answers(f), Len(f.names), Same(f.names))
  BY <1>1, <1>2 DEF BulkFits, BulkRuns
<1>4. /\ f.do[1].does \in Collecting => f.do[1].at \in 1..Len(f.names)
      /\ f.do[1].does \in Whole => f.do[1].at = Len(f.names)
      /\ f.do[1].does = "one" => Same(f.names)
  BY <1>2, <1>3, CollectIsOne DEF NamesFit
<1>5. Item(t) = f.do[1].at
  BY <1>1, <1>2 DEF Item
<1>6. QED
  BY <1>1, <1>2, <1>4, <1>5

LEMMA PlainBulk ==
  ASSUME FramesFit, NEW t \in Threads, BulkFits(frame[t]),
         CheckToken(t) \/ EnterLean(t) \/ SourceRoots(t) \/ OptionalShim(t)
  PROVE  BulkFits(frame'[t])
<1> DEFINE f == frame[t]
<1>1. IsFrame(f)
  BY DEF FramesFit, FrameFits
<1>2. Alike(f, f) /\ Alike(f, Entering(f))
  BY <1>1, EnteringAlike
<1>3. ASSUME NEW does \in Quiet, At(t, does), Go(t, f) \/ Go(t, Entering(f))
      PROVE  BulkFits(frame'[t])
  <2>1. PICK h \in {f, Entering(f)} : Go(t, h)
    BY <1>3
  <2>2. h.out = f.out /\ h.ticks = f.ticks /\ Alike(f, h)
    BY <1>1, <1>2, <2>1, EnteringKeeps
  <2>3. Gathers(f, h) /\ Reports(f, h) /\ Passes(f)
    BY <1>3, <2>2, QuietKeeps
  <2>4. QED
    BY <1>3, <2>1, <2>2, <2>3, BulkGo
<1>4. ASSUME NEW how \in {"cancelled", "lean", "io", "unsupported"}, End(t, how)
      PROVE  BulkFits(frame'[t])
  BY <1>4, BulkEnds
<1>5. \/ \E does \in Quiet : At(t, does) /\ (Go(t, f) \/ Go(t, Entering(f)))
      \/ \E how \in {"cancelled", "lean", "io", "unsupported"} : End(t, how)
  BY Zenon DEF CheckToken, EnterLean, SourceRoots, OptionalShim, Quiet
<1>6. QED
  BY <1>3, <1>4, <1>5

LEMMA CallBulkItem ==
  ASSUME FramesFit, NEW t \in Threads, BulkFits(frame[t]), CallLean(t)
  PROVE  BulkFits(frame'[t])
<1> DEFINE f == frame[t]
           n == Len(f.names)
<1>1. At(t, "call") /\ IsFrame(f)
  BY DEF CallLean, FramesFit, FrameFits
<1>2. f.method \in BulkMethods =>
        /\ f.do[1].does = "call" /\ Item(t) = f.do[1].at /\ Item(t) \in 1..n
        /\ Result(t, Item(t)) = Answers(f)[Item(t)]
  BY <1>1, ItemIs, ResultIs DEF Collecting
<1>3. CASE End(t, "lean")
  BY <1>3, BulkEnds
<1>4. CASE Missing(t) /\ End(t, "missing")
  <2>1. ASSUME f.method \in BulkMethods PROVE Contains(Answers(f), "absent")
    <3>1. Item(t) \in 1..n /\ Answers(f)[Item(t)] = "absent"
      BY <1>2, <1>4, <2>1 DEF Missing
    <3>2. NamesFit(f)
      BY FrameNamesFit
    <3> HIDE DEF f
    <3>3. QED
      BY <3>1, <3>2, AbsentIsThere
  <2>2. QED
    BY <1>4, <2>1, BulkMisses
<1>5. CASE ~Missing(t) /\ Go(t, Collected(Entering(f), <<Result(t, Item(t))>>))
  <2>1. PICK h : h = Collected(Entering(f), <<Result(t, Item(t))>>)
    OBVIOUS
  <2>2. Alike(f, h) /\ h.out = f.out \o <<Result(t, Item(t))>> /\ h.ticks = f.ticks
    <3>1. Alike(f, Entering(f)) /\ Entering(f).out = f.out /\ Entering(f).ticks = f.ticks
      BY <1>1, EnteringAlike, EnteringKeeps
    <3>2. IsFrame(Entering(f))
      BY <3>1 DEF Alike
    <3> HIDE DEF f
    <3>3. QED
      BY <2>1, <3>1, <3>2, CollectedAlike, CollectedKeeps
  <2>3. ASSUME f.method \in BulkMethods PROVE Gathers(f, h) /\ Reports(f, h) /\ Passes(f)
    <3>1. Gathers(f, h)
      BY <1>2, <2>2, <2>3 DEF Gathers, Collecting, Whole
    <3>2. Reports(f, h)
      BY <1>2, <2>2, <2>3 DEF Reports
    <3>3. Queries(f) => f.method = "query_declarations_bulk"
      BY <2>3 DEF Queries, BulkMethods, SingleOf
    <3>4. Queries(f) => Answers(f)[f.do[1].at] # "absent"
      BY <1>2, <1>5, <2>3, <3>3 DEF Missing
    <3>5. Passes(f)
      BY <1>2, <2>3, <3>4 DEF Passes
    <3>6. QED
      BY <3>1, <3>2, <3>5
  <2>4. QED
    BY <1>1, <1>5, <2>1, <2>2, <2>3, BulkGo
<1>6. QED
  BY <1>3, <1>4, <1>5 DEF CallLean

LEMMA CallBulkWhole ==
  ASSUME FramesFit, NEW t \in Threads, BulkFits(frame[t]), CallBulk(t)
  PROVE  BulkFits(frame'[t])
<1> DEFINE f == frame[t]
           n == Len(f.names)
           all == [i \in 1..Item(t) |-> Result(t, i)]
<1>1. IsFrame(f)
  BY DEF FramesFit, FrameFits
<1>2. CASE End(t, "lean")
  BY <1>2, BulkEnds
<1>3. ASSUME NEW does \in {"all", "one"}, At(t, does),
             NEW x, f.method \in BulkMethods => x = [j \in 1..n |-> Answers(f)[j]],
             Go(t, Collected(Entering(f), x))
      PROVE  BulkFits(frame'[t])
  <2>1. PICK h : h = Collected(Entering(f), x)
    OBVIOUS
  <2>2. Alike(f, h) /\ h.out = f.out \o x /\ h.ticks = f.ticks
    <3>1. Alike(f, Entering(f)) /\ Entering(f).out = f.out /\ Entering(f).ticks = f.ticks
      BY <1>1, EnteringAlike, EnteringKeeps
    <3>2. IsFrame(Entering(f))
      BY <3>1 DEF Alike
    <3> HIDE DEF f
    <3>3. QED
      BY <2>1, <3>1, <3>2, CollectedAlike, CollectedKeeps
  <2>3. ASSUME f.method \in BulkMethods PROVE Gathers(f, h) /\ Reports(f, h) /\ Passes(f)
    <3>1. f.do[1].does = does
      BY <1>3, AtIs
    <3>2. does \notin Collecting /\ does \in Whole /\ does \notin {"report", "tick", "call", "zip"}
      BY DEF Collecting, Whole
    <3>3. QED
      BY <1>3, <2>2, <2>3, <3>1, <3>2 DEF Gathers, Reports, Passes
  <2>4. QED
    BY <1>3, <2>1, <2>2, <2>3, BulkGo
<1>4. CASE At(t, "all") /\ Go(t, Collected(Entering(f), all))
  <2>1. ASSUME f.method \in BulkMethods PROVE all = [j \in 1..n |-> Answers(f)[j]]
    <3>1. Item(t) = n
      BY <1>4, <2>1, ItemIs DEF Whole
    <3>2. \A i \in 1..n : Result(t, i) = Answers(f)[i]
      BY <2>1, ResultIs
    <3>3. QED
      BY <3>1, <3>2
  <2> HIDE DEF all, f, n
  <2>2. QED
    BY <1>3, <1>4, <2>1
<1>5. CASE At(t, "one") /\ Go(t, Collected(Entering(f), Replicated(t)))
  <2>1. ASSUME f.method \in BulkMethods PROVE Replicated(t) = [j \in 1..n |-> Answers(f)[j]]
    <3>1. Item(t) = n /\ Same(f.names) /\ NamesFit(f)
      BY <1>5, <2>1, ItemIs, FrameNamesFit DEF Whole
    <3>2. \A i \in 1..n : Answers(f)[i] = Answers(f)[1] /\ 1 \in 1..n
      BY <3>1, AnswersAre
    <3>3. \A i \in 1..n : Result(t, 1) = Answers(f)[i]
      BY <2>1, <3>2, ResultIs
    <3>4. QED
      BY <3>1, <3>3 DEF Replicated
  <2> HIDE DEF f, n
  <2>2. QED
    BY <1>3, <1>5, <2>1
<1>6. QED
  BY <1>2, <1>4, <1>5 DEF CallBulk

LEMMA BulkWorks ==
  ASSUME FramesFit, NEW t \in Threads, BulkFits(frame[t]), Work(t)
  PROVE  BulkFits(frame'[t])
<1> DEFINE f == frame[t]
           n == Len(f.names)
<1>1. At(t, "work") /\ IsFrame(f)
  BY DEF Work, FramesFit, FrameFits
<1>2. CASE End(t, "lean")
  BY <1>2, BulkEnds
<1>3. CASE Go(t, Collected(f, <<Result(t, Item(t))>>))
  <2>1. PICK h : h = Collected(f, <<Result(t, Item(t))>>)
    OBVIOUS
  <2>2. Alike(f, h) /\ h.out = f.out \o <<Result(t, Item(t))>> /\ h.ticks = f.ticks
    <3>1. Alike(f, f)
      BY <1>1, EnteringAlike
    <3> HIDE DEF f
    <3>2. QED
      BY <1>1, <2>1, <3>1, CollectedAlike, CollectedKeeps
  <2>3. ASSUME f.method \in BulkMethods PROVE Gathers(f, h) /\ Reports(f, h) /\ Passes(f)
    <3>1. /\ f.do[1].does = "work" /\ Item(t) = f.do[1].at
          /\ Result(t, Item(t)) = Answers(f)[Item(t)]
      BY <1>1, <2>3, ItemIs, ResultIs DEF Collecting
    <3>2. QED
      BY <2>2, <3>1 DEF Gathers, Reports, Passes, Collecting, Whole
  <2>4. QED
    BY <1>1, <1>3, <2>1, <2>2, <2>3, BulkGo
<1>4. QED
  BY <1>2, <1>3 DEF Work

\* A report, here or from Lean.
LEMMA BulkReports ==
  ASSUME FramesFit, NEW t \in Threads, BulkFits(frame[t]), NEW does \in {"report", "tick"},
         At(t, does), NEW h, Go(t, h),
         h = Ticked(frame[t], Item(t)) \/ (h = frame[t] /\ ~frame[t].sink)
  PROVE  BulkFits(frame'[t])
<1> DEFINE f == frame[t]
<1>1. IsFrame(f) /\ f.do[1].does = does /\ Item(t) = f.do[1].at
  BY AtIs DEF FramesFit, FrameFits, Item
<1>2. Alike(f, h) /\ h.out = f.out /\ (f.sink => h.ticks = Append(f.ticks, Item(t)))
  <2>1. Alike(f, f) /\ Alike(f, Ticked(f, Item(t)))
    BY <1>1, EnteringAlike, TickedAlike
  <2> HIDE DEF f
  <2>2. QED
    BY <1>1, <2>1, TickedKeeps DEF f
<1>3. Gathers(f, h) /\ Reports(f, h) /\ Passes(f)
  <2>1. does \notin Collecting \cup Whole /\ does \notin {"call", "zip"}
    BY DEF Collecting, Whole
  <2>2. QED
    BY <1>1, <1>2, <2>1 DEF Gathers, Reports, Passes
<1>4. QED
  BY <1>2, <1>3, BulkGo

LEMMA BulkPanics ==
  ASSUME FramesFit, NEW t \in Threads, NEW g, g.outcome = "panic", frame' = [frame EXCEPT ![t] = g]
  PROVE  BulkFits(frame'[t])
<1>1. frame'[t] = g
  BY DEF FramesFit
<1>2. QED
  BY <1>1 DEF BulkFits

LEMMA BulkReport ==
  ASSUME FramesFit, NEW t \in Threads, BulkFits(frame[t]), Report(t)
  PROVE  BulkFits(frame'[t])
<1> DEFINE f == frame[t]
<1>1. At(t, "report") /\ IsFrame(f)
  BY DEF Report, FramesFit, FrameFits
<1>2. CASE Go(t, IF f.sink THEN Ticked(f, Item(t)) ELSE f)
  <2>1. PICK h : h = IF f.sink THEN Ticked(f, Item(t)) ELSE f
    OBVIOUS
  <2>2. Go(t, h) /\ (h = Ticked(f, Item(t)) \/ (h = f /\ ~f.sink))
    BY <1>2, <2>1
  <2>3. QED
    BY <1>1, <2>2, BulkReports
<1>3. CASE frame' = [frame EXCEPT ![t].panicked = TRUE, ![t].do = <<>>, ![t].outcome = "panic"]
  <2> DEFINE g == [f EXCEPT !.panicked = TRUE, !.do = <<>>, !.outcome = "panic"]
  <2>1. frame' = [frame EXCEPT ![t] = g] /\ g.outcome = "panic"
    BY <1>1, <1>3 DEF IsFrame, Fields
  <2> HIDE DEF g
  <2>2. QED
    BY <2>1, BulkPanics
<1>4. QED
  BY <1>2, <1>3 DEF Report

LEMMA BulkTick ==
  ASSUME FramesFit, NEW t \in Threads, BulkFits(frame[t]), Tick(t)
  PROVE  BulkFits(frame'[t])
<1> DEFINE f == frame[t]
<1>1. At(t, "tick") /\ IsFrame(f)
  BY DEF Tick, FramesFit, FrameFits
<1>2. CASE Go(t, Ticked(f, Item(t)))
  BY <1>1, <1>2, BulkReports
<1>3. CASE frame' = [frame EXCEPT ![t].panicked = TRUE, ![t].do = <<>>,
                                  ![t].outcome = "panic", ![t].bridge = 0]
  <2> DEFINE g == [f EXCEPT !.panicked = TRUE, !.do = <<>>, !.outcome = "panic", !.bridge = 0]
  <2>1. frame' = [frame EXCEPT ![t] = g] /\ g.outcome = "panic"
    BY <1>1, <1>3 DEF IsFrame, Fields
  <2> HIDE DEF g
  <2>2. QED
    BY <2>1, BulkPanics
<1>4. CASE \E how \in {"stale", "misrouted"} : End(t, how)
  BY <1>4, BulkEnds
<1>5. QED
  BY <1>2, <1>3, <1>4 DEF Tick

\* Into Lean with a bridge, and back.
LEMMA BulkEntersAndLeaves ==
  ASSUME FramesFit, NEW t \in Threads, BulkFits(frame[t]), Enter(t) \/ Leave(t)
  PROVE  BulkFits(frame'[t])
<1> DEFINE f == frame[t]
<1>1. CASE \E how \in {"registry", "conversion"} : End(t, how)
  BY <1>1, BulkEnds
<1>2. ASSUME NEW does \in {"enter", "leave"}, At(t, does), NEW h \in {f, Entering(f)}, NEW id,
             frame' = [frame EXCEPT ![t] = [Advanced(h) EXCEPT !.bridge = id]]
      PROVE  BulkFits(frame'[t])
  <2> DEFINE g == [[h EXCEPT !.do = Tail(@)] EXCEPT !.bridge = id]
  <2>1. frame'[t] = g
    BY <1>2 DEF Advanced, FramesFit
  <2>2. IsFrame(f) /\ f.outcome = "running"
    BY <1>2, AtIs DEF FrameFits
  <2>3. Alike(f, h) /\ h.out = f.out /\ h.ticks = f.ticks
    <3>1. Alike(f, f) /\ Alike(f, Entering(f))
      BY <2>2, EnteringAlike
    <3> HIDE DEF f
    <3>2. QED
      BY <1>2, <2>2, <3>1, EnteringKeeps
  <2>4. Gathers(f, h) /\ Reports(f, h) /\ Passes(f)
    <3>1. does \in Quiet
      BY DEF Quiet
    <3>2. QED
      BY <1>2, <2>3, <3>1, QuietKeeps
  <2>5. /\ g.method = f.method /\ g.names = f.names /\ g.sink = f.sink /\ g.do = Tail(f.do)
        /\ g.outcome = "running" /\ g.out = h.out /\ g.ticks = h.ticks
    <3> HIDE DEF f
    <3>1. IsFrame(h)
      BY <2>3 DEF Alike
    <3>2. /\ g.method = h.method /\ g.names = h.names /\ g.sink = h.sink /\ g.do = Tail(h.do)
          /\ g.outcome = h.outcome /\ g.out = h.out /\ g.ticks = h.ticks
      BY <3>1 DEF IsFrame, Fields
    <3> HIDE DEF g
    <3>3. QED
      BY <2>2, <2>3, <3>2 DEF Alike
  <2> HIDE DEF g
  <2>6. QED
    BY <1>2, <2>1, <2>4, <2>5, BulkGoesOn
<1>3. CASE Enter(t)
  <2>1. At(t, "enter")
    BY <1>3 DEF Enter
  <2>2. CASE CanRegister
    <3>1. frame' = [frame EXCEPT ![t] = [Advanced(Entering(f)) EXCEPT !.bridge = Allocated]]
      BY <1>3, <2>2 DEF Enter
    <3> HIDE DEF f
    <3>2. QED
      BY <1>2, <2>1, <3>1
  <2>3. CASE ~CanRegister
    BY <1>1, <1>3, <2>3 DEF Enter
  <2>4. QED
    BY <2>2, <2>3
<1>4. CASE Leave(t)
  <2>1. At(t, "leave")
    BY <1>4 DEF Leave
  <2>2. CASE End(t, "conversion")
    BY <1>1, <2>2
  <2>3. CASE frame' = [frame EXCEPT ![t] = [Advanced(@) EXCEPT !.bridge = 0]]
    <3>1. frame' = [frame EXCEPT ![t] = [Advanced(f) EXCEPT !.bridge = 0]]
      BY <2>3
    <3> HIDE DEF f
    <3>2. QED
      BY <1>2, <2>1, <3>1
  <2>4. QED
    BY <1>4, <2>2, <2>3 DEF Leave
<1>5. QED
  BY <1>3, <1>4

LEMMA BulkZips ==
  ASSUME FramesFit, NEW t \in Threads, BulkFits(frame[t]), ZipNames(t)
  PROVE  BulkFits(frame'[t])
<1> DEFINE f == frame[t]
<1>1. At(t, "zip") /\ IsFrame(f) /\ f.do[1].does = "zip" /\ f.outcome = "running"
  BY AtIs DEF ZipNames, FramesFit, FrameFits
<1>2. CASE Contains(f.out, "absent")
  <2>1. ASSUME f.method \in BulkMethods PROVE Contains(Answers(f), "absent")
    <3>1. NamesFit(f) /\ CollectFits(f.do, f.out, Answers(f), Len(f.names), Same(f.names))
      BY <1>1, <2>1, FrameNamesFit DEF BulkFits, BulkRuns
    <3> HIDE DEF f
    <3>2. PICK j \in 1..Len(f.names) : Answers(f)[j] = "absent"
      BY <1>2, <3>1, OutIs DEF NamesFit
    <3>3. QED
      BY <3>1, <3>2, AbsentIsThere
  <2>2. End(t, "missing")
    BY <1>2 DEF ZipNames
  <2>3. QED
    BY <2>1, <2>2, BulkMisses
<1>3. CASE ~Contains(f.out, "absent")
  <2>1. Go(t, f)
    BY <1>3 DEF ZipNames
  <2>2. Alike(f, f)
    BY <1>1, EnteringAlike
  <2>3. Gathers(f, f) /\ Reports(f, f) /\ Passes(f)
    <3>1. "zip" \notin Collecting \cup Whole
      BY DEF Collecting, Whole
    <3>2. QED
      BY <1>1, <1>3, <3>1 DEF Gathers, Reports, Passes
  <2>4. QED
    BY <1>1, <2>1, <2>2, <2>3, BulkGo
<1>4. QED
  BY <1>2, <1>3

LEMMA BulkBegins ==
  ASSUME FramesFit, NEW t \in Threads, NEW m \in Methods, StartCall(t, m)
  PROVE  BulkFits(frame'[t])
<1>1. PICK token \in BOOLEAN, sink \in BOOLEAN, names \in NamesFor(m) :
        frame' = [frame EXCEPT ![t] =
          [NoFrame EXCEPT !.method = m, !.names = names, !.token = token, !.sink = sink,
                          !.do = Program(m, names, token, sink), !.outcome = "running"]]
  BY DEF StartCall
<1> DEFINE p == Program(m, names, token, sink)
           g == [NoFrame EXCEPT !.method = m, !.names = names, !.token = token, !.sink = sink,
                                !.do = p, !.outcome = "running"]
<1>2. frame'[t] = g
  BY <1>1 DEF FramesFit
<1> HIDE DEF p
<1>3. /\ g.method = m /\ g.names = names /\ g.sink = sink /\ g.do = p
      /\ g.outcome = "running" /\ g.out = <<>> /\ g.ticks = <<>>
  BY DEF NoFrame
<1> HIDE DEF g
<1>4. ASSUME m \in BulkMethods PROVE BulkRuns(g)
  <2>1. Len(names) \in Nat
    BY HostCallsAssumption DEF NamesFor
  <2>2. p = Bulk(m, names, token, sink)
    BY <1>4 DEF Program, p
  <2>3. PICK a : a = Answers(g)
    OBVIOUS
  <2>4. PICK query : query = (SingleOf[m] = "query_declaration")
    OBVIOUS
  <2>5. Starts(p, a, Len(names), Same(names), sink, query)
    BY <1>4, <2>1, <2>2, <2>4, BulkStarts
  <2>6. query <=> Queries(g)
    BY <1>3, <2>4 DEF Queries
  <2>7. QED
    BY <1>3, <2>3, <2>5, <2>6 DEF Starts, BulkRuns
<1>5. QED
  BY <1>2, <1>3, <1>4 DEF BulkFits

LEMMA BulkSteps ==
  ASSUME FramesFit, NEW t \in Threads, BulkFits(frame[t]), Steps(t)
  PROVE  BulkFits(frame'[t])
BY PlainBulk, CallBulkItem, CallBulkWhole, BulkReport, BulkEntersAndLeaves, BulkWorks, BulkTick,
   BulkZips, BulkIsOk DEF Steps

BulkInv == CallsInv /\ BulksFit

LEMMA BulkInitInv == CallsInit => BulkInv
<1> SUFFICES ASSUME CallsInit PROVE BulksFit
  BY CallsInitInv DEF BulkInv
<1>1. \A t \in Threads : frame[t].outcome = "none"
  BY DEF CallsInit, NoFrame
<1>2. QED
  BY <1>1 DEF BulksFit, BulkFits

LEMMA BulkNextInv == BulkInv /\ [CallsNext]_callVars => BulkInv'
<1> SUFFICES ASSUME BulkInv, [CallsNext]_callVars PROVE BulkInv'
  OBVIOUS
<1>0. CallsInv' /\ FramesFit /\ cancelled \in BOOLEAN /\ RegistryTypeOK
  BY CallsNextInv DEF BulkInv, CallsInv
<1>1. ASSUME NEW t \in Threads, BulkFits(frame'[t]), \A u \in Threads \ {t} : frame'[u] = frame[u]
      PROVE  BulksFit'
  <2>1. \A u \in Threads : BulkFits(frame'[u])
    BY <1>1 DEF BulkInv, BulksFit
  <2>2. QED
    BY <2>1 DEF BulksFit
<1>2. ASSUME NEW t \in Threads, NEW m \in Methods, StartCall(t, m) PROVE BulksFit'
  <2>1. CallMoves(t) /\ UNCHANGED cancelled
    BY <1>0, <1>2, StartMoves
  <2>2. BulkFits(frame'[t])
    BY <1>0, <1>2, BulkBegins
  <2>3. QED
    BY <1>0, <1>1, <2>1, <2>2, MoveKeepsFrames
<1>3. ASSUME NEW t \in Threads, Steps(t) PROVE BulksFit'
  <2>1. CallMoves(t) /\ UNCHANGED cancelled
    BY <1>0, <1>3, CallsReach, StepsMove DEF BulkInv
  <2>2. BulkFits(frame'[t])
    BY <1>0, <1>3, BulkSteps DEF BulkInv, BulksFit
  <2>3. QED
    BY <1>0, <1>1, <2>1, <2>2, MoveKeepsFrames
<1>4. ASSUME Cancel \/ UNCHANGED callVars PROVE BulksFit'
  <2>1. frame' = frame
    BY <1>4 DEF Cancel, callVars
  <2>2. QED
    BY <1>0, <2>1 DEF BulkInv, BulksFit
<1>5. BulksFit'
  BY <1>2, <1>3, <1>4 DEF CallsNext
<1>6. QED
  BY <1>0, <1>5 DEF BulkInv

\* A bulk method answers and reports what its single method would for the names
\* one by one, in order, whichever of its up to four programs runs: item by item
\* under a token, in one entry, with Lean's reports, or with one lookup for equal
\* names; and it misses a name only if one is absent (session.rs, progress.rs).
THEOREM BulkCallsAreFolds == CallsSpec => []BulkIsFold
<1>1. BulkInv => BulkIsFold
  <2> SUFFICES ASSUME BulkInv PROVE BulkIsFold
    OBVIOUS
  <2>1. ASSUME NEW t \in Threads, frame[t].method \in BulkMethods
        PROVE  LET single == SingleOf[frame[t].method]
                   answers == [i \in DOMAIN frame[t].names |-> Answer(single, frame[t].names[i])]
               IN /\ frame[t].outcome = "ok" => frame[t].out = answers
                  /\ frame[t].outcome \in {"ok", "missing"} /\ single = "query_declaration" =>
                       ((frame[t].outcome = "missing") <=> Contains(answers, "absent"))
    <3>1. BulkFits(frame[t])
      BY DEF BulkInv, BulksFit
    <3>2. /\ frame[t].outcome = "ok" => BulkReturned(frame[t])
          /\ frame[t].outcome = "missing" /\ Queries(frame[t]) =>
               Contains(Answers(frame[t]), "absent")
      BY <2>1, <3>1 DEF BulkFits
    <3>3. frame[t].outcome = "ok" => frame[t].out = Answers(frame[t])
      BY <3>2 DEF BulkReturned
    <3>4. frame[t].outcome = "ok" /\ Queries(frame[t]) => ~Contains(Answers(frame[t]), "absent")
      BY <3>2, <3>3 DEF BulkReturned
    <3>5. QED
      BY <3>2, <3>3, <3>4 DEF Answers, Queries
  <2>2. AnswersAreSingle
    BY <2>1 DEF AnswersAreSingle
  <2>3. TicksCountItems
    <3>1. ASSUME NEW t \in Threads, frame[t].method \in BulkMethods, frame[t].sink,
                 frame[t].outcome = "ok"
          PROVE  frame[t].ticks \in {[i \in DOMAIN frame[t].names |-> i],
                                     [i \in DOMAIN frame[t].names |-> i]
                                       \o [i \in DOMAIN frame[t].names |-> i]}
      <4>1. BulkReturned(frame[t])
        BY <3>1 DEF BulkInv, BulksFit, BulkFits
      <4>2. NamesFit(frame[t])
        BY FrameNamesFit DEF BulkInv, CallsInv
      <4>3. Count(Len(frame[t].names)) = [i \in DOMAIN frame[t].names |-> i]
        BY <4>2 DEF Count, NamesFit
      <4>4. QED
        BY <3>1, <4>1, <4>3 DEF BulkReturned
    <3>2. QED
      BY <3>1 DEF TicksCountItems
  <2>4. QED
    BY <2>2, <2>3 DEF BulkIsFold
<1>2. QED
  BY <1>1, BulkInitInv, BulkNextInv, PTL DEF CallsSpec

-----------------------------------------------------------------------------
(* Sessions                                                                *)

Places == {"idle", "verify", "admit", "start", "wait", "begin", "import", "end", "stamp",
           "failed", "rejected", "got"}
\* Where an import has the lock.
Locked == {"begin", "import", "end", "stamp", "failed", "rejected"}
\* Where an import from a pool is admitted and not yet counted.
Admitted == {"start", "wait", "begin", "import", "end", "stamp"}

Envs == [key : Keys \cup {"none"}, stamp : Nat, width : Nat]
\* An environment that was built, with the stamp it has to have.
Exact(env) == env.key \in Keys /\ env.stamp = env.width

Jobs == [kind : {"none", "pooled", "direct", "bracketed"}, key : Keys \cup {"none"},
         sink : BOOLEAN, at : Places, since : Nat, env : Envs, bridge : 0..(IdSpace - 1)]
CountFields == {"imports", "reused", "kept", "dropped", "drained", "stale", "acquired"}
Counts == [CountFields -> Nat]

SharedTypes ==
  /\ lock \in Threads \cup {NoThread} /\ initFlag \in BOOLEAN
  /\ loaded \subseteq Registering /\ IsFiniteSet(loaded) /\ opens \in 0..MaxOpens
  /\ header \in [Threads -> {"none", "enabled", "imported", "rejected"}]
  /\ headerCleared \subseteq Threads \cup {NoThread}

OwnTypes ==
  /\ lost \in [Threads -> Nat] /\ job \in [Threads -> Jobs] /\ session \in [Threads -> Envs]
  /\ pool \in [Threads -> Seq(Envs)] /\ stats \in [Threads -> Counts]

\* What a thread is opening, or holds, fits the lock, the flag and the registry.
JobFits(t) ==
  LET j == job[t]
  IN /\ j.at \in Locked => lock = t
     /\ Running(t) => j.at = "got"
     /\ (j.at = "got") <=> Holds(t)
     /\ j.bridge # 0 => j.at \in Locked
     /\ j.at # "idle" => j.key \in Keys
     /\ j.at \in {"verify", "admit"} => j.kind = "pooled"
     /\ j.at = "verify" => Exact(j.env)
     /\ j.at \in {"end", "stamp"} /\ j.kind # "bracketed" => j.env.key \in Keys /\ j.env.width = Epoch
     /\ j.since <= Epoch
     /\ j.at = "import" /\ j.kind # "bracketed" /\ ~initFlag => t \in headerCleared
     /\ j.at = "rejected" => t \in headerCleared

HeldFits(t) ==
  /\ Holds(t) => Exact(session[t]) /\ session[t].width >= job[t].since
  /\ \A i \in DOMAIN pool[t] : Exact(pool[t][i])

\* PoolConserves for one thread, and the import that is still to be counted.
Balance(s, n, l, out, moving) ==
  /\ s.acquired = s.reused + s.imports
  /\ s.acquired = s.kept + s.dropped + out
  /\ s.kept = n + s.reused + s.stale + s.drained + l + moving
  /\ n <= Capacity /\ s.imports <= FreshImports
Out(t) == IF job[t].at = "got" /\ job[t].kind = "pooled" THEN 1 ELSE 0
Moving(t) == IF job[t].at = "verify" THEN 1 ELSE 0
PoolFits(t) ==
  /\ Balance(stats[t], Len(pool[t]), lost[t], Out(t), Moving(t))
  /\ job[t].kind = "pooled" /\ job[t].at \in Admitted => stats[t].imports < FreshImports

Bridges == [t \in Threads |-> {frame[t].bridge, job[t].bridge} \ {0}]

CallsFit ==
  /\ RegistryTypeOK /\ cancelled \in BOOLEAN /\ calls \in 0..MaxCalls /\ FramesFit
  /\ ServedBy(registry, Bridges)

SessionsInv ==
  /\ CallsFit /\ SharedTypes /\ OwnTypes
  /\ \A t \in Threads : JobFits(t) /\ HeldFits(t) /\ PoolFits(t)

\* What the invariant says of one thread.
LEMMA Facts ==
  ASSUME SessionsInv, NEW t \in Threads
  PROVE  /\ job[t] \in Jobs /\ session[t] \in Envs /\ pool[t] \in Seq(Envs)
         /\ stats[t] \in Counts /\ lost[t] \in Nat
         /\ JobFits(t) /\ HeldFits(t) /\ PoolFits(t)
         /\ IsFiniteSet(loaded) /\ Epoch \in Nat
         /\ FrameFits(frame[t], cancelled)
         /\ frame[t].bridge # 0 => Running(t) /\ job[t].bridge = 0
<1>1. /\ job[t] \in Jobs /\ session[t] \in Envs /\ pool[t] \in Seq(Envs)
      /\ stats[t] \in Counts /\ lost[t] \in Nat
  BY DEF SessionsInv, OwnTypes
<1>2. JobFits(t) /\ HeldFits(t) /\ PoolFits(t) /\ IsFiniteSet(loaded)
      /\ FrameFits(frame[t], cancelled)
  BY DEF SessionsInv, SharedTypes, CallsFit, FramesFit
<1>3. Epoch \in Nat
  BY <1>2, FS_CardinalityType DEF Epoch
<1>4. frame[t].bridge # 0 => Running(t)
  BY <1>2 DEF FrameFits, Running
<1>5. Running(t) => job[t].bridge = 0
  BY <1>2 DEF JobFits, Locked
<1>6. QED
  BY <1>1, <1>2, <1>3, <1>4, <1>5

\* What the lock protects is left alone, and the flag is cleared under it only
\* by a header's import that says so.
Respects(u) ==
  /\ lock = u => /\ lock' = lock /\ loaded' = loaded
                 /\ initFlag /\ ~initFlag' => u \in headerCleared'
  /\ u \in headerCleared => u \in headerCleared'

LEMMA OthersFit ==
  ASSUME SessionsInv, NEW u \in Threads, Respects(u), Epoch' \in Nat, Epoch <= Epoch',
         initFlag' \in BOOLEAN,
         job'[u] = job[u], session'[u] = session[u], pool'[u] = pool[u],
         stats'[u] = stats[u], lost'[u] = lost[u], Running(u)' => job[u].at = "got"
  PROVE  JobFits(u)' /\ HeldFits(u)' /\ PoolFits(u)'
<1>1. /\ JobFits(u) /\ HeldFits(u) /\ PoolFits(u) /\ Epoch \in Nat /\ job[u] \in Jobs
  BY Facts
<1>2. Holds(u)' = Holds(u)
  BY DEF Holds
<1>3. HeldFits(u)'
  BY <1>1, <1>2 DEF HeldFits
<1>4. PoolFits(u)'
  BY <1>1 DEF PoolFits, Out, Moving
<1>5. job[u].at \in {"end", "stamp"} => lock = u
  BY <1>1 DEF JobFits, Locked
<1>6. job[u].at \in {"end", "stamp"} => Epoch' = Epoch
  BY <1>5 DEF Respects, Epoch
<1>7. job[u].since <= Epoch'
  BY <1>1 DEF JobFits, Jobs
<1>8. job[u].at = "import" => lock = u
  BY <1>1 DEF JobFits, Locked
<1>9. job[u].at = "import" /\ job[u].kind # "bracketed" /\ ~initFlag' => u \in headerCleared'
  BY <1>1, <1>8 DEF JobFits, Respects
<1>10. job[u].at = "rejected" => u \in headerCleared'
  BY <1>1 DEF JobFits, Respects
<1>11. job[u].at \in Locked => lock' = u
  BY <1>1 DEF JobFits, Respects
<1>12. JobFits(u)'
  BY <1>1, <1>2, <1>6, <1>7, <1>9, <1>10, <1>11 DEF JobFits
<1>13. QED
  BY <1>3, <1>4, <1>12

\* The parts of a step of one thread.
Sets(t, j, s, p, c, l) ==
  /\ job' = [job EXCEPT ![t] = j] /\ session' = [session EXCEPT ![t] = s]
  /\ pool' = [pool EXCEPT ![t] = p] /\ stats' = [stats EXCEPT ![t] = c]
  /\ lost' = [lost EXCEPT ![t] = l]

LEMMA OwnStep ==
  ASSUME SessionsInv, NEW t \in Threads, NEW j \in Jobs, NEW s \in Envs, NEW p \in Seq(Envs),
         NEW c \in Counts, NEW l \in Nat, Sets(t, j, s, p, c, l),
         \A u \in Threads \ {t} : Respects(u) /\ frame'[u] = frame[u],
         Epoch <= Epoch', SharedTypes', CallsFit',
         JobFits(t)', HeldFits(t)', PoolFits(t)'
  PROVE  SessionsInv'
<1>1. OwnTypes
  BY DEF SessionsInv
<1>2. OwnTypes'
  BY <1>1 DEF OwnTypes, Sets
<1>3. \A u \in Threads \ {t} : /\ job'[u] = job[u] /\ session'[u] = session[u]
                              /\ pool'[u] = pool[u] /\ stats'[u] = stats[u] /\ lost'[u] = lost[u]
  BY <1>1 DEF OwnTypes, Sets
<1>4. Epoch' \in Nat /\ initFlag' \in BOOLEAN
  <2>1. IsFiniteSet(loaded') /\ initFlag' \in BOOLEAN
    BY DEF SharedTypes
  <2>2. QED
    BY <2>1, FS_CardinalityType DEF Epoch
<1>5. \A u \in Threads \ {t} : JobFits(u)' /\ HeldFits(u)' /\ PoolFits(u)'
  <2> TAKE u \in Threads \ {t}
  <2>1. Running(u)' => job[u].at = "got"
    BY Facts DEF Running, JobFits
  <2>2. QED
    BY <1>3, <1>4, <2>1, OthersFit
<1>6. QED
  BY <1>2, <1>5 DEF SessionsInv

\* Nothing changes for any thread, but for what is shared.
LEMMA SharedStep ==
  ASSUME SessionsInv, \A u \in Threads : Respects(u), Epoch <= Epoch', SharedTypes', CallsFit',
         UNCHANGED <<job, session, pool, stats, lost>>,
         \A u \in Threads : Running(u)' => job[u].at = "got"
  PROVE  SessionsInv'
<1>1. OwnTypes'
  BY DEF SessionsInv, OwnTypes
<1>2. Epoch' \in Nat /\ initFlag' \in BOOLEAN
  <2>1. IsFiniteSet(loaded') /\ initFlag' \in BOOLEAN
    BY DEF SharedTypes
  <2>2. QED
    BY <2>1, FS_CardinalityType DEF Epoch
<1>3. \A u \in Threads : JobFits(u)' /\ HeldFits(u)' /\ PoolFits(u)'
  BY <1>2, OthersFit
<1>4. QED
  BY <1>1, <1>3 DEF SessionsInv

\* The calls, when only a bridge moves.
LEMMA BridgesMove ==
  ASSUME SessionsInv, NEW t \in Threads, NEW old, NEW new, Moves(t, old, new),
         {frame[t].bridge, job[t].bridge} \ {0} = {old} \ {0},
         {frame'[t].bridge, job'[t].bridge} \ {0} = {new} \ {0},
         \A u \in Threads \ {t} : frame'[u] = frame[u] /\ job'[u] = job[u],
         FramesFit', cancelled' = cancelled, calls' \in 0..MaxCalls
  PROVE  CallsFit'
<1>1. PICK ids : ids = Bridges
  OBVIOUS
<1>2. ids = [u \in Threads |-> ids[u]] /\ ids[t] = {old} \ {0}
      /\ \A u \in Threads : ids[u] = {frame[u].bridge, job[u].bridge} \ {0}
  BY <1>1 DEF Bridges
<1>3. PICK left : left = [ids EXCEPT ![t] = (ids[t] \ {old}) \cup ({new} \ {0})]
  OBVIOUS
<1>4. RegistryTypeOK' /\ ServedBy(registry', left)
  <2>1. old # 0 => old \in ids[t]
    BY <1>2
  <2>2. RegistryTypeOK /\ ServedBy(registry, ids)
    BY <1>1 DEF SessionsInv, CallsFit
  <2>3. QED
    BY <1>2, <1>3, <2>1, <2>2, MovesServe
<1>5. left = [u \in Threads |-> {frame'[u].bridge, job'[u].bridge} \ {0}]
  <2>1. \A u \in Threads \ {t} : left[u] = {frame'[u].bridge, job'[u].bridge} \ {0}
    BY <1>2, <1>3
  <2>2. left[t] = {new} \ {0}
    BY <1>2, <1>3
  <2>3. \A u \in Threads : left[u] = {frame'[u].bridge, job'[u].bridge} \ {0}
    BY <2>1, <2>2
  <2>4. left = [u \in Threads |-> left[u]]
    BY <1>2, <1>3
  <2>5. QED
    BY <2>3, <2>4
<1>6. ServedBy(registry', Bridges')
  BY <1>4, <1>5 DEF Bridges
<1>7. QED
  BY <1>4, <1>6 DEF CallsFit, SessionsInv

LEMMA CallsKept ==
  ASSUME SessionsInv, UNCHANGED callVars, \A u \in Threads : job'[u].bridge = job[u].bridge
  PROVE  CallsFit'
<1>1. /\ registry' = registry /\ nextId' = nextId /\ cancelled' = cancelled
      /\ frame' = frame /\ calls' = calls
  BY DEF callVars, registryVars
<1>2. Bridges' = Bridges
  BY <1>1 DEF Bridges
<1>3. RegistryTypeOK' /\ FramesFit'
  BY <1>1 DEF SessionsInv, CallsFit, RegistryTypeOK, FramesFit
<1>4. QED
  BY <1>1, <1>2, <1>3 DEF SessionsInv, CallsFit

-----------------------------------------------------------------------------
(* Jobs                                                                    *)

LEMMA NoEnvIs == NoEnv \in Envs /\ NoEnv.key = "none" /\ NoEnv.stamp = NoEnv.width
BY DEF NoEnv, Envs

LEMMA NoJobIs ==
  /\ NoJob \in Jobs /\ NoJob.kind = "none" /\ NoJob.key = "none" /\ NoJob.at = "idle"
  /\ NoJob.since = 0 /\ NoJob.bridge = 0
<1>1. 0 \in 0..(IdSpace - 1)
  BY RegistryAssumption
<1>2. QED
  BY <1>1, NoEnvIs DEF NoJob, Jobs, Places

\* A thread that is not idle, does not hold a session and takes none from its pool.
Opening(j) == j.at \notin {"got", "verify"}

\* A step of an import: nothing that the thread owns changes but its job.
LEMMA QuietStep ==
  ASSUME SessionsInv, NEW t \in Threads, NEW j \in Jobs, job' = [job EXCEPT ![t] = j],
         Opening(job[t]), Opening(j),
         UNCHANGED <<session, pool, stats, lost, frame>>,
         \A u \in Threads \ {t} : Respects(u), Epoch <= Epoch', SharedTypes', CallsFit',
         j.at # "idle" => j.key \in Keys,
         j.at \in Locked => lock' = t,
         j.bridge # 0 => j.at \in Locked,
         j.at = "admit" => j.kind = "pooled",
         j.at \in {"end", "stamp"} /\ j.kind # "bracketed" =>
           j.env.key \in Keys /\ j.env.width = Epoch',
         j.since <= Epoch',
         j.at = "import" /\ j.kind # "bracketed" /\ ~initFlag' => t \in headerCleared',
         j.at = "rejected" => t \in headerCleared',
         j.kind = "pooled" /\ j.at \in Admitted => stats[t].imports < FreshImports
  PROVE  SessionsInv'
<1>1. /\ job[t] \in Jobs /\ session[t] \in Envs /\ pool[t] \in Seq(Envs)
      /\ stats[t] \in Counts /\ lost[t] \in Nat /\ JobFits(t) /\ HeldFits(t) /\ PoolFits(t)
  BY Facts
<1>2. OwnTypes
  BY DEF SessionsInv
<1>3. Sets(t, j, session[t], pool[t], stats[t], lost[t])
  BY <1>2 DEF Sets, OwnTypes
<1>4. /\ job'[t] = j /\ session'[t] = session[t] /\ pool'[t] = pool[t]
      /\ stats'[t] = stats[t] /\ lost'[t] = lost[t] /\ frame' = frame
  BY <1>2 DEF OwnTypes
<1>5. j.at # "got" /\ j.at # "verify" /\ job[t].at # "got" /\ job[t].at # "verify"
  BY DEF Opening
<1>6. ~Holds(t) /\ ~Holds(t)' /\ ~Running(t) /\ ~Running(t)'
  <2>1. ~Holds(t) /\ ~Running(t)
    BY <1>1, <1>5 DEF JobFits
  <2>2. QED
    BY <1>4, <2>1 DEF Holds, Running
<1>7. JobFits(t)'
  BY <1>4, <1>5, <1>6 DEF JobFits
<1>8. HeldFits(t)'
  BY <1>1, <1>4, <1>6 DEF HeldFits
<1>9. PoolFits(t)'
  BY <1>1, <1>4, <1>5 DEF PoolFits, Out, Moving
<1>10. QED
  BY <1>1, <1>3, <1>4, <1>7, <1>8, <1>9, OwnStep

LEMMA SharedKept ==
  ASSUME SessionsInv, UNCHANGED <<lock, initFlag, loaded, headerVars>>, opens' \in 0..MaxOpens
  PROVE  SharedTypes' /\ Epoch' = Epoch /\ \A u \in Threads : Respects(u)
BY DEF SessionsInv, SharedTypes, headerVars, Epoch, Respects

\* A step that changes its job and nothing else, but for the bound on opens.
LEMMA JobStep ==
  ASSUME SessionsInv, NEW t \in Threads, NEW j \in Jobs, job' = [job EXCEPT ![t] = j],
         Opening(job[t]), Opening(j),
         UNCHANGED <<callVars, lock, initFlag, loaded, headerVars>>,
         UNCHANGED <<session, pool, stats, lost>>, opens' \in 0..MaxOpens,
         j.bridge = job[t].bridge,
         j.at # "idle" => j.key \in Keys,
         j.at \in Locked => job[t].at \in Locked,
         j.bridge # 0 => j.at \in Locked,
         j.at = "admit" => j.kind = "pooled",
         j.at \in {"end", "stamp"} /\ j.kind # "bracketed" =>
           j.env.key \in Keys /\ j.env.width = Epoch,
         j.since <= Epoch,
         j.at \notin {"import", "rejected"},
         j.kind = "pooled" /\ j.at \in Admitted => stats[t].imports < FreshImports
  PROVE  SessionsInv'
<1>1. SharedTypes' /\ Epoch' = Epoch /\ Epoch \in Nat /\ \A u \in Threads : Respects(u)
  BY SharedKept, Facts
<1>2. frame' = frame /\ lock' = lock
  BY DEF callVars
<1>3. \A u \in Threads : job'[u].bridge = job[u].bridge
  BY DEF SessionsInv, OwnTypes
<1>4. CallsFit'
  BY <1>3, CallsKept
<1>5. j.at \in Locked => lock' = t
  BY <1>2, Facts DEF JobFits
<1>6. Epoch <= Epoch'
  BY <1>1
<1>7. UNCHANGED <<session, pool, stats, lost, frame>>
  BY <1>2
<1>8. /\ j.at \in {"end", "stamp"} /\ j.kind # "bracketed" =>
           j.env.key \in Keys /\ j.env.width = Epoch'
      /\ j.since <= Epoch'
  BY <1>1
<1>9. QED
  BY <1>1, <1>4, <1>5, <1>6, <1>7, <1>8, QuietStep

LEMMA AdmitFits ==
  ASSUME SessionsInv, NEW t \in Threads, Admit(t)
  PROVE  SessionsInv'
<1>1. /\ job[t] \in Jobs /\ stats[t] \in Counts /\ JobFits(t) /\ PoolFits(t) /\ Epoch \in Nat
      /\ job[t].at = "admit" /\ job[t].kind = "pooled" /\ job[t].bridge = 0
  BY Facts DEF Admit, Phase, JobFits, Locked
<1>2. /\ UNCHANGED <<callVars, lock, initFlag, loaded, headerVars>>
      /\ UNCHANGED <<session, pool, stats, lost>> /\ opens' \in 0..MaxOpens
  BY DEF Admit, SessionsInv, SharedTypes
<1>3. CASE job' = [job EXCEPT ![t] = NoJob]
  <2>1. Opening(job[t]) /\ Opening(NoJob)
    BY <1>1, NoJobIs DEF Opening
  <2>2. NoJob.at \notin Locked /\ NoJob.at \notin Admitted /\ NoJob.since <= Epoch
    BY <1>1, NoJobIs DEF Locked, Admitted
  <2>3. QED
    BY <1>1, <1>2, <1>3, <2>1, <2>2, NoJobIs, JobStep
<1>4. CASE ~OverLimit(stats[t]) /\ To(t, "start")
  <2> DEFINE j == [job[t] EXCEPT !.at = "start"]
  <2>1. job' = [job EXCEPT ![t] = j]
    BY <1>4 DEF To
  <2>2. /\ j \in Jobs /\ j.at = "start" /\ j.kind = job[t].kind /\ j.key = job[t].key
        /\ j.bridge = job[t].bridge /\ j.since = job[t].since
    BY <1>1 DEF Jobs, Places
  <2> HIDE DEF j
  <2>3. stats[t].imports < FreshImports
    BY <1>1, <1>4, HostSessionsAssumption DEF OverLimit, Counts, CountFields
  <2>4. Opening(job[t]) /\ Opening(j) /\ j.at \notin Locked
    BY <1>1, <2>2 DEF Opening, Locked
  <2>5. job[t].key \in Keys /\ job[t].since <= Epoch
    BY <1>1 DEF JobFits
  <2>6. QED
    BY <1>1, <1>2, <2>1, <2>2, <2>3, <2>4, <2>5, JobStep
<1>5. QED
  BY <1>3, <1>4 DEF Admit

LEMMA OpenFits ==
  ASSUME SessionsInv, NEW t \in Threads, NEW k \in Keys, NEW sink \in BOOLEAN,
         NEW kind \in {"direct", "bracketed"}, Open(t, kind, k, sink)
  PROVE  SessionsInv'
<1> DEFINE j == [NoJob EXCEPT !.kind = kind, !.key = k, !.sink = sink, !.at = "start",
                              !.since = Epoch]
<1>1. /\ JobFits(t) /\ Epoch \in Nat /\ job[t].at = "idle" /\ job[t].bridge = 0
  BY Facts DEF Open, Idle, JobFits, Locked
<1>2. /\ UNCHANGED <<callVars, lock, initFlag, loaded, headerVars>>
      /\ UNCHANGED <<session, pool, stats, lost>>
  BY DEF Open
<1>3. opens' \in 0..MaxOpens
  BY HostSessionsAssumption DEF Open, SessionsInv, SharedTypes
<1>4. /\ j \in Jobs /\ j.at = "start" /\ j.kind = kind /\ j.key = k /\ j.bridge = 0
      /\ j.since = Epoch
  BY <1>1, NoJobIs DEF Jobs, Places
<1>5. job' = [job EXCEPT ![t] = j]
  BY DEF Open
<1> HIDE DEF j
<1>6. Opening(job[t]) /\ Opening(j) /\ j.at \notin Locked
  BY <1>1, <1>4 DEF Opening, Locked
<1>7. j.since <= Epoch
  BY <1>1, <1>4
<1>8. QED
  BY <1>1, <1>2, <1>3, <1>4, <1>5, <1>6, <1>7, JobStep

LEMMA StartFits ==
  ASSUME SessionsInv, NEW t \in Threads, Start(t)
  PROVE  SessionsInv'
<1>1. /\ job[t] \in Jobs /\ JobFits(t) /\ PoolFits(t) /\ Epoch \in Nat
      /\ job[t].at = "start" /\ job[t].bridge = 0
  BY Facts DEF Start, Phase, JobFits, Locked
<1>2. /\ UNCHANGED <<callVars, lock, initFlag, loaded, headerVars>>
      /\ UNCHANGED <<session, pool, stats, lost>> /\ opens' \in 0..MaxOpens
  BY DEF Start, SessionsInv, SharedTypes
<1>3. CASE job' = [job EXCEPT ![t] = NoJob]
  <2>1. Opening(job[t]) /\ Opening(NoJob)
    BY <1>1, NoJobIs DEF Opening
  <2>2. NoJob.at \notin Locked /\ NoJob.at \notin Admitted /\ NoJob.since <= Epoch
    BY <1>1, NoJobIs DEF Locked, Admitted
  <2>3. QED
    BY <1>1, <1>2, <1>3, <2>1, <2>2, NoJobIs, JobStep
<1>4. CASE To(t, "wait")
  <2> DEFINE j == [job[t] EXCEPT !.at = "wait"]
  <2>1. job' = [job EXCEPT ![t] = j]
    BY <1>4 DEF To
  <2>2. /\ j \in Jobs /\ j.at = "wait" /\ j.kind = job[t].kind /\ j.key = job[t].key
        /\ j.bridge = job[t].bridge /\ j.since = job[t].since
    BY <1>1 DEF Jobs, Places
  <2> HIDE DEF j
  <2>3. Opening(job[t]) /\ Opening(j) /\ j.at \notin Locked
    BY <1>1, <2>2 DEF Opening, Locked
  <2>4. job[t].key \in Keys /\ job[t].since <= Epoch
    BY <1>1 DEF JobFits
  <2>5. j.kind = "pooled" => stats[t].imports < FreshImports
    BY <1>1, <2>2 DEF PoolFits, Admitted
  <2>6. QED
    BY <1>1, <1>2, <2>1, <2>2, <2>3, <2>4, <2>5, JobStep
<1>5. QED
  BY <1>3, <1>4 DEF Start

LEMMA EndImportFits ==
  ASSUME SessionsInv, NEW t \in Threads, EndImport(t)
  PROVE  SessionsInv'
<1>1. /\ job[t] \in Jobs /\ JobFits(t) /\ PoolFits(t) /\ Epoch \in Nat /\ job[t].at = "end"
  BY Facts DEF EndImport, Phase
<1>2. /\ UNCHANGED <<callVars, lock, initFlag, loaded, headerVars>>
      /\ UNCHANGED <<session, pool, stats, lost>> /\ opens' \in 0..MaxOpens
  BY DEF EndImport, SessionsInv, SharedTypes
<1>3. PICK at \in {"stamp", "failed"} : To(t, at)
  BY DEF EndImport, SinkRuns
<1> DEFINE j == [job[t] EXCEPT !.at = at]
<1>4. job' = [job EXCEPT ![t] = j]
  BY <1>3 DEF To
<1>5. /\ j \in Jobs /\ j.at = at /\ j.kind = job[t].kind /\ j.key = job[t].key
      /\ j.bridge = job[t].bridge /\ j.since = job[t].since /\ j.env = job[t].env
  BY <1>1 DEF Jobs, Places
<1> HIDE DEF j
<1>6. Opening(job[t]) /\ Opening(j) /\ j.at \in Locked /\ job[t].at \in Locked
  BY <1>1, <1>5 DEF Opening, Locked
<1>7. job[t].key \in Keys /\ job[t].since <= Epoch
  BY <1>1 DEF JobFits
<1>8. job[t].kind = "pooled" => stats[t].imports < FreshImports
  BY <1>1 DEF PoolFits, Admitted
<1>9. job[t].kind # "bracketed" => job[t].env.key \in Keys /\ job[t].env.width = Epoch
  BY <1>1 DEF JobFits
<1>10. QED
  BY <1>1, <1>2, <1>4, <1>5, <1>6, <1>7, <1>8, <1>9, JobStep

-----------------------------------------------------------------------------
(* Under the lock                                                          *)

LEMMA FramesKept ==
  ASSUME SessionsInv, UNCHANGED <<frame, cancelled, calls>>
  PROVE  FramesFit' /\ calls' \in 0..MaxCalls /\ cancelled' = cancelled
BY DEF SessionsInv, CallsFit, FramesFit

LEMMA JobBridgeMoves ==
  ASSUME SessionsInv, NEW t \in Threads, job[t].at # "got", NEW j \in Jobs,
         job' = [job EXCEPT ![t] = j], UNCHANGED <<frame, cancelled, calls>>,
         Moves(t, job[t].bridge, j.bridge)
  PROVE  CallsFit'
<1>1. FramesFit' /\ calls' \in 0..MaxCalls /\ cancelled' = cancelled
  BY FramesKept
<1>2. frame[t].bridge = 0
  BY Facts DEF JobFits
<1>3. PICK old, new : old = job[t].bridge /\ new = j.bridge
  OBVIOUS
<1>4. job'[t] = j /\ (\A u \in Threads \ {t} : job'[u] = job[u]) /\ frame' = frame
  BY DEF SessionsInv, OwnTypes
<1>5. /\ {frame[t].bridge, job[t].bridge} \ {0} = {old} \ {0}
      /\ {frame'[t].bridge, job'[t].bridge} \ {0} = {new} \ {0}
  BY <1>2, <1>3, <1>4
<1>6. Moves(t, old, new)
  BY <1>3
<1>7. QED
  BY <1>1, <1>4, <1>5, <1>6, BridgesMove

LEMMA TakeLockFits ==
  ASSUME SessionsInv, NEW t \in Threads, TakeLock(t)
  PROVE  SessionsInv'
<1>1. /\ job[t] \in Jobs /\ JobFits(t) /\ PoolFits(t) /\ Epoch \in Nat
      /\ job[t].at = "wait" /\ job[t].bridge = 0
  BY Facts DEF TakeLock, Phase, JobFits, Locked
<1>2. /\ UNCHANGED <<frame, cancelled, calls>>
      /\ UNCHANGED <<session, pool, stats, lost, frame>>
      /\ UNCHANGED <<initFlag, loaded, opens, headerVars>>
      /\ lock = NoThread /\ lock' = t
  BY DEF TakeLock, LockFree
<1>3. SharedTypes' /\ Epoch' = Epoch /\ \A u \in Threads \ {t} : Respects(u)
  BY <1>2, HostSessionsAssumption DEF SessionsInv, SharedTypes, headerVars, Epoch, Respects
<1>4. 0 \in 0..(IdSpace - 1) /\ (CanRegister => Allocated \in 0..(IdSpace - 1))
  <2>1. CanRegister => Allocated \in Ids
    BY AllocatedIsFree DEF Free, SessionsInv, CallsFit
  <2>2. 0 \in 0..(IdSpace - 1) /\ Ids \subseteq 0..(IdSpace - 1)
    BY RegistryAssumption DEF Ids
  <2>3. QED
    BY <2>1, <2>2
<1>5. PICK at \in {"failed", "begin"}, bridge \in 0..(IdSpace - 1) :
        /\ job' = [job EXCEPT ![t].at = at, ![t].bridge = bridge]
        /\ Moves(t, 0, bridge)
  <2>1. CASE UNCHANGED registryVars /\ (To(t, "failed") \/ To(t, "begin"))
    <3>1. PICK at \in {"failed", "begin"} : To(t, at)
      BY <2>1
    <3>2. [job EXCEPT ![t].at = at] = [job EXCEPT ![t].at = at, ![t].bridge = 0]
      <4>1. [job[t] EXCEPT !.at = at] = [[job[t] EXCEPT !.at = at] EXCEPT !.bridge = 0]
        BY <1>1 DEF Jobs
      <4>2. QED
        BY <4>1 DEF SessionsInv, OwnTypes
    <3>3. QED
      BY <1>4, <2>1, <3>1, <3>2 DEF To, Moves
  <2>2. CASE /\ CanRegister /\ Register(t)
             /\ job' = [job EXCEPT ![t].at = "begin", ![t].bridge = Allocated]
    BY <1>4, <2>2 DEF Moves
  <2>3. QED
    BY <2>1, <2>2 DEF TakeLock
<1> DEFINE j == [[job[t] EXCEPT !.at = at] EXCEPT !.bridge = bridge]
<1>6. job' = [job EXCEPT ![t] = j]
  BY <1>5 DEF SessionsInv, OwnTypes
<1>7. /\ j \in Jobs /\ j.at = at /\ j.kind = job[t].kind /\ j.key = job[t].key
      /\ j.bridge = bridge /\ j.since = job[t].since
  BY <1>1, <1>5 DEF Jobs, Places
<1> HIDE DEF j
<1>8. CallsFit'
  <2>1. Moves(t, job[t].bridge, j.bridge)
    BY <1>1, <1>5, <1>7
  <2>2. job[t].at # "got"
    BY <1>1
  <2>3. QED
    BY <1>2, <1>6, <1>7, <2>1, <2>2, JobBridgeMoves
<1>9. Opening(job[t]) /\ Opening(j) /\ j.at \in Locked
  BY <1>1, <1>7 DEF Opening, Locked
<1>10. job[t].key \in Keys /\ job[t].since <= Epoch
  BY <1>1 DEF JobFits
<1>11. job[t].kind = "pooled" => stats[t].imports < FreshImports
  BY <1>1 DEF PoolFits, Admitted
<1>12. Epoch <= Epoch' /\ j.since <= Epoch' /\ j.at \notin {"end", "stamp", "import", "rejected"}
  BY <1>1, <1>3, <1>7, <1>10
<1>13. QED
  BY <1>2, <1>3, <1>6, <1>7, <1>8, <1>9, <1>10, <1>11, <1>12, QuietStep

LEMMA BeginFits ==
  ASSUME SessionsInv, NEW t \in Threads, Begin(t)
  PROVE  SessionsInv'
<1>1. /\ job[t] \in Jobs /\ JobFits(t) /\ PoolFits(t) /\ Epoch \in Nat
      /\ job[t].at = "begin" /\ lock = t
  BY Facts DEF Begin, Phase, JobFits, Locked
<1>2. /\ UNCHANGED callVars /\ UNCHANGED <<session, pool, stats, lost, frame>>
      /\ UNCHANGED <<lock, loaded, opens, header>> /\ headerCleared' = headerCleared \ {t}
  BY DEF Begin, callVars
<1>3. PICK at \in {"import", "failed"} : To(t, at)
  BY DEF Begin, SinkRuns
<1> DEFINE j == [job[t] EXCEPT !.at = at]
<1>4. job' = [job EXCEPT ![t] = j] /\ job'[t] = j
  BY <1>3 DEF To, SessionsInv, OwnTypes
<1>5. /\ j \in Jobs /\ j.at = at /\ j.kind = job[t].kind /\ j.key = job[t].key
      /\ j.bridge = job[t].bridge /\ j.since = job[t].since
  BY <1>1 DEF Jobs, Places
<1> HIDE DEF j
<1>6. initFlag' \in BOOLEAN /\ (j.at = "import" /\ j.kind # "bracketed" => initFlag')
  <2>1. CASE job[t].kind = "bracketed" /\ UNCHANGED initFlag
    BY <1>5, <2>1 DEF SessionsInv, SharedTypes
  <2>2. CASE initFlag' = (initFlag \/ job'[t].at = "import")
    <3>1. job'[t].at = j.at
      BY <1>4
    <3>2. initFlag \in BOOLEAN
      BY DEF SessionsInv, SharedTypes
    <3>3. QED
      BY <2>2, <3>1, <3>2
  <2>3. QED
    BY <2>1, <2>2 DEF Begin
<1>7. SharedTypes' /\ Epoch' = Epoch /\ \A u \in Threads \ {t} : Respects(u)
  BY <1>1, <1>2, <1>6 DEF SessionsInv, SharedTypes, Epoch, Respects
<1>8. CallsFit'
  <2>1. \A u \in Threads : job'[u].bridge = job[u].bridge
    BY <1>4, <1>5 DEF SessionsInv, OwnTypes
  <2>2. QED
    BY <1>2, <2>1, CallsKept
<1>9. Opening(job[t]) /\ Opening(j) /\ j.at \in Locked
  BY <1>1, <1>5 DEF Opening, Locked
<1>10. job[t].key \in Keys /\ job[t].since <= Epoch
  BY <1>1 DEF JobFits
<1>11. job[t].kind = "pooled" => stats[t].imports < FreshImports
  BY <1>1 DEF PoolFits, Admitted
<1>12. Epoch <= Epoch' /\ j.since <= Epoch' /\ j.at \notin {"end", "stamp", "rejected", "admit"}
  BY <1>1, <1>5, <1>7, <1>10
<1>13. j.at \in Locked => lock' = t
  BY <1>1, <1>2
<1>14. QED
  BY <1>2, <1>4, <1>5, <1>6, <1>7, <1>8, <1>9, <1>10, <1>11, <1>12, <1>13, QuietStep

\* The registry of extensions only grows.
LEMMA LoadedGrows ==
  ASSUME IsFiniteSet(loaded), NEW k, loaded' \in {loaded, loaded \cup ({k} \cap Registering)}
  PROVE  IsFiniteSet(loaded') /\ Epoch \in Nat /\ Epoch' \in Nat /\ Epoch <= Epoch'
<1>1. loaded' = loaded \/ loaded' = loaded \cup {k}
  OBVIOUS
<1>2. IsFiniteSet(loaded \cup {k})
  BY FS_AddElement
<1>3. IsFiniteSet(loaded') /\ loaded \subseteq loaded'
  BY <1>1, <1>2
<1>4. Cardinality(loaded) <= Cardinality(loaded')
  BY <1>3, FS_Subset
<1>5. QED
  BY <1>3, <1>4, FS_CardinalityType DEF Epoch

\* What an import makes of its job.
ImportedTo(t, j) ==
  /\ job' = [job EXCEPT ![t] = j] /\ j.kind = job[t].kind /\ j.key = job[t].key
  /\ j.bridge = job[t].bridge /\ j.since = job[t].since
  /\ j.at \in {"end", "rejected", "failed"}
  /\ j.at = "end" /\ j.kind # "bracketed" => j.env.key \in Keys /\ j.env.width = Epoch'
  /\ j.at = "rejected" => j.kind # "bracketed" /\ ~initFlag

LEMMA ImportFits ==
  ASSUME SessionsInv, NEW t \in Threads, Import(t)
  PROVE  SessionsInv'
<1>1. /\ job[t] \in Jobs /\ JobFits(t) /\ PoolFits(t) /\ IsFiniteSet(loaded)
      /\ job[t].at = "import" /\ lock = t /\ job[t].key \in Keys
  BY Facts DEF Import, Phase, JobFits, Locked
<1>2. /\ UNCHANGED callVars /\ UNCHANGED <<session, pool, stats, lost, frame>>
      /\ UNCHANGED <<lock, opens, headerVars>> /\ initFlag' = FALSE
  BY DEF Import, callVars
<1>3. loaded' \in {loaded, loaded \cup ({job[t].key} \cap Registering)}
  BY DEF Import
<1>4. IsFiniteSet(loaded') /\ Epoch \in Nat /\ Epoch' \in Nat /\ Epoch <= Epoch'
  BY <1>1, <1>3, LoadedGrows
<1>5. SharedTypes' /\ \A u \in Threads \ {t} : Respects(u)
  BY <1>1, <1>2, <1>3, <1>4 DEF SessionsInv, SharedTypes, headerVars, Respects
<1>6. PICK j \in Jobs : ImportedTo(t, j)
  <2>1. ASSUME NEW at \in {"end", "rejected", "failed"}, To(t, at),
               at = "end" => job[t].kind = "bracketed",
               at = "rejected" => job[t].kind # "bracketed" /\ ~initFlag
        PROVE  \E j \in Jobs : ImportedTo(t, j)
    <3> DEFINE j == [job[t] EXCEPT !.at = at]
    <3>1. /\ j \in Jobs /\ j.at = at /\ j.kind = job[t].kind /\ j.key = job[t].key
          /\ j.bridge = job[t].bridge /\ j.since = job[t].since
      BY <1>1 DEF Jobs, Places
    <3>2. job' = [job EXCEPT ![t] = j]
      BY <2>1 DEF To
    <3> HIDE DEF j
    <3>3. QED
      BY <2>1, <3>1, <3>2 DEF ImportedTo
  <2>2. ASSUME job' = [job EXCEPT ![t].at = "end",
                                  ![t].env = Env(job[t].key, 0, Cardinality(loaded'))]
        PROVE  \E j \in Jobs : ImportedTo(t, j)
    <3> DEFINE e == [key |-> job[t].key, stamp |-> 0, width |-> Epoch']
               j == [[job[t] EXCEPT !.at = "end"] EXCEPT !.env = e]
    <3>1. e \in Envs /\ e.key \in Keys /\ e.width = Epoch'
      BY <1>1, <1>4 DEF Envs
    <3>2. Env(job[t].key, 0, Cardinality(loaded')) = e
      BY DEF Env, Epoch
    <3> HIDE DEF e
    <3>3. /\ j \in Jobs /\ j.at = "end" /\ j.kind = job[t].kind /\ j.key = job[t].key
          /\ j.bridge = job[t].bridge /\ j.since = job[t].since /\ j.env = e
      BY <1>1, <3>1 DEF Jobs, Places
    <3>4. job' = [job EXCEPT ![t] = j]
      BY <2>2, <3>2 DEF SessionsInv, OwnTypes
    <3> HIDE DEF j
    <3>5. QED
      BY <3>1, <3>3, <3>4 DEF ImportedTo
  <2>3. QED
    BY <2>1, <2>2 DEF Import
<1>7. CallsFit'
  <2>1. \A u \in Threads : job'[u].bridge = job[u].bridge
    BY <1>6 DEF ImportedTo, SessionsInv, OwnTypes
  <2>2. QED
    BY <1>2, <2>1, CallsKept
<1>8. Opening(job[t]) /\ Opening(j) /\ j.at \in Locked
  BY <1>1, <1>6 DEF ImportedTo, Opening, Locked
<1>9. job[t].kind = "pooled" => stats[t].imports < FreshImports
  BY <1>1 DEF PoolFits, Admitted
<1>10. j.since <= Epoch'
  BY <1>1, <1>4, <1>6 DEF ImportedTo, JobFits, Jobs
<1>11. j.at = "rejected" => t \in headerCleared'
  BY <1>1, <1>2, <1>6 DEF ImportedTo, JobFits, headerVars
<1>12. j.at \notin {"stamp", "import", "admit"} /\ lock' = t
  BY <1>1, <1>2, <1>6 DEF ImportedTo
<1>13. /\ job' = [job EXCEPT ![t] = j] /\ j.kind = job[t].kind /\ j.key = job[t].key
       /\ j.bridge = job[t].bridge
       /\ j.at = "end" /\ j.kind # "bracketed" => j.env.key \in Keys /\ j.env.width = Epoch'
  BY <1>6 DEF ImportedTo
<1>14. QED
  BY <1>13, <1>1, <1>2, <1>4, <1>5, <1>6, <1>7, <1>8, <1>9, <1>10, <1>11, <1>12, QuietStep

LEMMA DropBridgeMoves ==
  ASSUME NEW t \in Threads, DropBridge(t)
  PROVE  Moves(t, job[t].bridge, 0)
BY DEF DropBridge, Moves

LEMMA LockReleased ==
  ASSUME SessionsInv, NEW t \in Threads, lock = t, lock' = NoThread,
         UNCHANGED <<initFlag, loaded, opens, headerVars>>
  PROVE  SharedTypes' /\ Epoch' = Epoch /\ \A u \in Threads \ {t} : Respects(u)
BY DEF SessionsInv, SharedTypes, headerVars, Epoch, Respects

\* An import that ends without a session.
LEMMA JobEnds ==
  ASSUME SessionsInv, NEW t \in Threads, job[t].at \in Locked, lock' = NoThread,
         DropBridge(t), job' = [job EXCEPT ![t] = NoJob],
         UNCHANGED <<frame, cancelled, calls, initFlag, loaded, session, pool, stats, opens,
                     lost, headerVars>>
  PROVE  SessionsInv'
<1>1. /\ JobFits(t) /\ Epoch \in Nat /\ lock = t /\ Opening(job[t])
  BY Facts DEF JobFits, Locked, Opening
<1>2. /\ UNCHANGED <<session, pool, stats, lost, frame>>
      /\ UNCHANGED <<frame, cancelled, calls>>
      /\ UNCHANGED <<initFlag, loaded, opens, headerVars>>
  OBVIOUS
<1>3. SharedTypes' /\ Epoch' = Epoch /\ \A u \in Threads \ {t} : Respects(u)
  BY <1>1, <1>2, LockReleased
<1>4. CallsFit'
  <2>1. Moves(t, job[t].bridge, NoJob.bridge)
    BY DropBridgeMoves, NoJobIs
  <2>2. job[t].at # "got"
    BY DEF Locked
  <2>3. QED
    BY <1>2, <2>1, <2>2, NoJobIs, JobBridgeMoves
<1>5. NoJob.at \notin Locked /\ NoJob.at \notin Admitted /\ NoJob.since <= Epoch'
  BY <1>1, <1>3, NoJobIs DEF Locked, Admitted
<1>6. Opening(NoJob) /\ Epoch <= Epoch'
  BY <1>1, <1>3, NoJobIs DEF Opening
<1>7. QED
  BY <1>1, <1>2, <1>3, <1>4, <1>5, <1>6, NoJobIs, QuietStep

LEMMA FailedFits ==
  ASSUME SessionsInv, NEW t \in Threads, Failed(t)
  PROVE  SessionsInv'
<1>1. job[t].at \in Locked
  BY DEF Failed, Phase, Locked
<1>2. QED
  BY <1>1, JobEnds DEF Failed

-----------------------------------------------------------------------------
(* The pool                                                                *)

LEMMA RemoveAtIs ==
  ASSUME NEW s \in Seq(Envs), NEW i \in 1..Len(s)
  PROVE  /\ RemoveAt(s, i) \in Seq(Envs) /\ Len(RemoveAt(s, i)) = Len(s) - 1
         /\ \A n \in 1..(Len(s) - 1) : \E k \in 1..Len(s) : RemoveAt(s, i)[n] = s[k]
<1> DEFINE a == SubSeq(s, 1, i - 1)
           b == SubSeq(s, i + 1, Len(s))
           r == a \o b
<1>1. Len(s) \in Nat /\ i \in Int /\ 1 <= i /\ i <= Len(s)
  OBVIOUS
<1>2. /\ a \in Seq(Envs) /\ Len(a) = i - 1
      /\ \A n \in 1..(i - 1) : a[n] = s[n]
  BY <1>1
<1>3. /\ b \in Seq(Envs) /\ Len(b) = Len(s) - i
      /\ \A n \in 1..(Len(s) - i) : b[n] = s[i + n]
  BY <1>1
<1> HIDE DEF a, b
<1>4. /\ r \in Seq(Envs) /\ Len(r) = Len(a) + Len(b)
      /\ \A n \in 1 .. Len(a) + Len(b) : r[n] = IF n <= Len(a) THEN a[n] ELSE b[n - Len(a)]
  BY <1>2, <1>3, ConcatProperties
<1> HIDE DEF r
<1>5. Len(r) = Len(s) - 1
  BY <1>1, <1>2, <1>3, <1>4
<1>6. ASSUME NEW n \in 1..(Len(s) - 1) PROVE \E k \in 1..Len(s) : r[n] = s[k]
  <2>1. CASE n <= i - 1
    <3>1. r[n] = a[n] /\ n \in 1..(i - 1) /\ n \in 1..Len(s)
      BY <1>1, <1>2, <1>3, <1>4, <2>1
    <3>2. QED
      BY <1>2, <3>1
  <2>2. CASE ~(n <= i - 1)
    <3>1. PICK m : m = n - (i - 1)
      OBVIOUS
    <3>2. /\ m \in 1..(Len(s) - i) /\ i + m \in 1..Len(s)
      BY <1>1, <2>2, <3>1
    <3>3. r[n] = b[m]
      <4>1. n - Len(a) = m /\ ~(n <= Len(a)) /\ n \in 1 .. Len(a) + Len(b)
        BY <1>1, <1>2, <1>3, <2>2, <3>1
      <4>2. QED
        BY <1>4, <4>1
    <3>4. QED
      BY <1>3, <3>2, <3>3
  <2>3. QED
    BY <2>1, <2>2
<1>7. RemoveAt(s, i) = r
  BY DEF RemoveAt, r, a, b
<1>8. QED
  BY <1>4, <1>5, <1>6, <1>7

LEMMA LastMatchIs ==
  ASSUME SessionsInv, NEW t \in Threads, NEW k, Matches(t, k) # {}
  PROVE  /\ LastMatch(t, k) \in 1..Len(pool[t])
         /\ pool[t][LastMatch(t, k)].key = k
<1>1. pool[t] \in Seq(Envs)
  BY Facts
<1> DEFINE n == Len(pool[t])
           S == Matches(t, k)
<1>2. n \in Nat /\ S \in SUBSET (1..n)
  BY <1>1 DEF Matches
<1>3. \E m \in S : \A j \in S : j <= m
  <2> HIDE DEF n, S
  <2>1. S # {}
    BY DEF S
  <2>2. QED
    BY <1>2, <2>1, GreatestNatural
<1>4. LastMatch(t, k) \in S
  BY <1>3 DEF LastMatch
<1>5. QED
  BY <1>2, <1>4 DEF Matches

\* Bookkeeping.
LEMMA CountsAre ==
  ASSUME NEW c \in Counts
  PROVE  /\ c.imports \in Nat /\ c.reused \in Nat /\ c.kept \in Nat /\ c.dropped \in Nat
         /\ c.drained \in Nat /\ c.stale \in Nat /\ c.acquired \in Nat
BY DEF Counts, CountFields

\* An entry leaves the pool, is lost, is reused, and is too old; n entries of
\* the pool stay.
LEMMA TakenOut ==
  ASSUME NEW c \in Counts, NEW n \in Nat, NEW l \in Nat, Balance(c, n, l, 0, 0),
         NEW m \in Nat, m = n - 1
  PROVE  Balance(c, m, l, 0, 1)
<1>1. n \in Nat /\ l \in Nat /\ m + 1 = n
  OBVIOUS
<1>2. QED
  BY <1>1, CountsAre, HostSessionsAssumption DEF Balance

LEMMA TakenAndLost ==
  ASSUME NEW c \in Counts, NEW n \in Nat, NEW l \in Nat, Balance(c, n, l, 0, 1)
  PROVE  Balance(c, n, l + 1, 0, 0)
<1>1. /\ c.imports \in Nat /\ c.reused \in Nat /\ c.kept \in Nat /\ c.dropped \in Nat
      /\ c.drained \in Nat /\ c.stale \in Nat /\ c.acquired \in Nat
  BY CountsAre
<1>2. /\ c.acquired = c.reused + c.imports /\ c.acquired = c.kept + c.dropped + 0
      /\ c.kept = n + c.reused + c.stale + c.drained + l + 1
      /\ n <= Capacity /\ c.imports <= FreshImports
  BY DEF Balance
<1>3. PICK x, y, z, w \in Nat : x = c.reused /\ y = c.stale /\ z = c.drained /\ w = c.kept
  BY <1>1
<1>4. w = n + x + y + z + (l + 1) + 0
  <2>1. w = n + x + y + z + l + 1
    BY <1>2, <1>3
  <2>2. QED
    BY <2>1
<1>5. QED
  BY <1>2, <1>3, <1>4 DEF Balance

LEMMA TakenAndReused ==
  ASSUME NEW c \in Counts, NEW n \in Nat, NEW l \in Nat, Balance(c, n, l, 0, 1),
         NEW d, NEW m \in Nat, NEW gone \in Nat, m + gone = n,
         d.imports = c.imports, d.reused = c.reused + 1, d.acquired = c.acquired + 1,
         d.stale = c.stale + gone, d.kept = c.kept, d.dropped = c.dropped,
         d.drained = c.drained
  PROVE  Balance(d, m, l, 1, 0)
BY CountsAre, HostSessionsAssumption DEF Balance

LEMMA TakenAndStale ==
  ASSUME NEW c \in Counts, NEW n \in Nat, NEW l \in Nat, Balance(c, n, l, 0, 1), NEW d,
         d.imports = c.imports, d.reused = c.reused, d.acquired = c.acquired,
         d.stale = c.stale + 1, d.kept = c.kept, d.dropped = c.dropped,
         d.drained = c.drained
  PROVE  Balance(d, n, l, 0, 0)
BY CountsAre DEF Balance

LEMMA AcquireFits ==
  ASSUME SessionsInv, NEW t \in Threads, NEW k \in Keys, NEW sink \in BOOLEAN,
         Acquire(t, k, sink)
  PROVE  SessionsInv'
<1> DEFINE j == [NoJob EXCEPT !.kind = "pooled", !.key = k, !.sink = sink, !.since = Epoch]
<1>1. /\ session[t] \in Envs /\ pool[t] \in Seq(Envs) /\ stats[t] \in Counts /\ lost[t] \in Nat
      /\ JobFits(t) /\ HeldFits(t) /\ PoolFits(t) /\ Epoch \in Nat
      /\ job[t].at = "idle" /\ job[t].bridge = 0 /\ ~Running(t)
  BY Facts DEF Acquire, Idle, JobFits, Locked
<1>2. /\ UNCHANGED <<callVars, lock, initFlag, loaded, headerVars>>
      /\ UNCHANGED <<session, stats, lost>>
  BY DEF Acquire
<1>3. opens' \in 0..MaxOpens
  BY HostSessionsAssumption DEF Acquire, SessionsInv, SharedTypes
<1>4. /\ j \in Jobs /\ j.kind = "pooled" /\ j.key = k /\ j.bridge = 0 /\ j.since = Epoch
  BY <1>1, NoJobIs DEF Jobs, Places
<1>5. CASE Matches(t, k) = {}
  <2> DEFINE i == [j EXCEPT !.at = "admit"]
  <2>1. job' = [job EXCEPT ![t] = i] /\ pool' = pool
    BY <1>5 DEF Acquire
  <2> HIDE DEF j
  <2>2. /\ i \in Jobs /\ i.kind = "pooled" /\ i.key = k /\ i.bridge = 0 /\ i.since = Epoch
        /\ i.at = "admit"
    BY <1>4 DEF Jobs, Places
  <2> HIDE DEF i
  <2>3. Opening(job[t]) /\ Opening(i) /\ i.at \notin Locked /\ i.at \notin Admitted
    BY <1>1, <2>2 DEF Opening, Locked, Admitted
  <2>4. UNCHANGED <<session, pool, stats, lost>> /\ i.since <= Epoch
    BY <1>1, <1>2, <2>1, <2>2
  <2>5. QED
    BY <1>1, <1>2, <1>3, <2>1, <2>2, <2>3, <2>4, JobStep
<1>6. CASE Matches(t, k) # {}
  <2> DEFINE env == pool[t][LastMatch(t, k)]
             i == [[j EXCEPT !.at = "verify"] EXCEPT !.env = env]
             last == LastMatch(t, k)
             p == RemoveAt(pool[t], last)
  <2>1. job' = [job EXCEPT ![t] = i] /\ pool' = [pool EXCEPT ![t] = p]
    BY <1>6 DEF Acquire
  <2>2. LastMatch(t, k) \in 1..Len(pool[t])
    BY <1>6, LastMatchIs
  <2>3. env \in Envs /\ Exact(env)
    BY <1>1, <2>2 DEF HeldFits
  <2>4. /\ p \in Seq(Envs) /\ Len(p) = Len(pool[t]) - 1
        /\ \A n \in 1..(Len(pool[t]) - 1) : \E m \in 1..Len(pool[t]) : p[n] = pool[t][m]
    <3>1. PICK q \in Seq(Envs) : q = pool[t]
      BY <1>1
    <3>2. PICK at \in 1..Len(q) : at = last
      BY <2>2, <3>1
    <3>3. /\ RemoveAt(q, at) \in Seq(Envs) /\ Len(RemoveAt(q, at)) = Len(q) - 1
          /\ \A n \in 1..(Len(q) - 1) : \E m \in 1..Len(q) : RemoveAt(q, at)[n] = q[m]
      BY RemoveAtIs
    <3>4. p = RemoveAt(q, at)
      BY <3>1, <3>2
    <3> HIDE DEF p
    <3>5. QED
      BY <3>1, <3>3, <3>4
  <2> HIDE DEF j, env, p
  <2>5. /\ i \in Jobs /\ i.kind = "pooled" /\ i.key = k /\ i.bridge = 0 /\ i.since = Epoch
        /\ i.at = "verify" /\ i.env = env
    BY <1>4, <2>3 DEF Jobs, Places
  <2> HIDE DEF i
  <2>6. OwnTypes
    BY DEF SessionsInv
  <2>7. Sets(t, i, session[t], p, stats[t], lost[t])
    BY <1>2, <2>1, <2>6 DEF Sets, OwnTypes
  <2>8. /\ job'[t] = i /\ session'[t] = session[t] /\ pool'[t] = p
        /\ stats'[t] = stats[t] /\ lost'[t] = lost[t] /\ frame' = frame
    BY <1>2, <2>1, <2>6 DEF OwnTypes, callVars
  <2>9. SharedTypes' /\ Epoch' = Epoch /\ \A u \in Threads : Respects(u)
    BY <1>2, <1>3, SharedKept
  <2>10. CallsFit'
    <3>1. \A u \in Threads : job'[u].bridge = job[u].bridge
      BY <1>1, <2>1, <2>5, <2>6 DEF OwnTypes
    <3>2. QED
      BY <1>2, <3>1, CallsKept
  <2>11. ~Holds(t) /\ ~Holds(t)' /\ ~Running(t)'
    BY <1>1, <2>8 DEF JobFits, Holds, Running
  <2>12. JobFits(t)'
    <3>1. i.since <= Epoch'
      BY <1>1, <2>5, <2>9
    <3>2. QED
      BY <2>3, <2>5, <2>8, <2>11, <3>1 DEF JobFits, Locked
  <2>13. HeldFits(t)'
    <3>1. DOMAIN p = 1..(Len(pool[t]) - 1)
      BY <1>1, <2>4
    <3>2. \A n \in 1..Len(pool[t]) : Exact(pool[t][n])
      BY <1>1 DEF HeldFits
    <3>3. \A n \in DOMAIN p : Exact(p[n])
      BY <2>4, <3>1, <3>2
    <3>4. QED
      BY <2>8, <2>11, <3>3 DEF HeldFits
  <2>14. PoolFits(t)'
    <3>1. Len(pool[t]) \in Nat /\ Capacity \in Nat
      BY <1>1, HostSessionsAssumption
    <3>2. Balance(stats[t], Len(pool[t]), lost[t], 0, 0)
      BY <1>1 DEF PoolFits, Out, Moving
    <3>3. Balance(stats[t], Len(p), lost[t], 0, 1)
      <4>1. Len(p) \in Nat
        BY <2>4
      <4>2. QED
        BY <1>1, <2>4, <3>1, <3>2, <4>1, TakenOut
    <3>4. Out(t)' = 0 /\ Moving(t)' = 1
      BY <2>5, <2>8 DEF Out, Moving
    <3>5. QED
      BY <2>5, <2>8, <3>3, <3>4 DEF PoolFits, Admitted
  <2>15. Epoch <= Epoch' /\ \A u \in Threads \ {t} : Respects(u) /\ frame'[u] = frame[u]
    BY <1>1, <2>8, <2>9
  <2>16. QED
    BY <1>1, <2>4, <2>5, <2>7, <2>9, <2>10, <2>12, <2>13, <2>14, <2>15, OwnStep
<1>7. QED
  BY <1>5, <1>6

\* What a sweep leaves is exact and fits, and what it counts makes up for it.
LEMMA SweepFits ==
  ASSUME SessionsInv, NEW t \in Threads, NEW stamp
  PROVE  /\ Fresh(t, stamp) \in Seq(Envs) /\ Len(Fresh(t, stamp)) \in Nat
         /\ Len(Fresh(t, stamp)) <= Len(pool[t]) /\ Len(pool[t]) \in Nat
         /\ \A n \in DOMAIN Fresh(t, stamp) : Exact(Fresh(t, stamp)[n])
<1>1. pool[t] \in Seq(Envs) /\ \A i \in DOMAIN pool[t] : Exact(pool[t][i])
  BY Facts DEF HeldFits
<1> DEFINE f == Fresh(t, stamp)
<1>2. /\ f \in Seq(Envs) /\ Len(f) <= Len(pool[t])
      /\ \A n \in 1..Len(f) : \E i \in 1..Len(pool[t]) : f[n] = pool[t][i]
  BY <1>1, FreshIsPart
<1> HIDE DEF f
<1>3. Len(f) \in Nat /\ Len(pool[t]) \in Nat /\ DOMAIN f = 1..Len(f)
      /\ DOMAIN pool[t] = 1..Len(pool[t])
  BY <1>1, <1>2
<1>4. QED
  BY <1>1, <1>2, <1>3 DEF f

LEMMA SweptIs ==
  ASSUME NEW t \in Threads, NEW s, NEW stamp
  PROVE  Swept(s, t, stamp) =
           [s EXCEPT !.stale = s.stale + (Len(pool[t]) - Len(Fresh(t, stamp)))]
BY DEF Swept

LEMMA VerifyFits ==
  ASSUME SessionsInv, NEW t \in Threads, Verify(t)
  PROVE  SessionsInv'
<1>1. /\ job[t] \in Jobs /\ session[t] \in Envs /\ pool[t] \in Seq(Envs)
      /\ stats[t] \in Counts /\ lost[t] \in Nat
      /\ JobFits(t) /\ HeldFits(t) /\ PoolFits(t) /\ Epoch \in Nat
      /\ job[t].at = "verify" /\ job[t].bridge = 0 /\ ~Running(t) /\ ~Holds(t)
      /\ job[t].kind = "pooled" /\ Exact(job[t].env) /\ job[t].key \in Keys
      /\ job[t].since <= Epoch
  BY Facts DEF Verify, Phase, JobFits, Locked
<1>2. UNCHANGED <<callVars, lock, initFlag, loaded, headerVars>> /\ opens' \in 0..MaxOpens
      /\ frame' = frame
  BY DEF Verify, SessionsInv, SharedTypes, callVars
<1>3. SharedTypes' /\ Epoch' = Epoch /\ \A u \in Threads : Respects(u)
  BY <1>2, SharedKept
<1>4. Epoch <= Epoch' /\ \A u \in Threads \ {t} : Respects(u) /\ frame'[u] = frame[u]
  BY <1>1, <1>2, <1>3
<1>5. OwnTypes
  BY DEF SessionsInv
<1>6. ASSUME NEW j \in Jobs, job' = [job EXCEPT ![t] = j], j.bridge = 0
      PROVE  CallsFit'
  <2>1. \A u \in Threads : job'[u].bridge = job[u].bridge
    BY <1>1, <1>5, <1>6 DEF OwnTypes
  <2>2. QED
    BY <1>2, <2>1, CallsKept
<1>7. ASSUME job' = [job EXCEPT ![t] = NoJob], lost' = [lost EXCEPT ![t] = @ + 1],
             UNCHANGED <<session, pool, stats>>
      PROVE  SessionsInv'
  <2>1. Sets(t, NoJob, session[t], pool[t], stats[t], lost[t] + 1)
    BY <1>5, <1>7 DEF Sets, OwnTypes
  <2>2. /\ job'[t] = NoJob /\ session'[t] = session[t] /\ pool'[t] = pool[t]
        /\ stats'[t] = stats[t] /\ lost'[t] = lost[t] + 1
    BY <1>5, <1>7 DEF OwnTypes
  <2>3. ~Holds(t)' /\ ~Running(t)'
    BY <1>1, <1>2, <2>2 DEF Holds, Running
  <2>4. JobFits(t)'
    BY <1>1, <1>3, <2>2, <2>3, NoJobIs DEF JobFits, Locked
  <2>5. HeldFits(t)'
    BY <1>1, <2>2, <2>3 DEF HeldFits
  <2>6. PoolFits(t)'
    <3>1. Len(pool[t]) \in Nat
      BY <1>1
    <3>2. Balance(stats[t], Len(pool[t]), lost[t], 0, 1)
      BY <1>1 DEF PoolFits, Out, Moving
    <3>3. Balance(stats[t], Len(pool[t]), lost[t] + 1, 0, 0)
      BY <1>1, <3>1, <3>2, TakenAndLost
    <3>4. Out(t)' = 0 /\ Moving(t)' = 0
      BY <2>2, NoJobIs DEF Out, Moving
    <3>5. QED
      BY <2>2, <3>3, <3>4, NoJobIs DEF PoolFits, Admitted
  <2>7. CallsFit' /\ lost[t] + 1 \in Nat
    <3>1. CallsFit'
      BY <1>6, <1>7, NoJobIs
    <3>2. QED
      BY <1>1, <3>1
  <2>8. QED
    BY <1>1, <1>3, <1>4, <2>1, <2>4, <2>5, <2>6, <2>7, NoJobIs, OwnStep
<1>8. ASSUME job[t].env.stamp = Epoch, session' = [session EXCEPT ![t] = job[t].env],
             pool' = [pool EXCEPT ![t] = Fresh(t, job[t].env.stamp)],
             Bump(t, Swept(ReusedBumped(stats[t]), t, job[t].env.stamp)),
             job' = [job EXCEPT ![t].at = "got"], UNCHANGED lost
      PROVE  SessionsInv'
  <2> DEFINE j == [job[t] EXCEPT !.at = "got"]
             f == Fresh(t, job[t].env.stamp)
             gone == Len(pool[t]) - Len(f)
             c == [[[stats[t] EXCEPT !.reused = @ + 1] EXCEPT !.acquired = @ + 1]
                     EXCEPT !.stale = @ + gone]
             env == job[t].env
  <2>1. /\ f \in Seq(Envs) /\ Len(f) \in Nat /\ Len(f) <= Len(pool[t]) /\ Len(pool[t]) \in Nat
        /\ \A n \in DOMAIN f : Exact(f[n])
    BY SweepFits
  <2>2. gone \in Nat
    BY <2>1
  <2>3. stats' = [stats EXCEPT ![t] = c]
    <3>1. Swept(ReusedBumped(stats[t]), t, job[t].env.stamp) = c
      <4>2. ReusedBumped(stats[t]) = [[stats[t] EXCEPT !.reused = @ + 1] EXCEPT !.acquired = @ + 1]
        BY <1>1 DEF ReusedBumped, Counts, CountFields
      <4>3. ReusedBumped(stats[t]) \in Counts
        <5>1. stats[t].reused + 1 \in Nat /\ stats[t].acquired + 1 \in Nat
          BY <1>1, CountsAre
        <5>2. QED
          BY <1>1, <4>2, <5>1 DEF Counts
      <4> DEFINE s == ReusedBumped(stats[t])
      <4> HIDE DEF s
      <4>4. Swept(s, t, job[t].env.stamp) = [s EXCEPT !.stale = s.stale + gone]
        BY SweptIs
      <4>6. Swept(s, t, job[t].env.stamp) = [s EXCEPT !.stale = @ + gone]
        BY <4>4
      <4>7. QED
        BY <4>2, <4>6 DEF s
    <3>2. QED
      BY <1>8, <3>1 DEF Bump
  <2> HIDE DEF gone
  <2>4. /\ c \in Counts /\ c.imports = stats[t].imports /\ c.reused = stats[t].reused + 1
        /\ c.acquired = stats[t].acquired + 1 /\ c.stale = stats[t].stale + gone
        /\ c.kept = stats[t].kept /\ c.dropped = stats[t].dropped
        /\ c.drained = stats[t].drained
    <3>1. stats[t].reused + 1 \in Nat /\ stats[t].acquired + 1 \in Nat
          /\ stats[t].stale + gone \in Nat
      BY <1>1, <2>2, CountsAre
    <3>2. QED
      BY <1>1, <3>1 DEF Counts, CountFields
  <2>5. /\ j \in Jobs /\ j.at = "got" /\ j.kind = "pooled" /\ j.key = job[t].key
        /\ j.bridge = 0 /\ j.since = job[t].since
    BY <1>1 DEF Jobs, Places
  <2>6. env \in Envs /\ Exact(env) /\ env.stamp = Epoch
    BY <1>1, <1>8 DEF Jobs
  <2>7. Sets(t, j, env, f, c, lost[t])
    BY <1>5, <1>8, <2>3 DEF Sets, OwnTypes
  <2> HIDE DEF c, j, f, env
  <2>8. /\ job'[t] = j /\ session'[t] = env /\ pool'[t] = f /\ stats'[t] = c
        /\ lost'[t] = lost[t]
    BY <1>5, <2>7 DEF Sets, OwnTypes
  <2>9. Holds(t)' /\ ~Running(t)'
    <3>1. env # NoEnv
      BY <2>6, HostSessionsAssumption, NoEnvIs DEF Exact
    <3>2. QED
      BY <1>1, <1>2, <2>8, <3>1 DEF Holds, Running
  <2>10. JobFits(t)'
    BY <1>1, <1>3, <2>5, <2>8, <2>9 DEF JobFits, Locked
  <2>11. HeldFits(t)'
    BY <1>1, <2>1, <2>5, <2>6, <2>8 DEF HeldFits, Exact
  <2>12. PoolFits(t)'
    <3>1. Len(f) + gone = Len(pool[t])
      BY <2>1 DEF gone
    <3>2. Len(f) <= Capacity
      BY <1>1, <2>1, HostSessionsAssumption DEF PoolFits, Balance
    <3>3. Balance(stats[t], Len(pool[t]), lost[t], 0, 1)
      BY <1>1 DEF PoolFits, Out, Moving
    <3>4. Balance(c, Len(f), lost[t], 1, 0)
      BY <1>1, <2>1, <2>2, <2>4, <3>1, <3>2, <3>3, TakenAndReused
    <3>5. Out(t)' = 1 /\ Moving(t)' = 0
      BY <2>5, <2>8 DEF Out, Moving
    <3>6. QED
      BY <2>5, <2>8, <3>4, <3>5 DEF PoolFits, Admitted
  <2>13. CallsFit'
    <3>1. job' = [job EXCEPT ![t] = j]
      BY <2>7 DEF Sets
    <3>2. QED
      BY <1>6, <2>5, <3>1
  <2>14. QED
    BY <1>1, <1>3, <1>4, <2>1, <2>4, <2>5, <2>6, <2>7, <2>10, <2>11, <2>12, <2>13, OwnStep
<1>9. ASSUME Bump(t, StaleBumped(stats[t])),
             job' = [job EXCEPT ![t].at = "admit", ![t].env = NoEnv],
             UNCHANGED <<session, pool, lost>>
      PROVE  SessionsInv'
  <2> DEFINE j == [[job[t] EXCEPT !.at = "admit"] EXCEPT !.env = NoEnv]
             c == [stats[t] EXCEPT !.stale = @ + 1]
  <2>1. /\ c \in Counts /\ c.imports = stats[t].imports /\ c.reused = stats[t].reused
        /\ c.acquired = stats[t].acquired /\ c.stale = stats[t].stale + 1
        /\ c.kept = stats[t].kept /\ c.dropped = stats[t].dropped
        /\ c.drained = stats[t].drained
    <3>1. stats[t].stale + 1 \in Nat
      BY <1>1, CountsAre
    <3>2. QED
      BY <1>1, <3>1 DEF Counts, CountFields
  <2>2. /\ j \in Jobs /\ j.at = "admit" /\ j.kind = "pooled" /\ j.key = job[t].key
        /\ j.bridge = 0 /\ j.since = job[t].since
    BY <1>1, NoEnvIs DEF Jobs, Places
  <2>3. Sets(t, j, session[t], pool[t], c, lost[t])
    BY <1>5, <1>9 DEF Sets, OwnTypes, Bump, StaleBumped
  <2> HIDE DEF c, j
  <2>4. /\ job'[t] = j /\ session'[t] = session[t] /\ pool'[t] = pool[t] /\ stats'[t] = c
        /\ lost'[t] = lost[t]
    BY <1>5, <2>3 DEF Sets, OwnTypes
  <2>5. ~Holds(t)' /\ ~Running(t)'
    BY <1>1, <1>2, <2>4 DEF Holds, Running
  <2>6. JobFits(t)'
    BY <1>1, <1>3, <2>2, <2>4, <2>5 DEF JobFits, Locked
  <2>7. HeldFits(t)'
    BY <1>1, <2>4, <2>5 DEF HeldFits
  <2>8. PoolFits(t)'
    <3>1. Len(pool[t]) \in Nat
      BY <1>1
    <3>2. Balance(stats[t], Len(pool[t]), lost[t], 0, 1)
      BY <1>1 DEF PoolFits, Out, Moving
    <3>3. Balance(c, Len(pool[t]), lost[t], 0, 0)
      BY <1>1, <2>1, <3>1, <3>2, TakenAndStale
    <3>4. Out(t)' = 0 /\ Moving(t)' = 0
      BY <2>2, <2>4 DEF Out, Moving
    <3>5. QED
      BY <2>2, <2>4, <3>3, <3>4 DEF PoolFits, Admitted
  <2>9. CallsFit'
    <3>1. job' = [job EXCEPT ![t] = j]
      BY <2>3 DEF Sets
    <3>2. QED
      BY <1>6, <2>2, <3>1
  <2>10. QED
    BY <1>1, <1>3, <1>4, <2>1, <2>2, <2>3, <2>6, <2>7, <2>8, <2>9, OwnStep
<1>10. QED
  BY <1>7, <1>8, <1>9 DEF Verify, Current

\* An import is counted, and the sweep that follows it.
LEMMA ImportedBalance ==
  ASSUME NEW c \in Counts, NEW n \in Nat, NEW l \in Nat, Balance(c, n, l, 0, 0),
         c.imports < FreshImports,
         NEW d \in Counts, NEW m \in Nat, NEW gone \in Nat, m + gone = n,
         d.imports = c.imports + 1, d.reused = c.reused, d.acquired = c.acquired + 1,
         d.stale = c.stale + gone, d.kept = c.kept, d.dropped = c.dropped,
         d.drained = c.drained
  PROVE  Balance(d, m, l, 1, 0)
<1>1. /\ c.imports \in Nat /\ c.reused \in Nat /\ c.kept \in Nat /\ c.dropped \in Nat
      /\ c.drained \in Nat /\ c.stale \in Nat /\ c.acquired \in Nat
  BY CountsAre
<1>2. /\ c.acquired = c.reused + c.imports /\ c.acquired = c.kept + c.dropped + 0
      /\ c.kept = n + c.reused + c.stale + c.drained + l + 0
      /\ n <= Capacity
  BY DEF Balance
<1>3. d.acquired = d.reused + d.imports /\ d.acquired = d.kept + d.dropped + 1
  BY <1>1, <1>2
<1>4. d.kept = m + d.reused + d.stale + d.drained + l + 0
  BY <1>1, <1>2
<1>5. m <= Capacity /\ d.imports <= FreshImports
  BY <1>1, <1>2, HostSessionsAssumption
<1>6. QED
  BY <1>3, <1>4, <1>5 DEF Balance

\* A session is there: the thread holds it, and what it leaves in the pool and
\* counts fits.
LEMMA OpenedHolds ==
  ASSUME SessionsInv, NEW t \in Threads, job[t].at = "stamp", job[t].kind # "bracketed",
         lock' = NoThread, DropBridge(t),
         UNCHANGED <<frame, cancelled, calls>>, UNCHANGED <<initFlag, loaded, opens, headerVars>>,
         NEW env \in Envs, Exact(env), env.stamp = Epoch,
         NEW j \in Jobs, j.at = "got", j.kind = job[t].kind, j.key = job[t].key, j.bridge = 0,
         j.since = job[t].since,
         NEW p \in Seq(Envs), \A n \in DOMAIN p : Exact(p[n]),
         NEW c \in Counts,
         Balance(c, Len(p), lost[t], IF job[t].kind = "pooled" THEN 1 ELSE 0, 0),
         Sets(t, j, env, p, c, lost[t])
  PROVE  SessionsInv'
<1>1. /\ JobFits(t) /\ Epoch \in Nat /\ lost[t] \in Nat /\ lock = t /\ job[t].key \in Keys
      /\ job[t].since <= Epoch /\ ~Running(t)
  BY Facts DEF JobFits, Locked
<1>2. SharedTypes' /\ Epoch' = Epoch /\ \A u \in Threads \ {t} : Respects(u)
  BY <1>1, LockReleased
<1>3. CallsFit'
  <2>1. Moves(t, job[t].bridge, j.bridge)
    BY DropBridgeMoves
  <2>2. job' = [job EXCEPT ![t] = j]
    BY DEF Sets
  <2>3. job[t].at # "got"
    OBVIOUS
  <2>4. QED
    BY <2>1, <2>2, <2>3, JobBridgeMoves
<1>4. OwnTypes
  BY DEF SessionsInv
<1>5. /\ job'[t] = j /\ session'[t] = env /\ pool'[t] = p /\ stats'[t] = c
      /\ lost'[t] = lost[t] /\ frame' = frame
  BY <1>4 DEF Sets, OwnTypes
<1>6. Holds(t)' /\ ~Running(t)'
  <2>1. env # NoEnv
    BY HostSessionsAssumption, NoEnvIs DEF Exact
  <2>2. QED
    BY <1>1, <1>5, <2>1 DEF Holds, Running
<1>7. JobFits(t)'
  BY <1>1, <1>2, <1>5, <1>6 DEF JobFits, Locked
<1>8. HeldFits(t)'
  BY <1>1, <1>5, <1>6 DEF HeldFits, Exact
<1>9. PoolFits(t)'
  <2>1. Out(t)' = IF job[t].kind = "pooled" THEN 1 ELSE 0
    BY <1>5 DEF Out
  <2>2. Moving(t)' = 0
    BY <1>5 DEF Moving
  <2>3. QED
    BY <1>5, <2>1, <2>2 DEF PoolFits, Admitted
<1>10. Epoch <= Epoch' /\ \A u \in Threads \ {t} : Respects(u) /\ frame'[u] = frame[u]
  BY <1>1, <1>2, <1>5
<1>11. QED
  BY <1>1, <1>2, <1>3, <1>7, <1>8, <1>9, <1>10, OwnStep

LEMMA OpenedFits ==
  ASSUME SessionsInv, NEW t \in Threads, Opened(t)
  PROVE  SessionsInv'
<1>1. /\ job[t] \in Jobs /\ session[t] \in Envs /\ pool[t] \in Seq(Envs)
      /\ stats[t] \in Counts /\ lost[t] \in Nat
      /\ JobFits(t) /\ HeldFits(t) /\ PoolFits(t) /\ Epoch \in Nat
      /\ job[t].at = "stamp"
  BY Facts DEF Opened, Phase
<1>2. /\ lock' = NoThread /\ DropBridge(t) /\ UNCHANGED <<frame, cancelled, calls>>
      /\ UNCHANGED <<initFlag, loaded, opens, headerVars>> /\ UNCHANGED lost
  BY DEF Opened
<1>3. CASE job[t].kind = "bracketed"
  <2>1. job[t].at \in Locked
    BY <1>1 DEF Locked
  <2>2. job' = [job EXCEPT ![t] = NoJob] /\ UNCHANGED <<session, pool, stats>>
    BY <1>3 DEF Opened
  <2>3. QED
    BY <1>2, <2>1, <2>2, JobEnds
<1>4. CASE job[t].kind # "bracketed"
  <2> DEFINE env == [job[t].env EXCEPT !.stamp = Epoch]
             j == [[[job[t] EXCEPT !.at = "got"] EXCEPT !.bridge = 0] EXCEPT !.env = env]
  <2>1. env \in Envs /\ Exact(env) /\ env.stamp = Epoch
    <3>1. job[t].env \in Envs /\ job[t].env.key \in Keys /\ job[t].env.width = Epoch
      BY <1>1, <1>4 DEF Jobs, JobFits
    <3>2. QED
      BY <1>1, <3>1 DEF Envs, Exact
  <2>2. /\ session' = [session EXCEPT ![t] = env]
        /\ job' = [job EXCEPT ![t].at = "got", ![t].bridge = 0, ![t].env = env]
        /\ IF job[t].kind = "pooled"
           THEN /\ pool' = [pool EXCEPT ![t] = Fresh(t, env.stamp)]
                /\ Bump(t, Swept(ImportedBumped(stats[t]), t, env.stamp))
           ELSE UNCHANGED <<pool, stats>>
    BY <1>4 DEF Opened, StampAfter
  <2> HIDE DEF env
  <2>3. job' = [job EXCEPT ![t] = j]
    BY <2>2 DEF SessionsInv, OwnTypes
  <2>4. /\ j \in Jobs /\ j.at = "got" /\ j.kind = job[t].kind /\ j.key = job[t].key
        /\ j.bridge = 0 /\ j.since = job[t].since
    <3>1. 0 \in 0..(IdSpace - 1)
      BY RegistryAssumption
    <3>2. QED
      BY <1>1, <2>1, <3>1 DEF Jobs, Places
  <2> HIDE DEF j
  <2>5. CASE job[t].kind # "pooled"
    <3>1. Sets(t, j, env, pool[t], stats[t], lost[t])
      BY <1>2, <2>2, <2>3, <2>5 DEF Sets, SessionsInv, OwnTypes
    <3>2. Balance(stats[t], Len(pool[t]), lost[t], 0, 0)
      BY <1>1 DEF PoolFits, Out, Moving
    <3>3. Balance(stats[t], Len(pool[t]), lost[t],
                  IF job[t].kind = "pooled" THEN 1 ELSE 0, 0)
      BY <2>5, <3>2
    <3>4. \A n \in DOMAIN pool[t] : Exact(pool[t][n])
      BY <1>1 DEF HeldFits
    <3>5. QED
      BY <1>1, <1>2, <1>4, <2>1, <2>4, <3>1, <3>3, <3>4, OpenedHolds
  <2>6. CASE job[t].kind = "pooled"
    <3> DEFINE f == Fresh(t, env.stamp)
               gone == Len(pool[t]) - Len(f)
               i == [[stats[t] EXCEPT !.imports = @ + 1] EXCEPT !.acquired = @ + 1]
               c == [i EXCEPT !.stale = @ + gone]
    <3>1. /\ f \in Seq(Envs) /\ Len(f) \in Nat /\ Len(f) <= Len(pool[t]) /\ Len(pool[t]) \in Nat
          /\ \A n \in DOMAIN f : Exact(f[n])
      BY SweepFits
    <3>2. gone \in Nat /\ Len(f) + gone = Len(pool[t])
      BY <3>1
    <3>3. stats' = [stats EXCEPT ![t] = c] /\ pool' = [pool EXCEPT ![t] = f]
      <4>1. ImportedBumped(stats[t]) = i
        BY <1>1 DEF ImportedBumped, Counts, CountFields
      <4>2. stats' = [stats EXCEPT ![t] = Swept(ImportedBumped(stats[t]), t, env.stamp)]
        BY <2>2, <2>6 DEF Bump
      <4> HIDE DEF i
      <4>3. Swept(i, t, env.stamp) = [i EXCEPT !.stale = i.stale + gone]
        BY SweptIs
      <4>4. QED
        BY <2>2, <2>6, <4>1, <4>2, <4>3
    <3> HIDE DEF gone
    <3>4. /\ c \in Counts /\ c.imports = stats[t].imports + 1 /\ c.reused = stats[t].reused
          /\ c.acquired = stats[t].acquired + 1 /\ c.stale = stats[t].stale + gone
          /\ c.kept = stats[t].kept /\ c.dropped = stats[t].dropped
          /\ c.drained = stats[t].drained
      <4>1. stats[t].imports + 1 \in Nat /\ stats[t].acquired + 1 \in Nat
            /\ stats[t].stale + gone \in Nat
        BY <1>1, <3>2, CountsAre
      <4>2. QED
        BY <1>1, <4>1 DEF Counts, CountFields
    <3> HIDE DEF c, f
    <3>5. Sets(t, j, env, f, c, lost[t])
      BY <1>2, <2>2, <2>3, <3>3 DEF Sets, SessionsInv, OwnTypes
    <3>6. Balance(c, Len(f), lost[t], 1, 0)
      <4>1. Balance(stats[t], Len(pool[t]), lost[t], 0, 0)
        BY <1>1 DEF PoolFits, Out, Moving
      <4>2. stats[t].imports < FreshImports
        BY <1>1, <2>6 DEF PoolFits, Admitted
      <4>3. QED
        BY <1>1, <3>1, <3>2, <3>4, <4>1, <4>2, ImportedBalance
    <3>7. Balance(c, Len(f), lost[t], IF job[t].kind = "pooled" THEN 1 ELSE 0, 0)
      BY <2>6, <3>6
    <3>8. QED
      BY <1>1, <1>2, <1>4, <2>1, <2>4, <3>1, <3>4, <3>5, <3>7, OpenedHolds
  <2>7. QED
    BY <2>5, <2>6
<1>5. QED
  BY <1>3, <1>4

-----------------------------------------------------------------------------
(* Calls on a session                                                      *)

\* A call moves while its thread holds the session.
LEMMA CallKeeps ==
  ASSUME SessionsInv, NEW t \in Threads, job[t].at = "got", CallMoves(t),
         UNCHANGED <<cancelled, job, session, pool, stats, lost, lock, loaded, opens>>,
         UNCHANGED <<initFlag, headerCleared>>, calls' \in 0..MaxCalls,
         header' \in [Threads -> {"none", "enabled", "imported", "rejected"}]
  PROVE  SessionsInv'
<1>1. JobFits(t) /\ job[t].bridge = 0
  BY Facts DEF JobFits, Locked
<1>2. FramesFit' /\ \A u \in Threads \ {t} : frame'[u] = frame[u]
  BY MoveKeepsFrames DEF SessionsInv, CallsFit
<1>3. CallsFit'
  <2>1. PICK old, new : old = frame[t].bridge /\ new = frame'[t].bridge
    OBVIOUS
  <2>2. Moves(t, old, new)
    BY <2>1 DEF CallMoves
  <2>3. /\ {frame[t].bridge, job[t].bridge} \ {0} = {old} \ {0}
        /\ {frame'[t].bridge, job'[t].bridge} \ {0} = {new} \ {0}
    BY <1>1, <2>1
  <2>4. \A u \in Threads \ {t} : frame'[u] = frame[u] /\ job'[u] = job[u]
    BY <1>2
  <2>5. QED
    BY <1>2, <2>2, <2>3, <2>4, BridgesMove
<1>4. SharedTypes' /\ Epoch' = Epoch /\ Epoch \in Nat /\ \A u \in Threads : Respects(u)
  BY Facts DEF SessionsInv, SharedTypes, Epoch, Respects
<1>5. \A u \in Threads : Running(u)' => job[u].at = "got"
  <2> TAKE u \in Threads
  <2>1. CASE u = t
    BY <2>1
  <2>2. CASE u # t
    <3>1. Running(u)' = Running(u)
      BY <1>2, <2>2 DEF Running
    <3>2. QED
      BY <3>1, Facts DEF JobFits
  <2>3. QED
    BY <2>1, <2>2
<1>6. Epoch <= Epoch'
  BY <1>4
<1>7. QED
  BY <1>3, <1>4, <1>5, <1>6, SharedStep

LEMMA CallFits ==
  ASSUME SessionsInv, NEW t \in Threads, NEW m \in Methods, Call(t, m)
  PROVE  SessionsInv'
<1>1. FramesFit /\ StartCall(t, m) /\ job[t].at = "got" /\ UNCHANGED sessionVars
  BY DEF Call, Got, Phase, SessionsInv, CallsFit
<1>2. CallMoves(t) /\ UNCHANGED cancelled /\ calls' = calls + 1 /\ calls < MaxCalls
  BY <1>1, StartMoves
<1>3. calls' \in 0..MaxCalls
  BY <1>2, HostCallsAssumption DEF SessionsInv, CallsFit
<1>4. /\ UNCHANGED <<cancelled, job, session, pool, stats, lost, lock, loaded, opens>>
      /\ UNCHANGED <<initFlag, headerCleared, header>>
  BY <1>1, <1>2 DEF sessionVars, headerVars
<1>5. header' \in [Threads -> {"none", "enabled", "imported", "rejected"}]
  BY <1>4 DEF SessionsInv, SharedTypes
<1>6. QED
  BY <1>1, <1>2, <1>3, <1>4, <1>5, CallKeeps

LEMMA CallStepsFits ==
  ASSUME SessionsInv, NEW t \in Threads, CallSteps(t)
  PROVE  SessionsInv'
<1>1. FramesFit /\ cancelled \in BOOLEAN /\ RegistryTypeOK /\ Steps(t)
  BY DEF CallSteps, SessionsInv, CallsFit
<1>2. Running(t)
  BY <1>1 DEF Steps, CheckToken, EnterLean, SourceRoots, OptionalShim, CallLean, CallBulk,
              Report, Enter, Work, Tick, Leave, ZipNames, Return, At
<1>3. job[t].at = "got"
  BY <1>2, Facts DEF JobFits
<1>4. frame[t].bridge # 0 => Reaches(frame[t].bridge, t)
  <2>1. frame[t].bridge # 0 => frame[t].bridge \in Bridges[t]
    BY DEF Bridges
  <2>2. ServedBy(registry, Bridges)
    BY DEF SessionsInv, CallsFit
  <2>3. QED
    BY <2>1, <2>2 DEF ServedBy, Reaches
<1>5. CallMoves(t) /\ UNCHANGED <<cancelled, calls>>
  BY <1>1, <1>4, StepsMove
<1>6. calls' \in 0..MaxCalls
  BY <1>5 DEF SessionsInv, CallsFit
<1>7. /\ UNCHANGED <<cancelled, job, session, pool, stats, lost, lock, loaded, opens>>
      /\ UNCHANGED <<initFlag, headerCleared>>
  BY <1>5 DEF CallSteps
<1>8. header' \in [Threads -> {"none", "enabled", "imported", "rejected"}]
  BY DEF CallSteps, SessionsInv, SharedTypes
<1>9. QED
  BY <1>3, <1>5, <1>6, <1>7, <1>8, CallKeeps

\* The import of a header takes no lock: it sets and clears the flag, and says
\* whose import it disturbed.
LEMMA HeaderFits ==
  ASSUME SessionsInv, NEW t \in Threads, HeaderBegins(t) \/ HeaderImports(t)
  PROVE  SessionsInv'
<1>1. /\ UNCHANGED callVars /\ UNCHANGED <<lock, loaded, opens>>
      /\ UNCHANGED <<job, session, pool, stats, lost>>
  BY DEF HeaderBegins, HeaderImports
<1>2. CallsFit'
  <2>1. \A u \in Threads : job'[u].bridge = job[u].bridge
    BY <1>1
  <2>2. QED
    BY <1>1, <2>1, CallsKept
<1>3. Epoch' = Epoch /\ Epoch \in Nat
  BY <1>1, Facts DEF Epoch
<1>4. SharedTypes' /\ \A u \in Threads : Respects(u)
  <2>1. CASE HeaderBegins(t)
    BY <1>1, <2>1 DEF HeaderBegins, SessionsInv, SharedTypes, Respects
  <2>2. CASE HeaderImports(t)
    <3>1. SharedTypes
      BY DEF SessionsInv
    <3>2. header' \in [Threads -> {"none", "enabled", "imported", "rejected"}]
      BY <2>2, <3>1 DEF HeaderImports, SharedTypes
    <3>3. headerCleared' \subseteq Threads \cup {NoThread}
      BY <2>2, <3>1 DEF HeaderImports, SharedTypes
    <3>4. SharedTypes'
      BY <1>1, <2>2, <3>1, <3>2, <3>3 DEF HeaderImports, SharedTypes
    <3>5. \A u \in Threads : Respects(u)
      BY <1>1, <2>2 DEF HeaderImports, Respects
    <3>6. QED
      BY <3>4, <3>5
  <2>3. QED
    BY <2>1, <2>2
<1>5. \A u \in Threads : Running(u)' => job[u].at = "got"
  <2> TAKE u \in Threads
  <2>1. Running(u)' = Running(u)
    BY <1>1 DEF callVars, Running
  <2>2. QED
    BY <2>1, Facts DEF JobFits
<1>6. Epoch <= Epoch'
  BY <1>3
<1>7. QED
  BY <1>1, <1>2, <1>4, <1>5, <1>6, SharedStep

-----------------------------------------------------------------------------
(* Giving back                                                             *)

LEMMA KeptBalance ==
  ASSUME NEW c \in Counts, NEW n \in Nat, NEW l \in Nat, Balance(c, n, l, 1, 0), n < Capacity,
         NEW d \in Counts, NEW m \in Nat, m = n + 1,
         d.imports = c.imports, d.reused = c.reused, d.acquired = c.acquired,
         d.stale = c.stale, d.kept = c.kept + 1, d.dropped = c.dropped, d.drained = c.drained
  PROVE  Balance(d, m, l, 0, 0)
<1>1. /\ c.imports \in Nat /\ c.reused \in Nat /\ c.kept \in Nat /\ c.dropped \in Nat
      /\ c.drained \in Nat /\ c.stale \in Nat /\ c.acquired \in Nat
  BY CountsAre
<1>2. /\ c.acquired = c.reused + c.imports /\ c.acquired = c.kept + c.dropped + 1
      /\ c.kept = n + c.reused + c.stale + c.drained + l + 0
      /\ c.imports <= FreshImports
  BY DEF Balance
<1>3. d.acquired = d.reused + d.imports /\ d.acquired = d.kept + d.dropped + 0
  BY <1>1, <1>2
<1>4. d.kept = m + d.reused + d.stale + d.drained + l + 0
  BY <1>1, <1>2
<1>5. m <= Capacity /\ d.imports <= FreshImports
  BY <1>1, <1>2, HostSessionsAssumption
<1>6. QED
  BY <1>3, <1>4, <1>5 DEF Balance

LEMMA DroppedBalance ==
  ASSUME NEW c \in Counts, NEW n \in Nat, NEW l \in Nat, Balance(c, n, l, 1, 0),
         NEW d \in Counts,
         d.imports = c.imports, d.reused = c.reused, d.acquired = c.acquired,
         d.stale = c.stale, d.kept = c.kept, d.dropped = c.dropped + 1, d.drained = c.drained
  PROVE  Balance(d, n, l, 0, 0)
<1>1. /\ c.imports \in Nat /\ c.reused \in Nat /\ c.kept \in Nat /\ c.dropped \in Nat
      /\ c.drained \in Nat /\ c.stale \in Nat /\ c.acquired \in Nat
  BY CountsAre
<1>2. /\ c.acquired = c.reused + c.imports /\ c.acquired = c.kept + c.dropped + 1
      /\ c.kept = n + c.reused + c.stale + c.drained + l + 0
      /\ n <= Capacity /\ c.imports <= FreshImports
  BY DEF Balance
<1>3. d.acquired = d.reused + d.imports /\ d.acquired = d.kept + d.dropped + 0
  BY <1>1, <1>2
<1>4. d.kept = n + d.reused + d.stale + d.drained + l + 0
  BY <1>2
<1>5. QED
  BY <1>2, <1>3, <1>4 DEF Balance

LEMMA DrainedBalance ==
  ASSUME NEW c \in Counts, NEW n \in Nat, NEW l \in Nat, NEW out, Balance(c, n, l, out, 0),
         NEW d \in Counts,
         d.imports = c.imports, d.reused = c.reused, d.acquired = c.acquired,
         d.stale = c.stale, d.kept = c.kept, d.dropped = c.dropped, d.drained = c.drained + n
  PROVE  Balance(d, 0, l, out, 0)
<1>1. /\ c.imports \in Nat /\ c.reused \in Nat /\ c.kept \in Nat /\ c.dropped \in Nat
      /\ c.drained \in Nat /\ c.stale \in Nat /\ c.acquired \in Nat
  BY CountsAre
<1>2. /\ c.acquired = c.reused + c.imports /\ c.acquired = c.kept + c.dropped + out
      /\ c.kept = n + c.reused + c.stale + c.drained + l + 0 /\ c.imports <= FreshImports
  BY DEF Balance
<1>3. d.acquired = d.reused + d.imports /\ d.acquired = d.kept + d.dropped + out
  BY <1>2
<1>4. d.kept = 0 + d.reused + d.stale + d.drained + l + 0
  BY <1>1, <1>2
<1>5. 0 <= Capacity /\ d.imports <= FreshImports
  BY <1>2, HostSessionsAssumption
<1>6. QED
  BY <1>3, <1>4, <1>5 DEF Balance

\* A session is given back: the thread is idle again.
LEMMA ReleasedFits ==
  ASSUME SessionsInv, NEW t \in Threads, job[t].at = "got", ~Running(t),
         NEW p \in Seq(Envs), \A n \in DOMAIN p : Exact(p[n]), NEW c \in Counts,
         Balance(c, Len(p), lost[t], 0, 0), Sets(t, NoJob, NoEnv, p, c, lost[t]),
         frame' = [frame EXCEPT ![t] = NoFrame],
         UNCHANGED <<registryVars, cancelled, calls>>,
         UNCHANGED <<lock, initFlag, loaded, headerVars>>, UNCHANGED opens
  PROVE  SessionsInv'
<1>1. JobFits(t) /\ Epoch \in Nat /\ lost[t] \in Nat /\ job[t].bridge = 0 /\ frame[t].bridge = 0
  BY Facts DEF JobFits, Locked
<1>2. SharedTypes' /\ Epoch' = Epoch /\ \A u \in Threads : Respects(u)
  <2>1. opens' \in 0..MaxOpens
    BY DEF SessionsInv, SharedTypes
  <2>2. QED
    BY <2>1, SharedKept
<1>3. OwnTypes
  BY DEF SessionsInv
<1>4. /\ job'[t] = NoJob /\ session'[t] = NoEnv /\ pool'[t] = p /\ stats'[t] = c
      /\ lost'[t] = lost[t] /\ \A u \in Threads \ {t} : job'[u] = job[u]
  BY <1>3 DEF Sets, OwnTypes
<1>5. frame'[t] = NoFrame /\ \A u \in Threads \ {t} : frame'[u] = frame[u]
  BY DEF SessionsInv, CallsFit, FramesFit
<1>6. FramesFit'
  <2>1. frame' = [u \in Threads |-> frame'[u]]
    BY DEF SessionsInv, CallsFit, FramesFit
  <2>2. \A u \in Threads : FrameFits(frame'[u], cancelled)
    BY <1>5, NoFrameFits DEF SessionsInv, CallsFit, FramesFit
  <2>3. QED
    BY <2>1, <2>2 DEF FramesFit
<1>7. CallsFit'
  <2>1. PICK old, new : old = 0 /\ new = 0
    OBVIOUS
  <2>2. Moves(t, old, new)
    BY <2>1 DEF Moves
  <2>3. NoFrame.bridge = 0 /\ NoJob.bridge = 0
    BY NoJobIs DEF NoFrame
  <2>4. /\ {frame[t].bridge, job[t].bridge} \ {0} = {old} \ {0}
        /\ {frame'[t].bridge, job'[t].bridge} \ {0} = {new} \ {0}
    BY <1>1, <1>4, <1>5, <2>1, <2>3
  <2>5. calls' \in 0..MaxCalls /\ cancelled' = cancelled
    BY DEF SessionsInv, CallsFit
  <2>6. QED
    BY <1>4, <1>5, <1>6, <2>2, <2>4, <2>5, BridgesMove
<1>8. ~Holds(t)' /\ ~Running(t)'
  BY <1>4, <1>5 DEF Holds, Running, NoFrame
<1>9. JobFits(t)'
  BY <1>1, <1>2, <1>4, <1>8, NoJobIs DEF JobFits, Locked
<1>10. HeldFits(t)'
  BY <1>4, <1>8 DEF HeldFits
<1>11. PoolFits(t)'
  <2>1. Out(t)' = 0 /\ Moving(t)' = 0
    BY <1>4, NoJobIs DEF Out, Moving
  <2>2. QED
    BY <1>4, <2>1, NoJobIs DEF PoolFits, Admitted
<1>12. Epoch <= Epoch' /\ \A u \in Threads \ {t} : Respects(u) /\ frame'[u] = frame[u]
  BY <1>1, <1>2, <1>5
<1>13. QED
  BY <1>1, <1>2, <1>7, <1>9, <1>10, <1>11, <1>12, NoJobIs, NoEnvIs, OwnStep

LEMMA ReleaseFits ==
  ASSUME SessionsInv, NEW t \in Threads, Release(t)
  PROVE  SessionsInv'
<1>1. /\ job[t] \in Jobs /\ session[t] \in Envs /\ pool[t] \in Seq(Envs)
      /\ stats[t] \in Counts /\ lost[t] \in Nat
      /\ JobFits(t) /\ HeldFits(t) /\ PoolFits(t)
      /\ job[t].at = "got" /\ ~Running(t) /\ Len(pool[t]) \in Nat
  BY Facts DEF Release, Got, Phase
<1>2. /\ frame' = [frame EXCEPT ![t] = NoFrame]
      /\ UNCHANGED <<registryVars, cancelled, calls>>
      /\ UNCHANGED <<lock, initFlag, loaded, headerVars>> /\ UNCHANGED opens
  BY DEF Release
<1>3. Exact(session[t]) /\ \A n \in DOMAIN pool[t] : Exact(pool[t][n])
  BY <1>1 DEF JobFits, HeldFits
<1>4. /\ session' = [session EXCEPT ![t] = NoEnv] /\ job' = [job EXCEPT ![t] = NoJob]
      /\ lost' = [lost EXCEPT ![t] = lost[t]]
  BY DEF Release, SessionsInv, OwnTypes
<1>5. CASE job[t].kind # "pooled"
  <2>1. Sets(t, NoJob, NoEnv, pool[t], stats[t], lost[t])
    BY <1>4, <1>5 DEF Release, Sets, SessionsInv, OwnTypes
  <2>2. Balance(stats[t], Len(pool[t]), lost[t], 0, 0)
    BY <1>1, <1>5 DEF PoolFits, Out, Moving
  <2>3. QED
    BY <1>1, <1>2, <1>3, <2>1, <2>2, ReleasedFits
<1>6. CASE job[t].kind = "pooled"
  <2>1. Balance(stats[t], Len(pool[t]), lost[t], 1, 0)
    BY <1>1, <1>6 DEF PoolFits, Out, Moving
  <2>2. CASE HasRoom(t)
    <3> DEFINE p == Append(pool[t], session[t])
               c == [stats[t] EXCEPT !.kept = @ + 1]
    <3>1. /\ p \in Seq(Envs) /\ Len(p) = Len(pool[t]) + 1 /\ DOMAIN p = 1..(Len(pool[t]) + 1)
          /\ \A n \in 1..Len(pool[t]) : p[n] = pool[t][n]
          /\ p[Len(pool[t]) + 1] = session[t]
      BY <1>1
    <3>2. stats' = [stats EXCEPT ![t] = c] /\ pool' = [pool EXCEPT ![t] = p]
      BY <1>6, <2>2 DEF Release, Bump
    <3>3. /\ c \in Counts /\ c.imports = stats[t].imports /\ c.reused = stats[t].reused
          /\ c.acquired = stats[t].acquired /\ c.stale = stats[t].stale
          /\ c.kept = stats[t].kept + 1 /\ c.dropped = stats[t].dropped
          /\ c.drained = stats[t].drained
      <4>1. stats[t].kept + 1 \in Nat
        BY <1>1, CountsAre
      <4>2. QED
        BY <1>1, <4>1 DEF Counts, CountFields
    <3> HIDE DEF c, p
    <3>4. Sets(t, NoJob, NoEnv, p, c, lost[t])
      BY <1>4, <3>2 DEF Sets
    <3>5. Balance(c, Len(p), lost[t], 0, 0)
      <4>1. Len(p) \in Nat /\ Len(pool[t]) < Capacity
        BY <1>1, <2>2, <3>1 DEF HasRoom
      <4>2. QED
        BY <1>1, <2>1, <3>1, <3>3, <4>1, KeptBalance
    <3>6. \A n \in DOMAIN p : Exact(p[n])
      <4> TAKE n \in DOMAIN p
      <4>1. n \in 1..Len(pool[t]) \/ n = Len(pool[t]) + 1
        BY <1>1, <3>1
      <4>2. DOMAIN pool[t] = 1..Len(pool[t])
        BY <1>1
      <4>3. QED
        BY <1>3, <3>1, <4>1, <4>2
    <3>7. QED
      BY <1>1, <1>2, <3>1, <3>3, <3>4, <3>5, <3>6, ReleasedFits
  <2>3. CASE ~HasRoom(t)
    <3> DEFINE c == [stats[t] EXCEPT !.dropped = @ + 1]
    <3>1. stats' = [stats EXCEPT ![t] = c] /\ pool' = pool
      BY <1>6, <2>3 DEF Release, Bump
    <3>2. /\ c \in Counts /\ c.imports = stats[t].imports /\ c.reused = stats[t].reused
          /\ c.acquired = stats[t].acquired /\ c.stale = stats[t].stale
          /\ c.kept = stats[t].kept /\ c.dropped = stats[t].dropped + 1
          /\ c.drained = stats[t].drained
      <4>1. stats[t].dropped + 1 \in Nat
        BY <1>1, CountsAre
      <4>2. QED
        BY <1>1, <4>1 DEF Counts, CountFields
    <3> HIDE DEF c
    <3>3. Sets(t, NoJob, NoEnv, pool[t], c, lost[t])
      BY <1>4, <3>1 DEF Sets, SessionsInv, OwnTypes
    <3>4. Balance(c, Len(pool[t]), lost[t], 0, 0)
      BY <1>1, <2>1, <3>2, DroppedBalance
    <3>5. QED
      BY <1>1, <1>2, <1>3, <3>2, <3>3, <3>4, ReleasedFits
  <2>4. QED
    BY <2>2, <2>3
<1>7. QED
  BY <1>5, <1>6

LEMMA DrainFits ==
  ASSUME SessionsInv, NEW t \in Threads, Drain(t)
  PROVE  SessionsInv'
<1>1. /\ job[t] \in Jobs /\ session[t] \in Envs /\ pool[t] \in Seq(Envs)
      /\ stats[t] \in Counts /\ lost[t] \in Nat
      /\ JobFits(t) /\ HeldFits(t) /\ PoolFits(t) /\ Epoch \in Nat
      /\ job[t].at \in {"idle", "got"} /\ Len(pool[t]) \in Nat
  BY Facts DEF Drain, Idle, Got, Phase
<1>2. /\ UNCHANGED callVars /\ UNCHANGED <<lock, initFlag, loaded, headerVars>>
      /\ UNCHANGED <<job, session, lost, opens>>
  BY DEF Drain
<1> DEFINE c == [stats[t] EXCEPT !.drained = @ + Len(pool[t])]
           p == <<>>
<1>3. stats' = [stats EXCEPT ![t] = c] /\ pool' = [pool EXCEPT ![t] = p]
  BY DEF Drain, Bump
<1>4. /\ c \in Counts /\ c.imports = stats[t].imports /\ c.reused = stats[t].reused
      /\ c.acquired = stats[t].acquired /\ c.stale = stats[t].stale
      /\ c.kept = stats[t].kept /\ c.dropped = stats[t].dropped
      /\ c.drained = stats[t].drained + Len(pool[t])
  <2>1. stats[t].drained + Len(pool[t]) \in Nat
    BY <1>1, CountsAre
  <2>2. QED
    BY <1>1, <2>1 DEF Counts, CountFields
<1>5. p \in Seq(Envs) /\ Len(p) = 0 /\ DOMAIN p = {}
  OBVIOUS
<1> HIDE DEF c, p
<1>6. OwnTypes
  BY DEF SessionsInv
<1>7. Sets(t, job[t], session[t], p, c, lost[t])
  BY <1>2, <1>3, <1>6 DEF Sets, OwnTypes
<1>8. pool'[t] = p /\ stats'[t] = c
  BY <1>3, <1>6 DEF OwnTypes
<1>9. SharedTypes' /\ Epoch' = Epoch /\ \A u \in Threads : Respects(u)
  <2>1. opens' \in 0..MaxOpens
    BY <1>2 DEF SessionsInv, SharedTypes
  <2>2. QED
    BY <1>2, <2>1, SharedKept
<1>10. CallsFit'
  <2>1. \A u \in Threads : job'[u].bridge = job[u].bridge
    BY <1>2
  <2>2. QED
    BY <1>2, <2>1, CallsKept
<1>11. Holds(t)' = Holds(t) /\ Running(t)' = Running(t)
  BY <1>2 DEF callVars, Holds, Running
<1>12. JobFits(t)'
  BY <1>1, <1>2, <1>9, <1>11 DEF JobFits, headerVars
<1>13. HeldFits(t)'
  BY <1>1, <1>2, <1>5, <1>8, <1>11 DEF HeldFits
<1>14. PoolFits(t)'
  <2>1. Moving(t) = 0 /\ Moving(t)' = 0 /\ Out(t)' = Out(t)
    BY <1>1, <1>2 DEF Moving, Out
  <2>2. Balance(stats[t], Len(pool[t]), lost[t], Out(t), 0)
    BY <1>1, <2>1 DEF PoolFits
  <2>3. Balance(c, 0, lost[t], Out(t), 0)
    BY <1>1, <1>4, <2>2, DrainedBalance
  <2>4. QED
    BY <1>1, <1>2, <1>5, <1>8, <2>1, <2>3 DEF PoolFits, Admitted
<1>15. Epoch <= Epoch' /\ \A u \in Threads \ {t} : Respects(u) /\ frame'[u] = frame[u]
  BY <1>1, <1>2, <1>9 DEF callVars
<1>16. QED
  BY <1>1, <1>4, <1>5, <1>7, <1>9, <1>10, <1>12, <1>13, <1>14, <1>15, OwnStep

-----------------------------------------------------------------------------
(* Every step                                                              *)

LEMMA SessionsInitInv == Init => SessionsInv
<1> SUFFICES ASSUME Init PROVE SessionsInv
  OBVIOUS
<1>1. CallsInv /\ \A t \in Threads : frame[t] = NoFrame
  BY CallsInitInv DEF Init, CallsInit
<1>2. /\ lock = NoThread /\ initFlag = FALSE /\ loaded = {}
      /\ job = [t \in Threads |-> NoJob] /\ session = [t \in Threads |-> NoEnv]
      /\ pool = [t \in Threads |-> <<>>] /\ stats = [t \in Threads |-> ZeroStats]
      /\ opens = 0 /\ lost = [t \in Threads |-> 0]
      /\ header = [t \in Threads |-> "none"] /\ headerCleared = {}
  BY DEF Init
<1>3. CallsFit
  <2>1. \A t \in Threads : {frame[t].bridge, job[t].bridge} \ {0} = {frame[t].bridge} \ {0}
    BY <1>2, NoJobIs
  <2>2. Bridges = CallBridges
    BY <2>1 DEF Bridges, CallBridges
  <2>3. QED
    BY <1>1, <2>2 DEF CallsInv, CallsFit
<1>4. IsFiniteSet(loaded) /\ Epoch = 0
  BY <1>2, FS_EmptySet DEF Epoch
<1>5. SharedTypes
  <2>1. 0 \in 0..MaxOpens
    BY HostSessionsAssumption
  <2>2. header \in [Threads -> {"none", "enabled", "imported", "rejected"}]
    BY <1>2
  <2>3. QED
    BY <1>2, <1>4, <2>1, <2>2 DEF SharedTypes
<1>6. ZeroStats \in Counts
  BY DEF ZeroStats, Counts, CountFields
<1>7. OwnTypes
  <2>1. <<>> \in Seq(Envs)
    OBVIOUS
  <2>2. QED
    BY <1>2, <1>6, <2>1, NoJobIs, NoEnvIs DEF OwnTypes
<1>8. ASSUME NEW t \in Threads PROVE JobFits(t) /\ HeldFits(t) /\ PoolFits(t)
  <2>1. /\ job[t] = NoJob /\ session[t] = NoEnv /\ pool[t] = <<>> /\ stats[t] = ZeroStats
        /\ lost[t] = 0 /\ frame[t].outcome = "none"
    BY <1>1, <1>2 DEF NoFrame
  <2>2. ~Holds(t) /\ ~Running(t)
    BY <2>1 DEF Holds, Running
  <2>3. JobFits(t)
    BY <1>4, <2>1, <2>2, NoJobIs DEF JobFits, Locked
  <2>4. HeldFits(t)
    BY <2>1, <2>2 DEF HeldFits
  <2>5. Out(t) = 0 /\ Moving(t) = 0 /\ Len(pool[t]) = 0
    BY <2>1, NoJobIs DEF Out, Moving
  <2>6. Balance(stats[t], 0, 0, 0, 0)
    BY <2>1, HostSessionsAssumption DEF Balance, ZeroStats
  <2>7. PoolFits(t)
    BY <2>1, <2>5, <2>6, NoJobIs DEF PoolFits, Admitted
  <2>8. QED
    BY <2>3, <2>4, <2>7
<1>9. QED
  BY <1>3, <1>5, <1>7, <1>8 DEF SessionsInv

LEMMA SessionsNextInv == SessionsInv /\ [Next]_vars => SessionsInv'
<1> SUFFICES ASSUME SessionsInv, [Next]_vars PROVE SessionsInv'
  OBVIOUS
<1>1. CASE UNCHANGED vars
  <2>1. /\ UNCHANGED callVars /\ UNCHANGED <<lock, initFlag, loaded, headerVars>>
        /\ UNCHANGED <<job, session, pool, stats, lost>> /\ opens' = opens
    BY <1>1 DEF vars, sessionVars
  <2>2. SharedTypes' /\ Epoch' = Epoch /\ \A u \in Threads : Respects(u)
    <3>1. opens' \in 0..MaxOpens
      BY <2>1 DEF SessionsInv, SharedTypes
    <3>2. QED
      BY <2>1, <3>1, SharedKept
  <2>3. CallsFit'
    <3>1. \A u \in Threads : job'[u].bridge = job[u].bridge
      BY <2>1
    <3>2. QED
      BY <2>1, <3>1, CallsKept
  <2>4. \A u \in Threads : Running(u)' => job[u].at = "got"
    <3> TAKE u \in Threads
    <3>1. Running(u)' = Running(u)
      BY <2>1 DEF callVars, Running
    <3>2. QED
      BY <3>1, Facts DEF JobFits
  <2>5. Epoch <= Epoch'
    <3>1. SharedTypes
      BY DEF SessionsInv
    <3>2. Epoch \in Nat
      BY <3>1, FS_CardinalityType DEF SharedTypes, Epoch
    <3>3. QED
      BY <2>2, <3>2
  <2>6. QED
    BY <2>1, <2>2, <2>3, <2>4, <2>5, SharedStep
<1>2. ASSUME NEW t \in Threads, NEW k \in Keys, NEW sink \in BOOLEAN, Acquire(t, k, sink)
      PROVE  SessionsInv'
  BY <1>2, AcquireFits
<1>3. ASSUME NEW t \in Threads, NEW k \in Keys, NEW sink \in BOOLEAN,
             NEW kind \in {"direct", "bracketed"}, Open(t, kind, k, sink)
      PROVE  SessionsInv'
  BY <1>3, OpenFits
<1>4. ASSUME NEW t \in Threads, Verify(t) \/ Admit(t) \/ Start(t) \/ TakeLock(t) PROVE SessionsInv'
  BY <1>4, VerifyFits, AdmitFits, StartFits, TakeLockFits
<1>5. ASSUME NEW t \in Threads, Begin(t) \/ Import(t) \/ EndImport(t) PROVE SessionsInv'
  BY <1>5, BeginFits, ImportFits, EndImportFits
<1>6. ASSUME NEW t \in Threads, Opened(t) \/ Failed(t) PROVE SessionsInv'
  BY <1>6, OpenedFits, FailedFits
<1>7. ASSUME NEW t \in Threads, NEW m \in Methods, Call(t, m) PROVE SessionsInv'
  BY <1>7, CallFits
<1>8. ASSUME NEW t \in Threads, HeaderBegins(t) \/ HeaderImports(t) \/ CallSteps(t)
      PROVE  SessionsInv'
  BY <1>8, HeaderFits, CallStepsFits
<1>9. ASSUME NEW t \in Threads, Release(t) \/ Drain(t) PROVE SessionsInv'
  BY <1>9, ReleaseFits, DrainFits
<1>10. QED
  BY <1>1, <1>2, <1>3, <1>4, <1>5, <1>6, <1>7, <1>8, <1>9 DEF Next

\* Types of the threads' imports, sessions and pools (pool.rs, session.rs,
\* bracketed.rs).
THEOREM SessionsTypeCorrect == Spec => []TypeOK
<1>1. ASSUME SessionsInv PROVE TypeOK
  <2>1. CallsTypeOK
    BY <1>1, FramesOK DEF SessionsInv, CallsFit, CallsTypeOK
  <2>2. ASSUME NEW env \in Envs PROVE EnvOK(env)
    BY DEF Envs, EnvOK
  <2>3. ASSUME NEW t \in Threads
        PROVE  /\ job[t].at \in {"idle", "verify", "admit", "start", "wait", "begin", "import",
                                 "end", "stamp", "failed", "rejected", "got"}
               /\ job[t].kind \in {"none", "pooled", "direct", "bracketed"}
               /\ EnvOK(job[t].env) /\ EnvOK(session[t])
               /\ \A i \in DOMAIN pool[t] : EnvOK(pool[t][i])
               /\ \A f \in DOMAIN stats[t] : stats[t][f] \in Nat
    <3>1. job[t] \in Jobs /\ session[t] \in Envs /\ pool[t] \in Seq(Envs) /\ stats[t] \in Counts
      BY <1>1, Facts
    <3>2. job[t].env \in Envs
      BY <3>1 DEF Jobs
    <3>3. \A i \in DOMAIN pool[t] : pool[t][i] \in Envs
      BY <3>1
    <3>4. \A f \in DOMAIN stats[t] : stats[t][f] \in Nat
      BY <3>1 DEF Counts
    <3>5. QED
      BY <2>2, <3>1, <3>2, <3>3, <3>4 DEF Jobs, Places
  <2>4. QED
    BY <1>1, <2>1, <2>3 DEF TypeOK, SessionsInv, SharedTypes, OwnTypes
<1>2. SessionsInv => TypeOK
  BY <1>1
<1>3. QED
  BY <1>2, SessionsInitInv, SessionsNextInv, PTL DEF Spec

\* However the imports of the threads interleave, each one under the lock finds
\* its flag set but for a header's import, every stamp is the number of
\* extensions its environment has room for, and a session has room for all that
\* was registered when it was asked for (session.rs, bracketed.rs, pool.rs).
THEOREM SessionsStayCurrent == Spec => []SessionsAreCurrent
<1>1. SessionsInv => LockedImportsSeeTheFlag
  BY Facts DEF LockedImportsSeeTheFlag, JobFits
<1>2. ASSUME SessionsInv, NEW t \in Threads,
             NEW env \in {session[t]} \cup {pool[t][i] : i \in DOMAIN pool[t]}
      PROVE  env.stamp = env.width
  <2>1. HeldFits(t)
    BY <1>2, Facts
  <2>2. session[t] = NoEnv \/ Exact(session[t])
    BY <2>1 DEF HeldFits, Holds
  <2>3. QED
    BY <1>2, <2>1, <2>2, NoEnvIs DEF HeldFits, Exact
<1>3. SessionsInv => StampIsExact
  BY <1>2 DEF StampIsExact
<1>4. SessionsInv => SessionsAreWide
  BY Facts DEF SessionsAreWide, HeldFits
<1>5. SessionsInv => SessionsAreCurrent
  BY <1>1, <1>3, <1>4 DEF SessionsAreCurrent
<1>6. QED
  BY <1>5, SessionsInitInv, SessionsNextInv, PTL DEF Spec

\* No way out of an import or of a call leaves a bridge in the registry, and
\* every session and pool entry is accounted for once, within the capacity and
\* the imports of the pool (progress.rs, callback.rs, pool.rs).
THEOREM NothingGetsLost == Spec => []NothingIsLost
<1>1. SessionsInv => NoLeakedBridges
  <2> SUFFICES ASSUME SessionsInv PROVE NoLeakedBridges
    OBVIOUS
  <2>1. ServedBy(registry, Bridges) /\ \A t \in Threads :
          Bridges[t] = {frame[t].bridge, job[t].bridge} \ {0}
    BY DEF SessionsInv, CallsFit, Bridges
  <2>2. UNION {Bridges[t] : t \in Threads}
          = UNION {{frame[t].bridge, job[t].bridge} \ {0} : t \in Threads}
    BY <2>1
  <2>3. QED
    BY <2>1, <2>2 DEF ServedBy, NoLeakedBridges
<1>2. ASSUME SessionsInv, NEW t \in Threads
      PROVE  LET s == stats[t]
                 out == IF Holds(t) /\ job[t].kind = "pooled" THEN 1 ELSE 0
                 moving == IF job[t].at = "verify" THEN 1 ELSE 0
             IN /\ s.acquired = s.reused + s.imports
                /\ s.acquired = s.kept + s.dropped + out
                /\ s.kept = Len(pool[t]) + s.reused + s.stale + s.drained + lost[t] + moving
                /\ Len(pool[t]) <= Capacity /\ s.imports <= FreshImports
  <2>1. JobFits(t) /\ PoolFits(t)
    BY <1>2, Facts
  <2>2. Out(t) = IF Holds(t) /\ job[t].kind = "pooled" THEN 1 ELSE 0
    BY <2>1 DEF Out, JobFits
  <2>3. QED
    BY <2>1, <2>2 DEF PoolFits, Balance, Moving
<1>3. SessionsInv => PoolConserves
  BY <1>2 DEF PoolConserves
<1>4. SessionsInv => NothingIsLost
  BY <1>1, <1>3 DEF NothingIsLost
<1>5. QED
  BY <1>4, SessionsInitInv, SessionsNextInv, PTL DEF Spec
=============================================================================
