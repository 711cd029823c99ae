------------------------ MODULE SessionReuse_proofs ------------------------
(***************************************************************************)
(* TLAPS proofs about SessionReuse, for every set of keys, every residue,  *)
(* every bound, every pool and hint capacity and both kinds of child.      *)
(***************************************************************************)
EXTENDS SessionReuse, FiniteSetTheorems, SequenceTheorems, TLAPS

\* The parent's part of the type invariant.
ParentType ==
  /\ budget \in [requests : Nat, imports : Nat, residue : Nat]
  /\ pending \in BOOLEAN /\ expect \in BOOLEAN /\ past \in Nat
  /\ openStep \in {"ready", "prepare", "send"}
  /\ wanted \in Configs \cup {NoConfig}

\* What an open in progress has already secured: the deferred restart is
\* done; when it is sent there is room for a request, and for an import too
\* unless a reuse is expected.
OpenSecured ==
  /\ openStep # "ready" => wanted \in Configs /\ ~pending
  /\ openStep = "send" => past = 0
  /\ openStep = "prepare" => restarts = before \/ keys = <<>>
  /\ openStep = "send" => ~request_limit_reached(budget)
  /\ openStep = "send" /\ ~expect => ~import_limit_reached(budget)

\* An overrun that no deferred restart pays for is paid by the admission check
\* of the next open, which cannot predict a reuse.
OverrunPaid == past = 1 /\ ~pending => keys = <<>> /\ import_limit_reached(budget)

\* The inductive invariant behind both bounds.
BudgetInv ==
  ParentType /\ OpenSecured /\ OverrunAtMostOne /\ OverrunPaid /\ RequestsWithinLimit

-----------------------------------------------------------------------------

\* A fresh generation is below every bound the policy can set.
LEMMA ZeroBudgetBelow ==
  ~request_limit_reached(ZeroBudget) /\ ~import_limit_reached(ZeroBudget)
BY ReuseAssumption DEF request_limit_reached, import_limit_reached, ZeroBudget

\* Counting a request or an import keeps the budget's type, and a bound once
\* reached stays reached.
LEMMA RecordImport ==
  ASSUME NEW b \in [requests : Nat, imports : Nat, residue : Nat],
         NEW k \in Configs
  PROVE  LET c == record_import(record_request(b), k) IN
         /\ c \in [requests : Nat, imports : Nat, residue : Nat]
         /\ c.requests = b.requests + 1
         /\ import_limit_reached(b) => import_limit_reached(c)
<1> DEFINE c == record_import(record_request(b), k)
<1>1. Residue[k] \in Nat
  BY ReuseAssumption
<1>2. /\ c \in [requests : Nat, imports : Nat, residue : Nat]
      /\ c.requests = b.requests + 1
      /\ c.imports = b.imports + 1
      /\ c.residue = b.residue + Residue[k]
  <2>1. c = [requests |-> b.requests + 1, imports |-> b.imports + 1,
             residue |-> b.residue + Residue[k]]
    <3>1. b = [requests |-> b.requests, imports |-> b.imports, residue |-> b.residue]
      OBVIOUS
    <3>2. record_request(b) = [requests |-> b.requests + 1, imports |-> b.imports,
                               residue |-> b.residue]
      BY <3>1 DEF record_request
    <3> DEFINE r == record_request(b)
    <3>3. r.imports = b.imports /\ r.residue = b.residue
      BY <3>2
    <3>4. c = [r EXCEPT !.imports = r.imports + 1, !.residue = r.residue + Residue[k]]
      BY DEF record_import
    <3> HIDE DEF c, r
    <3>5. c = [[requests |-> b.requests + 1, imports |-> b.imports, residue |-> b.residue]
                 EXCEPT !.imports = b.imports + 1, !.residue = b.residue + Residue[k]]
      BY <3>2, <3>3, <3>4 DEF r
    <3> QED
      BY <3>5
  <2>2. b.requests + 1 \in Nat /\ b.imports + 1 \in Nat /\ b.residue + Residue[k] \in Nat
    BY <1>1
  <2> QED
    BY <2>1, <2>2
<1>3. b.imports \in Nat /\ b.residue \in Nat /\ MaxImports \in Nat /\ MaxResidue \in Nat
  BY ReuseAssumption
<1>4. import_limit_reached(b) => import_limit_reached(c)
  BY <1>1, <1>2, <1>3 DEF import_limit_reached
<1> QED
  BY <1>2, <1>4

\* The same for a request that does not import, which also leaves the import
\* bounds alone; a request below the limit leaves the count within it.
LEMMA RecordRequest ==
  ASSUME NEW b \in [requests : Nat, imports : Nat, residue : Nat]
  PROVE  /\ record_request(b) \in [requests : Nat, imports : Nat, residue : Nat]
         /\ record_request(b).requests = b.requests + 1
BY DEF record_request

\* A request neither adds to the import bounds nor takes from them.
LEMMA RequestKeepsLimit ==
  ASSUME NEW b \in [requests : Nat, imports : Nat, residue : Nat],
         import_limit_reached(b)
  PROVE  import_limit_reached(record_request(b))
BY DEF record_request, import_limit_reached

\* A generation below its request limit has room for one more request.
LEMMA RoomForOne ==
  ASSUME NEW b \in [requests : Nat, imports : Nat, residue : Nat],
         ~request_limit_reached(b), "requests" \in Limits
  PROVE  b.requests + 1 <= MaxRequests
BY ReuseAssumption DEF request_limit_reached

-----------------------------------------------------------------------------

\* A restart re-establishes everything that is per generation.
LEMMA RestartSecures ==
  ASSUME Restart
  PROVE  /\ budget' = ZeroBudget /\ budget' \in [requests : Nat, imports : Nat, residue : Nat]
         /\ keys' = <<>> /\ pending' = FALSE /\ past' = 0
         /\ OverrunAtMostOne' /\ OverrunPaid' /\ RequestsWithinLimit'
<1>1. /\ budget' = ZeroBudget /\ keys' = <<>> /\ pending' = FALSE /\ past' = 0
  BY DEF Restart, FreshParent, FreshChild
<1>2. budget' \in [requests : Nat, imports : Nat, residue : Nat] /\ budget'.requests = 0
  BY <1>1 DEF ZeroBudget
<1> QED
  BY <1>1, <1>2, ReuseAssumption DEF OverrunAtMostOne, OverrunPaid, RequestsWithinLimit

\* A restart that fails takes the child and its overrun away and keeps what
\* the parent had counted, or starts counting afresh.
LEMMA RestartFailsSecures ==
  ASSUME RestartFails, ParentType, RequestsWithinLimit
  PROVE  /\ budget' \in [requests : Nat, imports : Nat, residue : Nat]
         /\ pending' = FALSE /\ past' = 0
         /\ OverrunAtMostOne' /\ OverrunPaid' /\ RequestsWithinLimit'
<1>1. past' = 0 /\ pending' = FALSE /\ (budget' = budget \/ budget' = ZeroBudget)
  BY DEF RestartFails, FreshChild
<1>2. CASE budget' = budget
  BY <1>1, <1>2 DEF ParentType, OverrunAtMostOne, OverrunPaid, RequestsWithinLimit
<1>3. CASE budget' = ZeroBudget
  <2>1. budget' \in [requests : Nat, imports : Nat, residue : Nat] /\ budget'.requests = 0
    BY <1>3 DEF ZeroBudget
  <2> QED
    BY <1>1, <2>1, ReuseAssumption DEF OverrunAtMostOne, OverrunPaid, RequestsWithinLimit
<1> QED BY <1>1, <1>2, <1>3

\* A fresh parent and child are within every bound.
LEMMA BudgetInit == ReuseInit => BudgetInv
<1> SUFFICES ASSUME ReuseInit PROVE BudgetInv
  OBVIOUS
<1>1. /\ budget = ZeroBudget /\ pending = FALSE /\ expect = FALSE
      /\ openStep = "ready" /\ wanted = NoConfig /\ past = 0
  BY DEF ReuseInit
<1>2. ParentType /\ budget.requests = 0
  BY <1>1 DEF ParentType, ZeroBudget
<1>3. OpenSecured /\ OverrunAtMostOne /\ OverrunPaid
  BY <1>1 DEF OpenSecured, OverrunAtMostOne, OverrunPaid
<1>4. RequestsWithinLimit
  BY <1>2, ReuseAssumption DEF RequestsWithinLimit
<1> QED
  BY <1>2, <1>3, <1>4 DEF BudgetInv

\* An open that is sent right after a restart has room for everything.
LEMMA SentAfterRestart ==
  ASSUME BudgetInv, Restart, openStep = "prepare", openStep' = "send", wanted' = wanted, expect' = FALSE
  PROVE  BudgetInv'
<1>1. /\ budget' = ZeroBudget
      /\ budget' \in [requests : Nat, imports : Nat, residue : Nat]
      /\ pending' = FALSE /\ past' = 0
  BY RestartSecures
<1>2. OverrunAtMostOne' /\ OverrunPaid' /\ RequestsWithinLimit'
  BY RestartSecures
<1>3. ~request_limit_reached(budget') /\ ~import_limit_reached(budget')
  BY <1>1, ZeroBudgetBelow
<1>4. wanted \in Configs
  BY DEF BudgetInv, OpenSecured
<1>5. ParentType'
  BY <1>1, <1>4 DEF ParentType
<1>6. OpenSecured'
  BY <1>1, <1>3, <1>4 DEF OpenSecured
<1> QED BY <1>2, <1>5, <1>6 DEF BudgetInv

\* Every step of an open, of a request and of a restart keeps BudgetInv.
LEMMA BudgetStep == BudgetInv /\ [ReuseNext]_reuseVars => BudgetInv'
<1> SUFFICES ASSUME BudgetInv, [ReuseNext]_reuseVars PROVE BudgetInv'
  OBVIOUS
<1> USE DEF BudgetInv
<1>1. ASSUME NEW k \in Configs, OpenCall(k) PROVE BudgetInv'
  <2>1. CASE RestartFails /\ UNCHANGED openVars
    <3>1. UNCHANGED <<openStep, wanted, expect>> /\ openStep = "ready"
      BY <1>1, <2>1 DEF OpenCall, openVars
    <3>2. budget' \in [requests : Nat, imports : Nat, residue : Nat] /\ pending' = FALSE /\ past' = 0
      BY <2>1, RestartFailsSecures
    <3>3. OverrunAtMostOne' /\ OverrunPaid' /\ RequestsWithinLimit'
      BY <2>1, RestartFailsSecures
    <3>4. ParentType' /\ OpenSecured'
      BY <3>1, <3>2 DEF ParentType, OpenSecured
    <3> QED BY <3>3, <3>4
  <2>2. CASE ~(RestartFails /\ UNCHANGED openVars)
    <3>1. /\ openStep' = "prepare" /\ wanted' = k /\ before' = restarts /\ expect' = FALSE
          /\ IF pending THEN Restart ELSE UNCHANGED <<parentVars, childVars, past>>
      BY <1>1, <2>2 DEF OpenCall
    <3>2. CASE pending
      <4>1. Restart
        BY <3>1, <3>2
      <4> QED
        <5>1. /\ budget' \in [requests : Nat, imports : Nat, residue : Nat]
              /\ keys' = <<>> /\ pending' = FALSE /\ past' = 0
          BY <4>1, RestartSecures
        <5>2. OverrunAtMostOne' /\ OverrunPaid' /\ RequestsWithinLimit'
          BY <4>1, RestartSecures
        <5>3. ParentType' /\ OpenSecured'
          BY <3>1, <5>1 DEF ParentType, OpenSecured
        <5> QED BY <5>2, <5>3
    <3>3. CASE ~pending
      <4>1. UNCHANGED <<budget, keys, pending, restarts, past>>
        BY <3>1, <3>3 DEF parentVars
      <4>2. UNCHANGED import_limit_reached(budget)
        BY <4>1
      <4> QED
        BY <3>1, <3>3, <4>1, <4>2
        DEF ParentType, OpenSecured, OverrunAtMostOne, OverrunPaid, RequestsWithinLimit
    <3> QED BY <3>2, <3>3
  <2> QED BY <2>1, <2>2
<1>2. CASE PrepareOpen
  <2>1. openStep = "prepare" /\ openStep' = "send" /\ wanted' = wanted
    BY <1>2 DEF PrepareOpen
  <2>2. CASE Restart /\ expect' = FALSE
    BY <2>1, <2>2, SentAfterRestart
  <2>3. CASE ~(Restart /\ expect' = FALSE)
    <3>1. /\ ~request_limit_reached(budget)
          /\ ExpectReuse \/ ~import_limit_reached(budget)
          /\ expect' = (ExpectReuse /\ restarts = before)
          /\ UNCHANGED <<budget, keys, pending, past>>
      BY <1>2, <2>3 DEF PrepareOpen, parentVars
    <3>2. keys = <<>> => ~ExpectReuse
      <4>1. Elems(<<>>) = {}
        BY DEF Elems
      <4> QED
        BY <2>1, <4>1 DEF ExpectReuse
    <3>3. restarts # before => keys = <<>>
      BY <2>1 DEF OpenSecured
    <3>4. expect' \in BOOLEAN /\ (~expect' => ~import_limit_reached(budget))
      BY <3>1, <3>2, <3>3
    <3>5. ~request_limit_reached(budget') /\ (~expect' => ~import_limit_reached(budget'))
      BY <3>1, <3>4
    <3>6. past = 0
      <4>1. past # 0 => past = 1
        BY DEF ParentType, OverrunAtMostOne
      <4>2. ~pending
        BY <2>1 DEF OpenSecured
      <4> QED
        BY <3>1, <3>2, <4>1, <4>2 DEF OverrunPaid
    <3> QED
      BY <2>1, <3>1, <3>4, <3>5, <3>6
      DEF ParentType, OpenSecured, OverrunAtMostOne, OverrunPaid, RequestsWithinLimit
  <2> QED BY <2>2, <2>3
<1>3. CASE PrepareOpenRssOrIdle
  <2>1. openStep = "prepare" /\ openStep' = "send" /\ wanted' = wanted /\ expect' = FALSE /\ Restart
    BY <1>3 DEF PrepareOpenRssOrIdle
  <2> QED
    BY <2>1, SentAfterRestart
<1>4. CASE PrepareFails
  <2>1. openStep' = "ready" /\ wanted' = NoConfig /\ expect' = FALSE
    BY <1>4 DEF PrepareFails, Returns
  <2>2. CASE RestartFails
    <3>1. budget' \in [requests : Nat, imports : Nat, residue : Nat] /\ pending' = FALSE /\ past' = 0
      BY <2>2, RestartFailsSecures
    <3>2. OverrunAtMostOne' /\ OverrunPaid' /\ RequestsWithinLimit'
      BY <2>2, RestartFailsSecures
    <3>3. ParentType' /\ OpenSecured'
      BY <2>1, <3>1 DEF ParentType, OpenSecured
    <3> QED BY <3>2, <3>3
  <2>3. CASE ~RestartFails
    <3>1. UNCHANGED <<budget, keys, pending, past>>
      BY <1>4, <2>3 DEF PrepareFails, parentVars
    <3>2. UNCHANGED import_limit_reached(budget)
      BY <3>1
    <3> QED
      BY <2>1, <3>1, <3>2
      DEF ParentType, OpenSecured, OverrunAtMostOne, OverrunPaid, RequestsWithinLimit
  <2> QED BY <2>2, <2>3
<1>5. CASE ChildReuses
  <2>1. /\ openStep = "send" /\ ParentReused /\ openStep' = "ready" /\ expect' = FALSE
        /\ wanted' = NoConfig /\ past' = past
    BY <1>5 DEF ChildReuses, Returns
  <2>2. budget' = record_request(budget) /\ past = 0 /\ UNCHANGED pending
    BY <2>1 DEF ParentReused, OpenSecured
  <2>3. RequestsWithinLimit'
    BY <2>1, <2>2, RecordRequest, RoomForOne DEF ParentType, OpenSecured, RequestsWithinLimit
  <2>4. ParentType'
    BY <2>1, <2>2, RecordRequest DEF ParentType
  <2>5. OpenSecured'
    BY <2>1 DEF OpenSecured
  <2>6. OverrunAtMostOne' /\ OverrunPaid'
    BY <2>1, <2>2 DEF OverrunAtMostOne, OverrunPaid
  <2> QED
    BY <2>3, <2>4, <2>5, <2>6
<1>6. CASE ChildImports
  <2>1. /\ openStep = "send" /\ openStep' = "ready" /\ expect' = FALSE /\ wanted' = NoConfig
        /\ past' = IF import_limit_reached(budget) THEN past + 1 ELSE past
        /\ ParentOpened \/ ParentFailed
    BY <1>6 DEF ChildImports, Returns
  <2> DEFINE charged == record_import(record_request(budget), wanted)
  <2>2. wanted \in Configs /\ ~pending /\ past = 0 /\ ~request_limit_reached(budget)
    BY <2>1 DEF OpenSecured
  <2>3. past' = IF import_limit_reached(budget) THEN 1 ELSE 0
    BY <2>1, <2>2
  <2>4. CASE ParentOpened
    <3>1. /\ budget' = charged
          /\ pending' = IF expect THEN import_limit_reached(charged) ELSE pending
      BY <2>4 DEF ParentOpened
    <3>2. /\ charged \in [requests : Nat, imports : Nat, residue : Nat]
          /\ charged.requests = budget.requests + 1
          /\ import_limit_reached(budget) => import_limit_reached(charged)
      BY <2>2, RecordImport DEF ParentType
    <3>3. RequestsWithinLimit'
      BY <2>2, <3>1, <3>2, RoomForOne DEF ParentType, RequestsWithinLimit
    <3>4. pending' \in BOOLEAN
      BY <3>1 DEF ParentType, import_limit_reached
    <3>5. past' = 1 => pending'
      <4>1. import_limit_reached(budget) => expect
        BY <2>1 DEF OpenSecured
      <4> QED BY <2>3, <3>1, <3>2, <4>1
    <3>6. OverrunAtMostOne' /\ OverrunPaid' /\ past' \in Nat
      BY <2>3, <3>5 DEF OverrunAtMostOne, OverrunPaid
    <3> QED
      BY <2>1, <3>1, <3>2, <3>3, <3>4, <3>6 DEF ParentType, OpenSecured
  <2>5. CASE ParentFailed
    <3>1. budget' = record_request(budget) /\ keys' = <<>> /\ UNCHANGED pending
      BY <2>5 DEF ParentFailed
    <3>2. /\ budget' \in [requests : Nat, imports : Nat, residue : Nat]
          /\ budget'.requests = budget.requests + 1
          /\ import_limit_reached(budget) => import_limit_reached(record_request(budget))
      BY <3>1, RecordRequest, RequestKeepsLimit DEF ParentType
    <3>3. import_limit_reached(record_request(budget)) => import_limit_reached(budget)'
      BY <3>1
    <3>4. RequestsWithinLimit'
      BY <2>2, <3>2, RoomForOne DEF ParentType, RequestsWithinLimit
    <3>5. OverrunAtMostOne' /\ OverrunPaid' /\ past' \in Nat
      BY <2>3, <3>1, <3>2, <3>3 DEF OverrunAtMostOne, OverrunPaid
    <3> QED
      BY <2>1, <3>1, <3>2, <3>4, <3>5 DEF ParentType, OpenSecured
  <2> QED BY <2>1, <2>4, <2>5
<1>7. CASE ChildFails
  <2>1. /\ openStep = "send" /\ ParentFailed /\ openStep' = "ready" /\ expect' = FALSE
        /\ wanted' = NoConfig /\ past' = past
    BY <1>7 DEF ChildFails, Returns
  <2>2. budget' = record_request(budget) /\ past = 0 /\ UNCHANGED pending
    BY <2>1 DEF ParentFailed, OpenSecured
  <2>3. RequestsWithinLimit'
    BY <2>1, <2>2, RecordRequest, RoomForOne DEF ParentType, OpenSecured, RequestsWithinLimit
  <2>4. ParentType'
    BY <2>1, <2>2, RecordRequest DEF ParentType
  <2>5. OpenSecured'
    BY <2>1 DEF OpenSecured
  <2>6. OverrunAtMostOne' /\ OverrunPaid'
    BY <2>1, <2>2 DEF OverrunAtMostOne, OverrunPaid
  <2> QED
    BY <2>3, <2>4, <2>5, <2>6
<1>8. CASE ChildExits
  <2>1. past' = 0 /\ pending' = pending
    BY <1>8 DEF ChildExits, FreshChild
  <2>2. OverrunAtMostOne' /\ OverrunPaid'
    BY <2>1 DEF OverrunAtMostOne, OverrunPaid
  <2>3. CASE openStep = "ready" /\ UNCHANGED <<budget, keys, openVars>>
    BY <2>1, <2>2, <2>3 DEF openVars, ParentType, OpenSecured, RequestsWithinLimit
  <2>4. CASE openStep = "send" /\ Returns /\ UNCHANGED <<budget, keys>>
    BY <2>1, <2>2, <2>4 DEF Returns, ParentType, OpenSecured, RequestsWithinLimit
  <2>5. CASE openStep = "send" /\ Returns /\ budget' = record_request(budget) /\ keys' = <<>>
    <3>1. RequestsWithinLimit'
      BY <2>5, RecordRequest, RoomForOne DEF ParentType, OpenSecured, RequestsWithinLimit
    <3> QED
      BY <2>1, <2>2, <2>5, <3>1, RecordRequest DEF Returns, ParentType, OpenSecured
  <2> QED BY <1>8, <2>3, <2>4, <2>5 DEF ChildExits
<1>9. CASE OtherRequest
  <2>1. /\ openStep = "ready" /\ ~request_limit_reached(budget)
        /\ budget' = record_request(budget)
        /\ UNCHANGED <<pending, past, keys, openStep, wanted, expect>>
    BY <1>9 DEF OtherRequest, openVars
  <2>2. RequestsWithinLimit'
    BY <2>1, RecordRequest, RoomForOne DEF ParentType, RequestsWithinLimit
  <2>3. import_limit_reached(budget) => import_limit_reached(budget)'
    BY <2>1, RequestKeepsLimit DEF ParentType
  <2> QED
    BY <2>1, <2>2, <2>3, RecordRequest
    DEF ParentType, OpenSecured, OverrunAtMostOne, OverrunPaid
<1>10. CASE ClearCache
  BY <1>10 DEF ClearCache, parentVars, openVars, ParentType, OpenSecured,
     OverrunAtMostOne, OverrunPaid, RequestsWithinLimit, request_limit_reached,
     import_limit_reached
<1>11. CASE Cycle
  <2>1. openStep = "ready" /\ UNCHANGED <<openStep, wanted, expect>> /\ (Restart \/ RestartFails)
    BY <1>11 DEF Cycle, openVars
  <2>2. /\ budget' \in [requests : Nat, imports : Nat, residue : Nat]
        /\ pending' = FALSE /\ past' = 0
    BY <2>1, RestartSecures, RestartFailsSecures
  <2>3. OverrunAtMostOne' /\ OverrunPaid' /\ RequestsWithinLimit'
    BY <2>1, RestartSecures, RestartFailsSecures
  <2>4. ParentType' /\ OpenSecured'
    BY <2>1, <2>2 DEF ParentType, OpenSecured
  <2> QED BY <2>3, <2>4
<1>12. CASE UNCHANGED reuseVars
  BY <1>12 DEF reuseVars, parentVars, openVars, ParentType, OpenSecured,
     OverrunAtMostOne, OverrunPaid, RequestsWithinLimit, request_limit_reached,
     import_limit_reached
<1> QED
  BY <1>1, <1>2, <1>3, <1>4, <1>5, <1>6, <1>7, <1>8, <1>9, <1>10, <1>11, <1>12 DEF ReuseNext

\* BudgetInv holds in every reachable state.
THEOREM BudgetSafe == ReuseSpec => []BudgetInv
BY BudgetInit, BudgetStep, PTL DEF ReuseSpec

\* However the parent's hint and the child's pool disagree (different
\* capacities, a binary without a pool, staleness, failed imports), a
\* generation imports at most once past its import bound, and the restart
\* that pays for it is already scheduled (open_worker_session,
\* pending_restart).
THEOREM OverrunBounded == ReuseSpec => []OverrunAtMostOne
BY BudgetSafe, PTL DEF BudgetInv

\* No generation serves more than max_requests requests, opens included
\* (prepare_request, GenerationBudget::request_limit_reached).
THEOREM RequestsBounded == ReuseSpec => []RequestsWithinLimit
BY BudgetSafe, PTL DEF BudgetInv

\* Both bounds of a generation hold (GenerationBudget).
THEOREM BudgetsKept == ReuseSpec => []BudgetsHold
BY OverrunBounded, RequestsBounded, PTL DEF BudgetsHold

-----------------------------------------------------------------------------
(* The sessions of both ends                                               *)

\* The elements of a sequence with one more at its end.
LEMMA AppendElements ==
  ASSUME NEW S, NEW s \in Seq(S), NEW e \in S
  PROVE  /\ Append(s, e) \in Seq(S) /\ Len(Append(s, e)) = Len(s) + 1
         /\ \A i \in 1..Len(s) : Append(s, e)[i] = s[i]
         /\ Append(s, e)[Len(s) + 1] = e
OBVIOUS

\* Taking one element out moves the later ones down.
LEMMA WithoutElements ==
  ASSUME NEW S, NEW s \in Seq(S), NEW i \in 1..Len(s)
  PROVE  /\ Without(s, i) \in Seq(S) /\ Len(Without(s, i)) = Len(s) - 1
         /\ \A j \in 1..Len(s) - 1 :
               Without(s, i)[j] = IF j < i THEN s[j] ELSE s[j + 1]
<1> DEFINE a == SubSeq(s, 1, i - 1)
           b == SubSeq(s, i + 1, Len(s))
<1>1. a \in Seq(S) /\ Len(a) = i - 1 /\ \A j \in 1..i-1 : a[j] = s[j]
  OBVIOUS
<1>2. b \in Seq(S) /\ Len(b) = Len(s) - i /\ \A j \in 1..Len(s)-i : b[j] = s[i + j]
  OBVIOUS
<1> HIDE DEF a, b
<1>3. Without(s, i) = a \o b
  BY DEF Without, a, b
<1>4. a \in Seq(S) /\ b \in Seq(S)
  BY <1>1, <1>2
<1>5. /\ a \o b \in Seq(S) /\ Len(a \o b) = Len(a) + Len(b)
      /\ \A j \in 1..Len(a) + Len(b) :
            (a \o b)[j] = IF j <= Len(a) THEN a[j] ELSE b[j - Len(a)]
  BY <1>4, ConcatProperties
<1>6. i \in Nat /\ Len(s) \in Nat /\ Len(a) = i - 1 /\ Len(b) = Len(s) - i
      /\ Len(a) + Len(b) = Len(s) - 1
  BY <1>1, <1>2
<1>7. ASSUME NEW j \in 1..Len(s) - 1
      PROVE  (a \o b)[j] = IF j < i THEN s[j] ELSE s[j + 1]
  <2>1. CASE j < i
    BY <1>1, <1>5, <1>6, <2>1
  <2>2. CASE ~(j < i)
    <3>1. j - Len(a) \in 1..Len(s) - i /\ i + (j - Len(a)) = j + 1 /\ j > Len(a)
      BY <1>6, <2>2
    <3>2. b[j - Len(a)] = s[j + 1]
      BY <1>2, <3>1
    <3> QED BY <1>5, <1>6, <2>2, <3>1, <3>2
  <2> QED BY <2>1, <2>2
<1> QED BY <1>3, <1>5, <1>6, <1>7

\* What is kept of a sequence that is cut from the front.
LEMMA LastElements ==
  ASSUME NEW S, NEW s \in Seq(S), NEW n \in Nat
  PROVE  LET r == LastN(s, n) IN
         /\ r \in Seq(S) /\ Len(r) = IF Len(s) <= n THEN Len(s) ELSE n
         /\ \A j \in 1..Len(r) : r[j] = s[Len(s) - Len(r) + j]
<1>1. CASE Len(s) <= n
  <2>1. LastN(s, n) = s BY <1>1 DEF LastN
  <2>2. \A j \in 1..Len(s) : Len(s) - Len(s) + j = j OBVIOUS
  <2>3. \A j \in 1..Len(s) : s[j] = s[Len(s) - Len(s) + j] BY <2>2
  <2>4. s \in Seq(S) /\ Len(s) = IF Len(s) <= n THEN Len(s) ELSE n BY <1>1
  <2> QED BY <2>1, <2>3, <2>4
<1>2. CASE ~(Len(s) <= n)
  <2> DEFINE r == SubSeq(s, Len(s) - n + 1, Len(s))
  <2>1. LastN(s, n) = r BY <1>2 DEF LastN
  <2>2. Len(s) - n + 1 \in 1..Len(s)+1 /\ Len(s) \in Nat BY <1>2
  <2>3. r \in Seq(S) /\ Len(r) = n BY <1>2, <2>2
  <2>4. \A j \in 1..n : r[j] = s[Len(s) - n + j] BY <1>2, <2>2
  <2> QED BY <1>2, <2>1, <2>3, <2>4
<1> QED BY <1>1, <1>2

\* A sweep that finds nothing stale, and one that finds nothing else.
LEMMA RetainedAll ==
  ASSUME NEW S, NEW s \in Seq(S), NEW live, \A i \in 1..Len(s) : ~Stale(s[i], live)
  PROVE  Retained(s, live) = s
<1> DEFINE fresh == {i \in 1..Len(s) : ~Stale(s[i], live)}
           nth(n) == CHOOSE i \in fresh : Cardinality({j \in fresh : j <= i}) = n
<1>1. fresh = 1..Len(s) OBVIOUS
<1>2. \A i \in 1..Len(s) : Cardinality({j \in fresh : j <= i}) = i
  <2> TAKE i \in 1..Len(s)
  <2>1. {j \in fresh : j <= i} = 1..i BY <1>1
  <2>2. Cardinality(1..i) = i BY FS_Interval
  <2> QED BY <2>1, <2>2
<1>3. Cardinality(fresh) = Len(s)
  <2>1. Len(s) \in Nat OBVIOUS
  <2>2. Cardinality(1..Len(s)) = Len(s) BY <2>1, FS_Interval
  <2> QED BY <1>1, <2>2
<1>4. \A n \in 1..Len(s) : nth(n) = n
  <2> TAKE n \in 1..Len(s)
  <2> HIDE DEF fresh
  <2>1. \E i \in fresh : Cardinality({j \in fresh : j <= i}) = n
    <3>1. n \in fresh BY <1>1
    <3> QED BY <3>1, <1>2
  <2>2. nth(n) \in fresh /\ Cardinality({j \in fresh : j <= nth(n)}) = n BY <2>1
  <2> QED BY <1>1, <1>2, <2>2
<1>5. Retained(s, live) = [n \in 1..Cardinality(fresh) |-> s[nth(n)]] BY DEF Retained
<1> HIDE DEF fresh, nth
<1>6. Retained(s, live) = [n \in 1..Len(s) |-> s[n]] BY <1>3, <1>4, <1>5
<1> QED BY <1>6

\* A sweep that finds every session stale retains none.
LEMMA RetainedNone ==
  ASSUME NEW S, NEW s \in Seq(S), NEW live, \A i \in 1..Len(s) : Stale(s[i], live)
  PROVE  Retained(s, live) = <<>>
<1> DEFINE fresh == {i \in 1..Len(s) : ~Stale(s[i], live)}
           nth(n) == CHOOSE i \in fresh : Cardinality({j \in fresh : j <= i}) = n
<1>1. Cardinality(fresh) = 0 BY FS_EmptySet
<1>2. Retained(s, live) = [n \in 1..Cardinality(fresh) |-> s[nth(n)]] BY DEF Retained
<1> HIDE DEF fresh, nth
<1>3. Retained(s, live) = [n \in 1..0 |-> s[nth(n)]] BY <1>1, <1>2
<1> QED BY <1>3

-----------------------------------------------------------------------------
\* After an open its key is the last one of the parent's list.
LEMMA NotedKey ==
  ASSUME NEW ks \in Seq(Configs), NEW k \in Configs, setup \in SetupType
  PROVE  LET r == note_open_session_key(ks, k) IN
         r \in Seq(Configs) /\ r # <<>> /\ r[Len(r)] = k
<1>1. CASE k \in Elems(ks)
  <2> DEFINE i == CHOOSE i \in 1..Len(ks) : ks[i] = k
  <2>1. i \in 1..Len(ks)
    BY <1>1 DEF Elems
  <2> HIDE DEF i
  <2>2. Without(ks, i) \in Seq(Configs)
    BY <2>1, WithoutElements
  <2>3. note_open_session_key(ks, k) = Append(Without(ks, i), k)
    BY <1>1 DEF note_open_session_key, i
  <2> QED BY <2>2, <2>3, AppendElements
<1>2. CASE k \notin Elems(ks)
  <2> DEFINE a == Append(ks, k)
             r == LastN(a, setup.hintCap)
  <2>1. note_open_session_key(ks, k) = r
    BY <1>2 DEF note_open_session_key
  <2>2. a \in Seq(Configs) /\ Len(a) = Len(ks) + 1 /\ a[Len(a)] = k
    BY AppendElements
  <2>3. setup.hintCap \in Nat \ {0}
    BY DEF SetupType
  <2> HIDE DEF a
  <2>4. /\ r \in Seq(Configs) /\ Len(r) = IF Len(a) <= setup.hintCap THEN Len(a) ELSE setup.hintCap
        /\ \A j \in 1..Len(r) : r[j] = a[Len(a) - Len(r) + j]
    BY <2>2, <2>3, LastElements
  <2> HIDE DEF r
  <2>5. Len(ks) \in Nat /\ Len(r) >= 1 /\ Len(a) - Len(r) + Len(r) = Len(a)
    BY <2>2, <2>3, <2>4
  <2>6. r[Len(r)] = k
    BY <2>2, <2>4, <2>5
  <2> QED BY <2>1, <2>4, <2>5, <2>6
<1> QED BY <1>1, <1>2

\* The child moves a session it holds to the end, the parent the same key.
LEMMA SuffixMove ==
  ASSUME NEW ks \in Seq(Configs), NEW o \in Seq(SessionType), IsSuffix(ks, o),
         \A i, j \in 1..Len(o) : o[i].key = o[j].key => i = j,
         setup \in SetupType, Len(o) <= setup.hintCap,
         NEW i \in 1..Len(o), o[i].key \in Configs
  PROVE  IsSuffix(note_open_session_key(ks, o[i].key), Append(Without(o, i), o[i]))
<1> DEFINE k == o[i].key
           w == Without(o, i)
           q == Append(w, o[i])
           r == note_open_session_key(ks, k)
           m == Len(ks)
           n == Len(o)
<1>1. m \in Nat /\ n \in Nat /\ m <= n /\ \A j \in 1..m : ks[j] = o[n - m + j].key
  BY DEF IsSuffix
<1>2. /\ w \in Seq(SessionType) /\ Len(w) = n - 1
      /\ \A j \in 1..n - 1 : w[j] = IF j < i THEN o[j] ELSE o[j + 1]
  BY WithoutElements
<1>3. o[i] \in SessionType
  OBVIOUS
<1>4. /\ q \in Seq(SessionType) /\ Len(q) = n /\ q[n] = o[i]
      /\ \A j \in 1..n - 1 : q[j] = IF j < i THEN o[j] ELSE o[j + 1]
  <2> HIDE DEF w
  <2>1. /\ q \in Seq(SessionType) /\ Len(q) = Len(w) + 1 /\ q[Len(w) + 1] = o[i]
        /\ \A j \in 1..Len(w) : q[j] = w[j]
    BY <1>2, <1>3, AppendElements
  <2>2. Len(w) + 1 = n
    BY <1>1, <1>2
  <2> QED BY <1>2, <2>1, <2>2
<1> SUFFICES IsSuffix(r, q)
  OBVIOUS
<1> HIDE DEF w, q
<1>5. CASE k \in Elems(ks)
  <2> DEFINE p == CHOOSE j \in 1..Len(ks) : ks[j] = k
             v == Without(ks, p)
  <2>1. p \in 1..m /\ ks[p] = k
    BY <1>5 DEF Elems
  <2>2. r = Append(v, k)
    BY <1>5 DEF note_open_session_key
  <2> HIDE DEF p, r
  <2>3. i = n - m + p
    <3>1. n - m + p \in 1..n /\ o[n - m + p].key = o[i].key
      BY <1>1, <2>1
    <3> QED BY <3>1
  <2>4. /\ v \in Seq(Configs) /\ Len(v) = m - 1
        /\ \A j \in 1..m - 1 : v[j] = IF j < p THEN ks[j] ELSE ks[j + 1]
    BY <2>1, WithoutElements
  <2> HIDE DEF v
  <2>5. Len(r) = m /\ r[m] = k /\ \A j \in 1..m - 1 : r[j] = v[j]
    <3>1. Len(r) = Len(v) + 1 /\ r[Len(v) + 1] = k /\ \A j \in 1..Len(v) : r[j] = v[j]
      BY <2>2, <2>4, AppendElements
    <3>2. Len(v) + 1 = m
      BY <1>1, <2>4
    <3> QED BY <2>4, <3>1, <3>2
  <2>6. ASSUME NEW j \in 1..m PROVE r[j] = q[n - m + j].key
    <3>1. CASE j = m
      BY <1>1, <1>4, <2>5, <3>1
    <3>2. CASE j < m /\ j < p
      <4>1. n - m + j \in 1..n - 1 /\ n - m + j < i /\ j \in 1..m - 1
        BY <1>1, <2>1, <2>3, <3>2
      <4>2. q[n - m + j] = o[n - m + j] /\ r[j] = ks[j]
        BY <1>4, <2>4, <2>5, <3>2, <4>1
      <4> QED BY <1>1, <4>2
    <3>3. CASE j < m /\ ~(j < p)
      <4>1. /\ n - m + j \in 1..n - 1 /\ ~(n - m + j < i) /\ j \in 1..m - 1
            /\ (n - m + j) + 1 = n - m + (j + 1) /\ j + 1 \in 1..m
        <5> HIDE DEF n, m
        <5>1. m \in Nat /\ n \in Nat /\ m <= n /\ p \in 1..m /\ j \in 1..m /\ j < m
              /\ p <= j /\ i = n - m + p
          BY <1>1, <2>1, <2>3, <3>3
        <5> QED BY <5>1
      <4>2. q[n - m + j] = o[n - m + (j + 1)] /\ r[j] = ks[j + 1]
        BY <1>4, <2>4, <2>5, <3>3, <4>1
      <4> QED BY <1>1, <4>1, <4>2
    <3> QED BY <1>1, <3>1, <3>2, <3>3
  <2> QED BY <1>1, <1>4, <2>5, <2>6 DEF IsSuffix
<1>6. CASE k \notin Elems(ks)
  <2> DEFINE a == Append(ks, k)
  <2>1. i <= n - m
    <3>1. SUFFICES ASSUME i > n - m PROVE FALSE
      BY <1>1
    <3>2. i - (n - m) \in 1..m /\ n - m + (i - (n - m)) = i
      BY <1>1, <3>1
    <3>3. ks[i - (n - m)] = k
      BY <1>1, <3>2
    <3> QED BY <1>6, <3>2, <3>3 DEF Elems
  <2>2. m + 1 <= n
    BY <1>1, <2>1
  <2>3. k \in Configs
    OBVIOUS
  <2>4. Len(a) = m + 1 /\ a[m + 1] = k /\ \A j \in 1..m : a[j] = ks[j]
    BY <2>3, AppendElements
  <2>5. r = LastN(a, setup.hintCap)
    BY <1>6 DEF note_open_session_key
  <2>6. setup.hintCap \in Nat
    BY DEF SetupType
  <2> HIDE DEF a, r
  <2>7. r = a
    <3>1. Len(a) <= setup.hintCap
      BY <1>1, <2>2, <2>4, <2>6
    <3> QED BY <2>5, <3>1 DEF LastN
  <2>8. ASSUME NEW j \in 1..m + 1 PROVE r[j] = q[n - (m + 1) + j].key
    <3>1. CASE j = m + 1
      <4>1. n - (m + 1) + j = n
        BY <1>1, <3>1
      <4> QED BY <1>4, <2>4, <2>7, <3>1, <4>1
    <3>2. CASE j <= m
      <4>1. /\ n - (m + 1) + j \in 1..n - 1 /\ ~(n - (m + 1) + j < i) /\ j \in 1..m
            /\ (n - (m + 1) + j) + 1 = n - m + j
        BY <1>1, <2>1, <2>2, <3>2
      <4>2. q[n - (m + 1) + j] = o[n - m + j] /\ r[j] = ks[j]
        BY <1>4, <2>4, <2>7, <4>1
      <4> QED BY <1>1, <4>1, <4>2
    <3> QED BY <1>1, <3>1, <3>2
  <2> QED BY <1>1, <1>4, <2>2, <2>4, <2>7, <2>8 DEF IsSuffix
<1> QED BY <1>5, <1>6

\* The child imports what neither end lists, both drop from the front.
LEMMA SuffixMiss ==
  ASSUME NEW ks \in Seq(Configs), NEW o \in Seq(SessionType), IsSuffix(ks, o),
         setup \in SetupType, setup.hintCap = setup.poolCap, Len(o) <= setup.poolCap,
         NEW new \in SessionType, new.key \in Configs,
         \A i \in 1..Len(o) : o[i].key # new.key
  PROVE  IsSuffix(note_open_session_key(ks, new.key),
                  Append(LastN(o, setup.poolCap - 1), new))
<1> DEFINE k == new.key
           cap == setup.poolCap
           m == Len(ks)
           n == Len(o)
           a == Append(ks, k)
           r == note_open_session_key(ks, k)
           l == LastN(o, cap - 1)
           q == Append(l, new)
<1>1. m \in Nat /\ n \in Nat /\ m <= n /\ \A j \in 1..m : ks[j] = o[n - m + j].key
  BY DEF IsSuffix
<1>2. cap \in Nat \ {0} /\ cap - 1 \in Nat
  BY DEF SetupType
<1>3. k \notin Elems(ks)
  <2>1. ASSUME NEW j \in 1..m PROVE ks[j] # k
    <3>1. n - m + j \in 1..n /\ ks[j] = o[n - m + j].key
      BY <1>1
    <3> QED BY <3>1
  <2> QED BY <2>1 DEF Elems
<1>4. r = LastN(a, cap)
  BY <1>3 DEF note_open_session_key
<1>5. a \in Seq(Configs) /\ Len(a) = m + 1 /\ a[m + 1] = k /\ \A j \in 1..m : a[j] = ks[j]
  BY AppendElements
<1> HIDE DEF a
<1>6. /\ Len(LastN(a, cap)) = IF m + 1 <= cap THEN m + 1 ELSE cap
      /\ \A j \in 1..Len(LastN(a, cap)) :
            LastN(a, cap)[j] = a[(m + 1) - Len(LastN(a, cap)) + j]
  <2> HIDE DEF cap, m
  <2>1. a \in Seq(Configs) /\ cap \in Nat /\ Len(a) = m + 1
    BY <1>2, <1>5
  <2>2. /\ Len(LastN(a, cap)) = IF Len(a) <= cap THEN Len(a) ELSE cap
        /\ \A j \in 1..Len(LastN(a, cap)) :
              LastN(a, cap)[j] = a[Len(a) - Len(LastN(a, cap)) + j]
    BY <2>1, LastElements
  <2> QED BY <2>1, <2>2
<1> HIDE DEF r
<1>7. /\ l \in Seq(SessionType) /\ Len(l) = IF n <= cap - 1 THEN n ELSE cap - 1
      /\ \A j \in 1..Len(l) : l[j] = o[n - Len(l) + j]
  BY <1>2, LastElements
<1> HIDE DEF l
<1>8. /\ Len(q) = Len(l) + 1 /\ q[Len(l) + 1] = new
      /\ \A j \in 1..Len(l) : q[j] = l[j]
  BY <1>7, AppendElements
<1> HIDE DEF q
<1> DEFINE x == Len(r)
           y == Len(l)
<1>9. x \in Nat /\ y \in Nat /\ 1 <= x /\ x <= y + 1 /\ x <= m + 1 /\ n <= cap
  BY <1>1, <1>2, <1>4, <1>6, <1>7
<1>10. ASSUME NEW j \in 1..x PROVE r[j] = q[(y + 1) - x + j].key
  <2>1. r[j] = a[(m + 1) - x + j]
    BY <1>4, <1>6
  <2>2. CASE j = x
    <3>1. (m + 1) - x + j = m + 1 /\ (y + 1) - x + j = y + 1
      BY <1>1, <1>9, <2>2
    <3> QED BY <1>5, <1>8, <2>1, <3>1
  <2>3. CASE j < x
    <3>1. /\ (m + 1) - x + j \in 1..m /\ (y + 1) - x + j \in 1..y
          /\ n - m + ((m + 1) - x + j) = n - y + ((y + 1) - x + j)
      BY <1>1, <1>9, <2>3
    <3>2. q[(y + 1) - x + j] = o[n - y + ((y + 1) - x + j)]
      BY <1>7, <1>8, <3>1
    <3>3. r[j] = ks[(m + 1) - x + j]
      BY <1>5, <2>1, <3>1
    <3> QED BY <1>1, <3>1, <3>2, <3>3
  <2> QED BY <1>9, <2>2, <2>3
<1>11. IsSuffix(r, q)
  BY <1>8, <1>9, <1>10 DEF IsSuffix
<1> QED BY <1>11 DEF r, q, l

-----------------------------------------------------------------------------

\* What the child may hold: its current session c, the parked ones r and the
\* snapshots sn, at registry epoch ep.  It holds for a pool within its
\* capacity, of one environment per key, none of them stale.
GoodPool(c, r, sn, ep) ==
  /\ c \in SessionType /\ r \in Seq(SessionType)
  /\ sn \subseteq [key : Configs \cup {NoConfig}, env : Nat]
  /\ c # NoSession => c.key \in Configs /\ c.stamp = ep
  /\ \A i \in 1..Len(r) : r[i].key \in Configs /\ r[i].stamp = ep /\ r[i].key # c.key
  /\ \A i, j \in 1..Len(r) : r[i].key = r[j].key => i = j
  /\ Len(r) <= IF c = NoSession THEN setup.poolCap ELSE setup.poolCap - 1
  /\ \A e \in sn : \/ c # NoSession /\ c.key = e.key /\ c.env = e.env
                   \/ \E i \in 1..Len(r) : r[i].key = e.key /\ r[i].env = e.env

\* The recency order of such a pool.
LEMMA OrderOf ==
  ASSUME NEW c, NEW r, NEW sn, NEW ep, GoodPool(c, r, sn, ep), setup \in SetupType
  PROVE  LET o == Parked([cur |-> c, rest |-> r, snaps |-> sn]) IN
         /\ o \in Seq(SessionType) /\ Len(o) <= setup.poolCap
         /\ Len(o) = IF c = NoSession THEN Len(r) ELSE Len(r) + 1
         /\ \A i \in 1..Len(r) : o[i] = r[i]
         /\ c # NoSession => o[Len(r) + 1] = c
         /\ \A i \in 1..Len(o) : o[i].key \in Configs /\ o[i].stamp = ep
         /\ \A i, j \in 1..Len(o) : o[i].key = o[j].key => i = j
         /\ \A e \in sn : \E i \in 1..Len(o) : o[i].key = e.key /\ o[i].env = e.env
<1> DEFINE o == Parked([cur |-> c, rest |-> r, snaps |-> sn])
<1>1. r \in Seq(SessionType) /\ c \in SessionType /\ Len(r) \in Nat /\ setup.poolCap \in Nat \ {0}
  BY DEF GoodPool, SetupType
<1>2. CASE c = NoSession
  <2>1. o = r
    BY <1>2 DEF Parked
  <2> QED BY <1>1, <1>2, <2>1 DEF GoodPool
<1>3. CASE c # NoSession
  <2>1. o = Append(r, c)
    BY <1>3 DEF Parked
  <2> HIDE DEF o
  <2>2. /\ o \in Seq(SessionType) /\ Len(o) = Len(r) + 1
        /\ \A i \in 1..Len(r) : o[i] = r[i]
        /\ o[Len(r) + 1] = c
    BY <1>1, <2>1, AppendElements
  <2>3. \A i \in 1..Len(o) : i \in 1..Len(r) \/ i = Len(r) + 1
    BY <1>1, <2>2
  <2>4. \A i \in 1..Len(o) : o[i].key \in Configs /\ o[i].stamp = ep
    BY <1>3, <2>2, <2>3 DEF GoodPool
  <2>5. \A i, j \in 1..Len(o) : o[i].key = o[j].key => i = j
    BY <1>3, <2>2, <2>3 DEF GoodPool
  <2>6. Len(o) <= setup.poolCap
    BY <1>1, <1>3, <2>2 DEF GoodPool
  <2>7. \A e \in sn : \E i \in 1..Len(o) : o[i].key = e.key /\ o[i].env = e.env
    <3> TAKE e \in sn
    <3>1. CASE c.key = e.key /\ c.env = e.env
      <4>1. Len(r) + 1 \in 1..Len(o)
        BY <1>1, <2>2
      <4> QED BY <2>2, <3>1, <4>1
    <3>2. CASE \E i \in 1..Len(r) : r[i].key = e.key /\ r[i].env = e.env
      <4>1. \A i \in 1..Len(r) : i \in 1..Len(o)
        BY <1>1, <2>2
      <4> QED BY <2>2, <3>2, <4>1
    <3> QED BY <3>1, <3>2 DEF GoodPool
  <2> QED BY <1>3, <2>2, <2>4, <2>5, <2>6, <2>7 DEF o
<1> QED BY <1>2, <1>3

\* A sweep at the epoch of the sessions finds nothing; at any other, a failed
\* read included, it leaves nothing.
LEMMA SweepNothing ==
  ASSUME NEW c, NEW r, NEW sn, NEW ep, GoodPool(c, r, sn, ep)
  PROVE  LET p == [cur |-> c, rest |-> r, snaps |-> sn] IN evict_stale(p, ep) = p
BY DEF evict_stale, Stale, GoodPool

EmptyPool == [cur |-> NoSession, rest |-> <<>>, snaps |-> {}]

\* A sweep at another epoch, a failed read's included, empties the pool.
LEMMA SweepAll ==
  ASSUME NEW c, NEW r, NEW sn, NEW ep, GoodPool(c, r, sn, ep), NEW live, live # ep,
         ReuseAssumption
  PROVE  evict_stale([cur |-> c, rest |-> r, snaps |-> sn], live) = EmptyPool
<1> DEFINE p == [cur |-> c, rest |-> r, snaps |-> sn]
<1>1. NoSession.key = NoConfig /\ NoConfig \notin Configs
  BY ReuseAssumption DEF NoSession
<1>2. \A i \in 1..Len(r) : Stale(r[i], live)
  BY <1>1 DEF Stale, GoodPool
<1>3. c # NoSession => Stale(c, live)
  BY DEF Stale, GoodPool
<1>4. CASE c = NoSession /\ Len(r) = 0
  <2>1. r = <<>> /\ sn = {}
    BY <1>4 DEF GoodPool
  <2>2. ~Stale(c, live) /\ ~\E i \in 1..Len(r) : Stale(r[i], live)
    BY <1>4 DEF Stale
  <2>3. evict_stale(p, live) = p
    BY <2>2 DEF evict_stale
  <2> QED BY <1>4, <2>1, <2>3 DEF EmptyPool
<1>5. CASE ~(c = NoSession /\ Len(r) = 0)
  <2>1. r \in Seq(SessionType) /\ Len(r) \in Nat
    BY DEF GoodPool
  <2>2. Stale(c, live) \/ \E i \in 1..Len(r) : Stale(r[i], live)
    <3>1. CASE c # NoSession
      BY <1>3, <3>1
    <3>2. CASE Len(r) # 0
      <4>1. 1 \in 1..Len(r)
        BY <2>1, <3>2
      <4> QED BY <1>2, <4>1
    <3> QED BY <1>5, <3>1, <3>2
  <2>3. Retained(r, live) = <<>>
    BY <1>2, <2>1, RetainedNone
  <2>4. (IF Stale(c, live) THEN NoSession ELSE c) = NoSession
    BY <1>3
  <2>5. evict_stale(p, live) = [cur |-> NoSession, rest |-> <<>>, snaps |-> {}]
    BY <2>2, <2>3, <2>4 DEF evict_stale
  <2> QED BY <2>5 DEF EmptyPool
<1> QED BY <1>4, <1>5

\* The pool of a new child is in order.
LEMMA EmptyPoolGood ==
  ASSUME NEW ep \in Nat, setup \in SetupType
  PROVE  GoodPool(NoSession, <<>>, {}, ep)
BY DEF GoodPool, SessionType, NoSession, SetupType

\* A reused parked session changes places with the current one.
LEMMA SwapGood ==
  ASSUME GoodPool(current, parked, cache, epoch), NEW i \in 1..Len(parked),
         setup \in SetupType, ReuseAssumption, NEW w, w = Without(parked, i),
         NEW q, q = IF current = NoSession THEN w ELSE Append(w, current)
  PROVE  /\ GoodPool(parked[i], q, cache, epoch) /\ parked[i] # NoSession
         /\ Parked([cur |-> parked[i], rest |-> q, snaps |-> cache])
              = Append(Without(Parked([cur |-> current, rest |-> parked, snaps |-> cache]), i), parked[i])
<1> DEFINE o == Parked([cur |-> current, rest |-> parked, snaps |-> cache])
           n == Len(parked)
<1>1. /\ parked \in Seq(SessionType) /\ current \in SessionType /\ n \in Nat
      /\ setup.poolCap \in Nat \ {0} /\ NoConfig \notin Configs /\ NoSession.key = NoConfig
  BY ReuseAssumption DEF GoodPool, SetupType, NoSession
<1>2. /\ w \in Seq(SessionType) /\ Len(w) = n - 1
      /\ \A j \in 1..n - 1 : w[j] = IF j < i THEN parked[j] ELSE parked[j + 1]
  BY <1>1, WithoutElements
<1> DEFINE old(j) == IF j < i THEN j ELSE j + 1
<1>3. \A j \in 1..n - 1 : /\ old(j) \in 1..n /\ old(j) # i /\ w[j] = parked[old(j)]
  BY <1>1, <1>2
<1>4. \A j, k \in 1..n - 1 : old(j) = old(k) => j = k
  BY <1>1
<1>5. \A k \in 1..n : k # i => \E j \in 1..n - 1 : old(j) = k
  <2> TAKE k \in 1..n
  <2> HAVE k # i
  <2>1. CASE k < i
    <3>1. k \in 1..n - 1 /\ old(k) = k
      BY <1>1, <2>1
    <3> QED BY <3>1
  <2>2. CASE k > i
    <3>1. k - 1 \in 1..n - 1 /\ old(k - 1) = k
      BY <1>1, <2>2
    <3> QED BY <3>1
  <2> QED BY <1>1, <2>1, <2>2
<1> HIDE DEF old
<1>6. parked[i] # NoSession /\ parked[i] \in SessionType /\ parked[i].key \in Configs /\ parked[i].stamp = epoch
  BY <1>1 DEF GoodPool
<1>7. /\ q \in Seq(SessionType)
      /\ Len(q) = IF current = NoSession THEN n - 1 ELSE n
      /\ \A j \in 1..n - 1 : q[j] = w[j]
      /\ current # NoSession => q[n] = current
  <2>1. CASE current = NoSession
    BY <1>2, <2>1
  <2>2. CASE current # NoSession
    <3>1. q = Append(w, current)
      BY <2>2
    <3>2. /\ q \in Seq(SessionType) /\ Len(q) = Len(w) + 1 /\ q[Len(w) + 1] = current
          /\ \A j \in 1..Len(w) : q[j] = w[j]
      BY <1>1, <1>2, <3>1, AppendElements
    <3>3. Len(w) + 1 = n
      BY <1>1, <1>2
    <3> QED BY <1>2, <2>2, <3>2, <3>3
  <2> QED BY <2>1, <2>2
<1>8. \A j \in 1..Len(q) : j \in 1..n - 1 \/ (current # NoSession /\ j = n)
  BY <1>1, <1>7
<1>9. \A j \in 1..Len(q) : q[j].key \in Configs /\ q[j].stamp = epoch /\ q[j].key # parked[i].key
  <2> TAKE j \in 1..Len(q)
  <2>1. CASE j \in 1..n - 1
    <3>1. q[j] = parked[old(j)] /\ old(j) \in 1..n /\ old(j) # i
      BY <1>3, <1>7, <2>1
    <3> QED BY <3>1 DEF GoodPool
  <2>2. CASE current # NoSession /\ j = n
    BY <1>7, <2>2 DEF GoodPool
  <2> QED BY <1>8, <2>1, <2>2
<1>10. \A j, k \in 1..Len(q) : q[j].key = q[k].key => j = k
  <2> TAKE j, k \in 1..Len(q)
  <2> HAVE q[j].key = q[k].key
  <2>1. CASE j \in 1..n - 1 /\ k \in 1..n - 1
    <3>1. q[j] = parked[old(j)] /\ q[k] = parked[old(k)] /\ old(j) \in 1..n /\ old(k) \in 1..n
      BY <1>3, <1>7, <2>1
    <3>2. old(j) = old(k)
      BY <3>1 DEF GoodPool
    <3> QED BY <1>4, <2>1, <3>2
  <2>2. CASE current # NoSession /\ j = n /\ k \in 1..n - 1
    BY <1>3, <1>7, <2>2 DEF GoodPool
  <2>3. CASE current # NoSession /\ k = n /\ j \in 1..n - 1
    BY <1>3, <1>7, <2>3 DEF GoodPool
  <2> QED BY <1>8, <2>1, <2>2, <2>3
<1>11. \A e \in cache : \/ parked[i].key = e.key /\ parked[i].env = e.env
                     \/ \E j \in 1..Len(q) : q[j].key = e.key /\ q[j].env = e.env
  <2> TAKE e \in cache
  <2>1. CASE current # NoSession /\ current.key = e.key /\ current.env = e.env
    <3>1. n \in 1..Len(q) /\ q[n] = current
      BY <1>1, <1>7, <2>1
    <3> QED BY <2>1, <3>1
  <2>2. ASSUME NEW k \in 1..n, parked[k].key = e.key /\ parked[k].env = e.env
        PROVE  \/ parked[i].key = e.key /\ parked[i].env = e.env
               \/ \E j \in 1..Len(q) : q[j].key = e.key /\ q[j].env = e.env
    <3>1. CASE k = i
      BY <2>2, <3>1
    <3>2. CASE k # i
      <4>1. PICK j \in 1..n - 1 : old(j) = k
        BY <1>5, <3>2
      <4>2. j \in 1..Len(q) /\ q[j] = parked[k]
        BY <1>1, <1>3, <1>7, <4>1
      <4> QED BY <2>2, <4>2
    <3> QED BY <3>1, <3>2
  <2> QED BY <2>1, <2>2 DEF GoodPool
<1>12. Len(q) <= setup.poolCap - 1
  BY <1>1, <1>7 DEF GoodPool
<1>13. GoodPool(parked[i], q, cache, epoch)
  <2>1. cache \subseteq [key : Configs \cup {NoConfig}, env : Nat]
    BY DEF GoodPool
  <2> QED BY <1>6, <1>7, <1>9, <1>10, <1>11, <1>12, <2>1 DEF GoodPool
<1>14. Parked([cur |-> parked[i], rest |-> q, snaps |-> cache]) = Append(q, parked[i])
  BY <1>6 DEF Parked
<1>15. q = Without(o, i)
  <2>1. CASE current = NoSession
    BY <2>1 DEF Parked
  <2>2. CASE current # NoSession
    <3>1. o = Append(parked, current)
      BY <2>2 DEF Parked
    <3> HIDE DEF o
    <3>2. /\ o \in Seq(SessionType) /\ Len(o) = n + 1 /\ o[n + 1] = current
          /\ \A j \in 1..n : o[j] = parked[j]
      BY <1>1, <3>1, AppendElements
    <3>3. i \in 1..Len(o)
      BY <1>1, <3>2
    <3> DEFINE z == Without(o, i)
    <3>4. /\ z \in Seq(SessionType) /\ Len(z) = Len(o) - 1
          /\ \A j \in 1..Len(o) - 1 : z[j] = IF j < i THEN o[j] ELSE o[j + 1]
      BY <3>2, <3>3, WithoutElements
    <3> HIDE DEF z
    <3>5. Len(z) = n
      BY <1>1, <3>2, <3>4
    <3>6. ASSUME NEW j \in 1..n PROVE z[j] = q[j]
      <4>1. CASE j = n
        <5>1. z[n] = o[n + 1]
          BY <1>1, <3>2, <3>4, <4>1
        <5> QED BY <1>7, <2>2, <3>2, <4>1, <5>1
      <4>2. CASE j \in 1..n - 1 /\ j < i
        BY <1>1, <1>2, <1>7, <3>2, <3>4, <4>2
      <4>3. CASE j \in 1..n - 1 /\ ~(j < i)
        <5>1. j \in 1..Len(o) - 1 /\ j + 1 \in 1..n
          BY <1>1, <3>2, <4>3
        <5>2. z[j] = o[j + 1] /\ q[j] = parked[j + 1]
          BY <1>2, <1>7, <3>4, <4>3, <5>1
        <5> QED BY <3>2, <5>1, <5>2
      <4>4. j = n \/ j \in 1..n - 1
        BY <1>1
      <4> QED BY <4>1, <4>2, <4>3, <4>4
    <3>7. Len(q) = n
      BY <1>7, <2>2
    <3>8. z = q
      BY <1>7, <3>4, <3>5, <3>6, <3>7
    <3> QED BY <3>8 DEF z
  <2> QED BY <2>1, <2>2
<1> QED BY <1>6, <1>13, <1>14, <1>15

\* What a miss leaves before the import: room for one session, and only
\* snapshots of environments that stay.
LEMMA MissGood ==
  ASSUME NEW c, NEW r, NEW sn, NEW ep, GoodPool(c, r, sn, ep),
         Misses([cur |-> c, rest |-> r, snaps |-> sn]),
         setup \in SetupType, ReuseAssumption, wanted \in Configs
  PROVE  LET m == MissedPool([cur |-> c, rest |-> r, snaps |-> sn]) IN
         /\ m = [cur |-> NoSession, rest |-> m.rest, snaps |-> m.snaps]
         /\ GoodPool(NoSession, m.rest, m.snaps, ep)
         /\ Len(m.rest) <= setup.poolCap - 1
         /\ \A i \in 1..Len(m.rest) : m.rest[i].key # wanted
         /\ setup.pooled =>
               m.rest = LastN(Parked([cur |-> c, rest |-> r, snaps |-> sn]), setup.poolCap - 1)
<1> DEFINE p == [cur |-> c, rest |-> r, snaps |-> sn]
           m == MissedPool(p)
           o == Parked(p)
           cap == setup.poolCap
<1>1. cap \in Nat \ {0} /\ cap - 1 \in Nat /\ NoConfig \notin Configs /\ NoSession.key = NoConfig
      /\ NoSession \in SessionType
  BY ReuseAssumption DEF SetupType, NoSession, SessionType
<1>2. CASE ~setup.pooled
  <2>1. m = [cur |-> NoSession, rest |-> <<>>, snaps |-> {}]
    BY <1>2 DEF MissedPool
  <2>2. GoodPool(NoSession, <<>>, {}, ep)
    BY <1>1 DEF GoodPool
  <2>3. Len(<<>>) <= cap - 1
    BY <1>1
  <2> HIDE DEF m
  <2>4. m.rest = <<>> /\ m.snaps = {} /\ \A i \in 1..Len(<<>>) : FALSE
    BY <2>1
  <2>5. \A i \in 1..Len(m.rest) : m.rest[i].key # wanted
    BY <2>4
  <2> QED BY <1>2, <2>1, <2>2, <2>3, <2>4, <2>5 DEF m
<1>3. CASE setup.pooled
  <2> DEFINE l == LastN(o, cap - 1)
             sl == IF Len(o) >= cap THEN {} ELSE sn
  <2>1. m = [cur |-> NoSession, rest |-> l, snaps |-> sl]
    BY <1>3 DEF MissedPool, MissPool
  <2>2. /\ o \in Seq(SessionType) /\ Len(o) <= cap
        /\ \A i \in 1..Len(o) : o[i].key \in Configs /\ o[i].stamp = ep
        /\ \A i, j \in 1..Len(o) : o[i].key = o[j].key => i = j
        /\ \A e \in sn : \E i \in 1..Len(o) : o[i].key = e.key /\ o[i].env = e.env
    <3>1. o = Parked([cur |-> c, rest |-> r, snaps |-> sn])
      OBVIOUS
    <3>2. setup \in SetupType /\ GoodPool(c, r, sn, ep)
      OBVIOUS
    <3> HIDE DEF o, cap
    <3>3. o \in Seq(SessionType) /\ Len(o) <= setup.poolCap
      BY <3>1, <3>2, OrderOf
    <3>4. \A i \in 1..Len(o) : o[i].key \in Configs /\ o[i].stamp = ep
      BY <3>1, <3>2, OrderOf
    <3>5. \A i, j \in 1..Len(o) : o[i].key = o[j].key => i = j
      BY <3>1, <3>2, OrderOf
    <3>6. \A e \in sn : \E i \in 1..Len(o) : o[i].key = e.key /\ o[i].env = e.env
      BY <3>1, <3>2, OrderOf
    <3> QED BY <3>3, <3>4, <3>5, <3>6 DEF cap
  <2>3. \A i \in 1..Len(o) : o[i].key # wanted
    <3>1. \A i \in 1..Len(r) : r[i].key # wanted
      BY <1>3 DEF Misses
    <3>2. c.key # wanted
      BY <1>3 DEF Misses
    <3>3. CASE c = NoSession
      BY <3>1, <3>3 DEF Parked
    <3>4. CASE c # NoSession
      <4>1. r \in Seq(SessionType) /\ Len(o) = Len(r) + 1 /\ o[Len(r) + 1] = c
            /\ \A i \in 1..Len(r) : o[i] = r[i]
        <5>1. r \in Seq(SessionType) /\ c \in SessionType
          BY DEF GoodPool
        <5>2. o = Append(r, c)
          BY <3>4 DEF Parked
        <5> HIDE DEF o
        <5> QED BY <5>1, <5>2, AppendElements
      <4> HIDE DEF o
      <4>2. \A i \in 1..Len(o) : i \in 1..Len(r) \/ i = Len(r) + 1
        BY <4>1
      <4> QED BY <3>1, <3>2, <4>1, <4>2
    <3> QED BY <3>3, <3>4
  <2> HIDE DEF o, m
  <2>4. /\ l \in Seq(SessionType) /\ Len(l) = IF Len(o) <= cap - 1 THEN Len(o) ELSE cap - 1
        /\ \A j \in 1..Len(l) : l[j] = o[Len(o) - Len(l) + j]
    <3>1. l = LastN(o, cap - 1)
      OBVIOUS
    <3> HIDE DEF l
    <3>2. cap - 1 \in Nat /\ o \in Seq(SessionType)
      BY <1>1, <2>2
    <3> HIDE DEF cap
    <3> DEFINE d == cap - 1
    <3>3. d \in Nat /\ l = LastN(o, d)
      BY <3>1, <3>2
    <3> HIDE DEF d
    <3>4. /\ l \in Seq(SessionType) /\ Len(l) = IF Len(o) <= d THEN Len(o) ELSE d
          /\ \A j \in 1..Len(l) : l[j] = o[Len(o) - Len(l) + j]
      BY <3>2, <3>3, LastElements
    <3> QED BY <3>4 DEF d
  <2>5. Len(o) < cap => l = o
    BY <1>1, <2>2 DEF LastN
  <2> HIDE DEF l
  <2>6. \A j \in 1..Len(l) : Len(o) - Len(l) + j \in 1..Len(o)
    BY <1>1, <2>2, <2>4
  <2>7. \A j \in 1..Len(l) : l[j].key \in Configs /\ l[j].stamp = ep /\ l[j].key # wanted
    BY <2>2, <2>3, <2>4, <2>6
  <2>8. \A i, j \in 1..Len(l) : l[i].key = l[j].key => i = j
    <3> TAKE i, j \in 1..Len(l)
    <3> HAVE l[i].key = l[j].key
    <3>0. o[Len(o) - Len(l) + i].key = o[Len(o) - Len(l) + j].key
      BY <2>4
    <3>1. Len(o) - Len(l) + i = Len(o) - Len(l) + j
      BY <2>2, <2>6, <3>0
    <3> QED BY <2>2, <2>4, <3>1
  <2>9. \A e \in sl : \E i \in 1..Len(l) : l[i].key = e.key /\ l[i].env = e.env
    <3>1. CASE Len(o) >= cap
      BY <3>1
    <3>2. CASE ~(Len(o) >= cap)
      <4>1. l = o /\ sl = sn
        BY <1>1, <2>2, <2>5, <3>2
      <4> QED BY <2>2, <4>1
    <3> QED BY <3>1, <3>2
  <2>10. sl \subseteq [key : Configs \cup {NoConfig}, env : Nat]
    BY DEF GoodPool
  <2>11. Len(l) <= cap - 1
    BY <1>1, <2>2, <2>4
  <2> HIDE DEF sl
  <2>12. GoodPool(NoSession, l, sl, ep)
    <3>1. Len(l) <= cap /\ \A j \in 1..Len(l) : l[j].key # NoSession.key
      BY <1>1, <2>4, <2>7, <2>11
    <3> QED BY <1>1, <2>4, <2>7, <2>8, <2>9, <2>10, <3>1 DEF GoodPool
  <2>13. m.rest = l /\ m.snaps = sl
    BY <2>1
  <2> QED BY <2>1, <2>7, <2>11, <2>12, <2>13 DEF l, m, o
<1> QED BY <1>2, <1>3

\* The imported session takes its place there.
LEMMA ImportGood ==
  ASSUME NEW r, NEW sn, NEW ep, GoodPool(NoSession, r, sn, ep), Len(r) <= setup.poolCap - 1,
         NEW new \in SessionType, new.key \in Configs, new.stamp = ep,
         \A i \in 1..Len(r) : r[i].key # new.key, ReuseAssumption
  PROVE  GoodPool(new, r, sn, ep) /\ new # NoSession
<1>1. new # NoSession
  BY ReuseAssumption DEF NoSession
<1> QED BY <1>1 DEF GoodPool

\* An import that registers an extension makes all others stale: the sweep
\* leaves the new session alone.
LEMMA SweepOthers ==
  ASSUME NEW r, NEW sn, NEW ep, GoodPool(NoSession, r, sn, ep), setup \in SetupType,
         NEW new \in SessionType, new.key \in Configs, new.stamp # ep, ReuseAssumption
  PROVE  LET p == evict_stale([cur |-> new, rest |-> r, snaps |-> sn], new.stamp) IN
         /\ p = [cur |-> new, rest |-> <<>>, snaps |-> {}]
         /\ GoodPool(new, <<>>, {}, new.stamp)
<1> DEFINE p == [cur |-> new, rest |-> r, snaps |-> sn]
<1>1. NoConfig \notin Configs /\ NoSession.key = NoConfig /\ r \in Seq(SessionType) /\ Len(r) \in Nat
      /\ setup.poolCap \in Nat \ {0}
  BY ReuseAssumption DEF NoSession, GoodPool, SetupType
<1>2. ~Stale(new, new.stamp)
  BY DEF Stale
<1>3. \A i \in 1..Len(r) : Stale(r[i], new.stamp)
  BY <1>1 DEF Stale, GoodPool
<1>4. evict_stale(p, new.stamp) = [cur |-> new, rest |-> <<>>, snaps |-> {}]
  <2>1. CASE Len(r) = 0
    <3>1. r = <<>> /\ sn = {}
      BY <1>1, <2>1 DEF GoodPool
    <3>2. evict_stale(p, new.stamp) = p
      BY <1>2, <2>1 DEF evict_stale
    <3> QED BY <3>1, <3>2
  <2>2. CASE Len(r) # 0
    <3>1. 1 \in 1..Len(r)
      BY <1>1, <2>2
    <3>2. Retained(r, new.stamp) = <<>>
      BY <1>1, <1>3, RetainedNone
    <3>3. (IF Stale(new, new.stamp) THEN NoSession ELSE new) = new
      BY <1>2
    <3>4. \E i \in 1..Len(r) : Stale(r[i], new.stamp)
      BY <1>3, <3>1
    <3> QED BY <3>2, <3>3, <3>4 DEF evict_stale
  <2> QED BY <2>1, <2>2
<1>5. GoodPool(new, <<>>, {}, new.stamp)
  BY <1>1 DEF GoodPool
<1> QED BY <1>4, <1>5

\* After an import whose sweep could not read the epoch nothing is left.
LEMMA SweepUnread ==
  ASSUME NEW r, NEW sn, NEW ep \in Nat, GoodPool(NoSession, r, sn, ep), setup \in SetupType,
         NEW new \in SessionType, new.key \in Configs, NEW live, new.stamp # live, ep # live,
         ReuseAssumption
  PROVE  evict_stale([cur |-> new, rest |-> r, snaps |-> sn], live) = EmptyPool
<1> DEFINE p == [cur |-> new, rest |-> r, snaps |-> sn]
<1>1. NoConfig \notin Configs /\ NoSession.key = NoConfig /\ r \in Seq(SessionType)
  BY ReuseAssumption DEF NoSession, GoodPool
<1>2. Stale(new, live)
  BY <1>1 DEF Stale
<1>3. \A i \in 1..Len(r) : Stale(r[i], live)
  BY <1>1 DEF Stale, GoodPool
<1>4. Retained(r, live) = <<>>
  BY <1>1, <1>3, RetainedNone
<1>5. (IF Stale(new, live) THEN NoSession ELSE new) = NoSession
  BY <1>2
<1>6. evict_stale(p, live) = [cur |-> NoSession, rest |-> <<>>, snaps |-> {}]
  BY <1>2, <1>4, <1>5 DEF evict_stale
<1> QED BY <1>6 DEF EmptyPool

-----------------------------------------------------------------------------

\* After an answered open of a pooled child the most recent key the parent
\* listed is the child's current session, so an import of that key can only
\* come from a binary without a pool.
RecentIsCurrent ==
  alive /\ setup.pooled /\ ~setup.epochFails /\ keys # <<>>
    => current.key = keys[Len(keys)]

\* The inductive invariant behind the agreement of both ends.
PoolInv ==
  /\ ReuseTypeOK /\ epoch <= MaxEpoch
  /\ openStep # "ready" => wanted \in Configs
  /\ GoodPool(current, parked, cache, epoch)
  /\ HintIsSuffix /\ PooledChildKeepsHint /\ RecentIsCurrent
-----------------------------------------------------------------------------

\* The open in progress and the counter of calls keep their types.
OpenTyped ==
  /\ openStep \in {"ready", "prepare", "send"} /\ wanted \in Configs \cup {NoConfig}
  /\ before \in Nat /\ expect \in BOOLEAN /\ turns \in Nat
  /\ openStep # "ready" => wanted \in Configs

\* The types of the parent's fields.
FieldsTyped ==
  /\ budget \in [requests : Nat, imports : Nat, residue : Nat]
  /\ hint \in BOOLEAN /\ observed \in BOOLEAN /\ pending \in BOOLEAN /\ alive \in BOOLEAN
  /\ restarts \in Nat /\ past \in Nat

\* The list of keys is a suffix of every order when it is empty.
LEMMA EmptyIsSuffix ==
  ASSUME NEW o \in Seq(SessionType)
  PROVE  IsSuffix(<<>>, o)
BY DEF IsSuffix

\* The invariant as each step re-establishes it.
LEMMA PoolInvFrom ==
  ASSUME OpenTyped, FieldsTyped, setup \in Setups, keys \in Seq(Configs), epoch \in Nat,
         epoch <= MaxEpoch, envs \in Nat, GoodPool(current, parked, cache, epoch),
         HintIsSuffix, PooledChildKeepsHint, RecentIsCurrent
  PROVE  PoolInv
BY DEF PoolInv, ReuseTypeOK, OpenTyped, FieldsTyped, GoodPool

\* What the steps use of it.
LEMMA PoolInvGives ==
  ASSUME PoolInv
  PROVE  /\ OpenTyped /\ FieldsTyped /\ setup \in Setups /\ keys \in Seq(Configs)
         /\ epoch \in Nat /\ envs \in Nat
         /\ setup \in SetupType /\ PoolOrder \in Seq(SessionType)
<1>1. /\ OpenTyped /\ FieldsTyped /\ setup \in Setups /\ keys \in Seq(Configs)
      /\ epoch \in Nat /\ envs \in Nat /\ setup \in SetupType
  BY ReuseAssumption DEF PoolInv, ReuseTypeOK, OpenTyped, FieldsTyped
<1>2. GoodPool(current, parked, cache, epoch)
  BY DEF PoolInv
<1>3. PoolOrder \in Seq(SessionType)
  BY <1>1, <1>2, OrderOf DEF PoolOrder, Pool
<1> QED BY <1>1, <1>3

\* A new child and a new parent agree.
LEMMA RestartKeepsPool ==
  ASSUME PoolInv, Restart, OpenTyped'
  PROVE  PoolInv'
<1> USE DEF Restart, FreshParent, FreshChild
<1>1. /\ setup' = setup /\ setup \in SetupType /\ setup \in Setups /\ restarts \in Nat
  BY PoolInvGives DEF FieldsTyped
<1>2. FieldsTyped'
  <2>1. budget' \in [requests : Nat, imports : Nat, residue : Nat]
    BY DEF ZeroBudget
  <2>2. /\ hint' \in BOOLEAN /\ observed' \in BOOLEAN /\ pending' \in BOOLEAN
        /\ alive' \in BOOLEAN
    BY Zenon
  <2>3. restarts' \in Nat /\ past' \in Nat
    BY <1>1
  <2> QED BY <2>1, <2>2, <2>3 DEF FieldsTyped
<1>3. GoodPool(current, parked, cache, epoch)'
  BY <1>1 DEF GoodPool, SessionType, NoSession, SetupType
<1>4. keys' \in Seq(Configs) /\ epoch' \in Nat /\ epoch' <= MaxEpoch /\ envs' \in Nat
  BY ReuseAssumption
<1>5. PoolOrder' = <<>>
  BY DEF PoolOrder, Parked, Pool
<1>6. HintIsSuffix'
  <2>0. keys' = <<>> /\ <<>> \in Seq(SessionType)
    OBVIOUS
  <2>1. keys' = <<>> /\ IsSuffix(<<>>, <<>>)
    BY <2>0, EmptyIsSuffix
  <2>2. IsSuffix(keys', PoolOrder')
    BY <1>5, <2>1
  <2> QED BY <2>2 DEF HintIsSuffix
<1>7. PooledChildKeepsHint' /\ RecentIsCurrent'
  BY DEF PooledChildKeepsHint, RecentIsCurrent
<1> QED BY <1>1, <1>2, <1>3, <1>4, <1>6, <1>7 DEF PoolInv, ReuseTypeOK, OpenTyped, FieldsTyped, GoodPool

\* Without a child there is nothing to agree on.
LEMMA DeathKeepsPool ==
  ASSUME PoolInv, FreshChild, alive' = FALSE, hint' = hint, keys' \in {keys, <<>>},
         FieldsTyped', OpenTyped'
  PROVE  PoolInv'
<1> USE DEF FreshChild
<1>1. /\ setup' = setup /\ setup \in SetupType /\ setup \in Setups
      /\ keys' \in Seq(Configs)
  <2>1. setup \in SetupType /\ setup \in Setups /\ keys \in Seq(Configs)
    BY PoolInvGives
  <2>2. setup' = setup
    OBVIOUS
  <2>3. keys' \in Seq(Configs)
    <3>1. keys' = keys \/ keys' = <<>>
      OBVIOUS
    <3>2. <<>> \in Seq(Configs)
      OBVIOUS
    <3> QED BY <2>1, <3>1, <3>2
  <2> QED BY <2>1, <2>2, <2>3
<1>2. GoodPool(current, parked, cache, epoch)'
  BY <1>1 DEF GoodPool, SessionType, NoSession, SetupType
<1>3. HintIsSuffix' /\ RecentIsCurrent'
  BY DEF HintIsSuffix, RecentIsCurrent
<1>4. PooledChildKeepsHint'
  BY <1>1 DEF PooledChildKeepsHint, PoolInv
<1>5. epoch' \in Nat /\ epoch' <= MaxEpoch /\ envs' \in Nat
  BY ReuseAssumption
<1> QED BY <1>1, <1>2, <1>3, <1>4, <1>5 DEF PoolInv, ReuseTypeOK, OpenTyped, FieldsTyped, GoodPool

\* A restart that fails is such a death.
LEMMA RestartFailsKeepsPool ==
  ASSUME PoolInv, RestartFails, OpenTyped'
  PROVE  PoolInv'
<1>1. FieldsTyped
  BY PoolInvGives
<1>2. FieldsTyped'
  <2>1. budget' \in [requests : Nat, imports : Nat, residue : Nat] /\ restarts' \in Nat
    <3>1. \/ budget' = budget /\ restarts' = restarts
          \/ budget' = ZeroBudget /\ restarts' = restarts + 1
      BY DEF RestartFails
    <3> QED BY <1>1, <3>1 DEF FieldsTyped, ZeroBudget
  <2>2. /\ hint' = hint /\ observed' = observed /\ pending' = FALSE
        /\ alive' = FALSE /\ past' = 0
    BY DEF RestartFails, FreshChild
  <2> QED BY <1>1, <2>1, <2>2 DEF FieldsTyped
<1> QED BY <1>2, DeathKeepsPool DEF RestartFails

\* Nothing but the open in progress moves.
LEMMA OpenMovesAlone ==
  ASSUME PoolInv, UNCHANGED <<parentVars, childVars, past>>, OpenTyped'
  PROVE  PoolInv'
<1> USE DEF parentVars, childVars
<1>1. GoodPool(current, parked, cache, epoch)'
  BY DEF PoolInv, GoodPool
<1>2. HintIsSuffix' /\ PooledChildKeepsHint' /\ RecentIsCurrent'
  BY DEF PoolInv, HintIsSuffix, PooledChildKeepsHint, RecentIsCurrent, PoolOrder, Pool, Parked
<1> QED BY <1>1, <1>2 DEF PoolInv, ReuseTypeOK, OpenTyped


\* What the three answers leave of the parent's fields.
LEMMA AnswerTyped ==
  ASSUME PoolInv, openStep = "send", ParentReused \/ ParentOpened \/ ParentFailed,
         past' \in Nat
  PROVE  /\ FieldsTyped' /\ keys' \in Seq(Configs)
         /\ ~ParentFailed => keys' # <<>> /\ keys'[Len(keys')] = wanted
         /\ alive' = alive
<1>1. /\ FieldsTyped /\ keys \in Seq(Configs) /\ setup \in SetupType /\ wanted \in Configs
  BY PoolInvGives DEF PoolInv
<1>2. budget \in [requests : Nat, imports : Nat, residue : Nat]
  BY <1>1 DEF FieldsTyped
<1> DEFINE charged == record_import(record_request(budget), wanted)
<1>3. /\ record_request(budget) \in [requests : Nat, imports : Nat, residue : Nat]
      /\ charged \in [requests : Nat, imports : Nat, residue : Nat]
  BY <1>1, <1>2, RecordImport, RecordRequest
<1>4. import_limit_reached(charged) \in BOOLEAN
  BY DEF import_limit_reached
<1> DEFINE n == note_open_session_key(keys, wanted)
<1>5. n \in Seq(Configs) /\ n # <<>> /\ n[Len(n)] = wanted
  BY <1>1, NotedKey
<1> HIDE DEF charged, n
<1>6. CASE ParentReused
  <2>1. /\ budget' = record_request(budget) /\ observed' = TRUE /\ keys' = n
        /\ hint' = hint /\ pending' = pending /\ alive' = alive /\ restarts' = restarts
    BY <1>6 DEF ParentReused, n
  <2> QED BY <1>1, <1>3, <1>5, <2>1 DEF FieldsTyped
<1>7. CASE ParentOpened
  <2>1. /\ budget' = charged /\ keys' = n
        /\ observed' = observed /\ alive' = alive /\ restarts' = restarts
    BY <1>7 DEF ParentOpened, n, charged
  <2>2. hint' \in BOOLEAN
    BY <1>1, <1>7 DEF ParentOpened, FieldsTyped
  <2>3. pending' \in BOOLEAN
    <3>1. pending' = IF expect THEN import_limit_reached(charged) ELSE pending
      BY <1>7 DEF ParentOpened, charged
    <3> QED BY <1>1, <1>4, <3>1 DEF FieldsTyped
  <2> QED BY <1>1, <1>3, <1>5, <2>1, <2>2, <2>3 DEF FieldsTyped
<1>8. CASE ParentFailed
  <2>1. /\ budget' = record_request(budget) /\ keys' = <<>> /\ observed' = observed
        /\ hint' = hint /\ pending' = pending /\ alive' = alive /\ restarts' = restarts
    BY <1>8 DEF ParentFailed
  <2>2. keys' \in Seq(Configs)
    BY <2>1
  <2> QED BY <1>1, <1>3, <1>8, <2>1, <2>2 DEF FieldsTyped
<1> QED BY <1>6, <1>7, <1>8

\* An open that returns leaves no open.
LEMMA ReturnsTyped ==
  ASSUME PoolInv, Returns, turns' = turns
  PROVE  OpenTyped'
<1>1. turns \in Nat
  BY PoolInvGives DEF OpenTyped
<1> QED BY <1>1 DEF Returns, OpenTyped

\* The pool as the child finds it when an open arrives: swept at an epoch that
\* could be read it is untouched, else nothing is left.
LEMMA PoolFound ==
  ASSUME PoolInv, NEW live, ReadEpoch(live)
  PROVE  /\ evict_stale(Pool, live) \in {Pool, EmptyPool}
         /\ ~setup.epochFails => evict_stale(Pool, live) = Pool
<1>1. GoodPool(current, parked, cache, epoch) /\ epoch \in Nat /\ epoch <= MaxEpoch
  BY PoolInvGives DEF PoolInv
<1>2. NoStamp # epoch
  BY <1>1, ReuseAssumption DEF NoStamp
<1>3. CASE live = epoch
  BY <1>1, <1>3, SweepNothing DEF Pool
<1>4. CASE live # epoch
  <2>1. setup.epochFails
    BY <1>4 DEF ReadEpoch
  <2>2. evict_stale(Pool, live) = EmptyPool
    BY <1>1, <1>4, SweepAll, ReuseAssumption DEF Pool
  <2> QED BY <2>1, <2>2
<1> QED BY <1>3, <1>4

\* A reuse moves the session, and its key, to the end of both orders.
LEMMA ReuseKeepsPool ==
  ASSUME PoolInv, ChildReuses
  PROVE  PoolInv'
<1>1. /\ openStep = "send" /\ alive /\ setup.pooled /\ ParentReused /\ Returns
      /\ setup' = setup /\ epoch' = epoch /\ envs' = envs /\ past' = past /\ turns' = turns
  BY DEF ChildReuses
<1>2. /\ FieldsTyped /\ setup \in Setups /\ setup \in SetupType /\ keys \in Seq(Configs)
      /\ epoch \in Nat /\ epoch <= MaxEpoch /\ envs \in Nat /\ wanted \in Configs
      /\ GoodPool(current, parked, cache, epoch)
      /\ PoolOrder \in Seq(SessionType)
  BY <1>1, PoolInvGives DEF PoolInv
<1>3. /\ FieldsTyped' /\ keys' \in Seq(Configs) /\ keys' # <<>> /\ keys'[Len(keys')] = wanted
      /\ alive' = alive
  <2>1. past' \in Nat
    BY <1>1, <1>2 DEF FieldsTyped
  <2>2. ~ParentFailed
    <3>1. keys' = note_open_session_key(keys, wanted)
      BY <1>1 DEF ParentReused
    <3>2. keys' # <<>>
      BY <1>2, <3>1, NotedKey
    <3> QED BY <3>2 DEF ParentFailed
  <2> QED BY <1>1, <2>1, <2>2, AnswerTyped
<1>4. OpenTyped'
  BY <1>1, ReturnsTyped
<1>5. PICK live \in {epoch, NoStamp} :
        /\ ReadEpoch(live)
        /\ LET p == evict_stale(Pool, live) IN
           \/ p.cur.key = wanted /\ SetPool(p)
           \/ /\ p.cur.key # wanted
              /\ \E i \in 1..Len(p.rest) :
                   /\ p.rest[i].key = wanted
                   /\ SetPool([p EXCEPT !.cur = p.rest[i],
                                        !.rest = Parked([p EXCEPT !.rest = Without(p.rest, i)])])
  BY DEF ChildReuses
<1> DEFINE p == evict_stale(Pool, live)
<1>6. p = Pool
  <2>1. p \in {Pool, EmptyPool}
    BY <1>5, PoolFound
  <2>2. CASE p = EmptyPool
    <3>1. p.cur.key = NoConfig /\ p.rest = <<>>
      BY <2>2 DEF EmptyPool, NoSession
    <3>2. \E i \in 1..Len(p.rest) : TRUE
      BY <1>2, <1>5, <3>1, ReuseAssumption
    <3> QED BY <3>1, <3>2
  <2> QED BY <2>1, <2>2
<1>7. \/ current.key = wanted /\ SetPool(Pool)
      \/ \E i \in 1..Len(parked) :
           /\ parked[i].key = wanted
           /\ SetPool([Pool EXCEPT !.cur = parked[i],
                                   !.rest = Parked([Pool EXCEPT !.rest = Without(parked, i)])])
  <2>1. \/ p.cur.key = wanted /\ SetPool(p)
        \/ \E i \in 1..Len(p.rest) :
             /\ p.rest[i].key = wanted
             /\ SetPool([p EXCEPT !.cur = p.rest[i],
                                  !.rest = Parked([p EXCEPT !.rest = Without(p.rest, i)])])
    BY <1>5
  <2> HIDE DEF p
  <2>2. p.cur = current /\ p.rest = parked
    BY <1>6 DEF Pool
  <2> QED BY <1>6, <2>1, <2>2
<1> HIDE DEF p
<1>71. ASSUME NEW i \in 1..Len(parked), NEW w, w = Without(parked, i),
             NEW q, q = IF current = NoSession THEN w ELSE Append(w, current)
      PROVE  /\ GoodPool(parked[i], q, cache, epoch) /\ parked[i] # NoSession
             /\ Parked([cur |-> parked[i], rest |-> q, snaps |-> cache])
                  = Append(Without(Parked([cur |-> current, rest |-> parked, snaps |-> cache]), i),
                           parked[i])
  <2>1. setup \in SetupType /\ GoodPool(current, parked, cache, epoch)
    BY <1>2
  <2> QED BY <1>71, <2>1, SwapGood, ReuseAssumption
\* The pool that is left: the order ends in the session that was asked for.
<1>8. /\ GoodPool(current', parked', cache', epoch)
      /\ current'.key = wanted
      /\ \E i \in 1..Len(PoolOrder) : /\ PoolOrder[i].key = wanted
                                      /\ PoolOrder' = Append(Without(PoolOrder, i), PoolOrder[i])
  <2>1. CASE current.key = wanted /\ SetPool(Pool)
    <3>1. current' = current /\ parked' = parked /\ cache' = cache
      BY <2>1 DEF SetPool, Pool
    <3>2. current # NoSession
      BY <1>2, <2>1, ReuseAssumption DEF NoSession
    <3>3. PoolOrder = Append(parked, current) /\ PoolOrder' = PoolOrder
      BY <3>1, <3>2 DEF PoolOrder, Parked, Pool
    <3>4. parked \in Seq(SessionType) /\ current \in SessionType
      BY <1>2 DEF GoodPool
    <3> DEFINE o == PoolOrder
               n == Len(parked) + 1
    <3>5. o \in Seq(SessionType) /\ Len(o) = n /\ o[n] = current
          /\ \A j \in 1..Len(parked) : o[j] = parked[j]
      BY <3>3, <3>4, AppendElements
    <3>6. n \in 1..Len(o)
      BY <3>4, <3>5
    <3>7. Without(o, n) = parked
      <4> DEFINE w == Without(o, n)
      <4>1. w \in Seq(SessionType) /\ Len(w) = Len(o) - 1
            /\ \A j \in 1..Len(o) - 1 : w[j] = IF j < n THEN o[j] ELSE o[j + 1]
        BY <3>5, <3>6, WithoutElements
      <4> HIDE DEF w
      <4>2. Len(w) = Len(parked) /\ \A j \in 1..Len(parked) : w[j] = parked[j]
        BY <3>4, <3>5, <4>1
      <4>3. w = parked
        BY <3>4, <4>1, <4>2
      <4> QED BY <4>3 DEF w
    <3> HIDE DEF o, n
    <3>8. PoolOrder[n].key = wanted
      BY <2>1, <3>5 DEF o
    <3>9. PoolOrder' = Append(Without(PoolOrder, n), PoolOrder[n])
      BY <3>3, <3>5, <3>7 DEF o
    <3>10. GoodPool(current', parked', cache', epoch) /\ current'.key = wanted
      BY <1>2, <2>1, <3>1
    <3> QED BY <3>6, <3>8, <3>9, <3>10 DEF o
  <2>2. ASSUME NEW i \in 1..Len(parked), parked[i].key = wanted,
               SetPool([Pool EXCEPT !.cur = parked[i],
                                    !.rest = Parked([Pool EXCEPT !.rest = Without(parked, i)])])
        PROVE  <1>8!1 /\ <1>8!2 /\ <1>8!3
    <3> DEFINE w == Without(parked, i)
               q == IF current = NoSession THEN w ELSE Append(w, current)
    <3>1. /\ GoodPool(parked[i], q, cache, epoch) /\ parked[i] # NoSession
          /\ Parked([cur |-> parked[i], rest |-> q, snaps |-> cache])
               = Append(Without(Parked([cur |-> current, rest |-> parked, snaps |-> cache]), i),
                        parked[i])
      <4>1. w = Without(parked, i) /\ q = IF current = NoSession THEN w ELSE Append(w, current)
        OBVIOUS
      <4> HIDE DEF w, q
      <4> QED BY <2>2, <4>1, <1>71
    <3>2. Parked([Pool EXCEPT !.rest = w]) = q
      BY DEF Parked, Pool
    <3> HIDE DEF w, q
    <3>3. current' = parked[i] /\ parked' = q /\ cache' = cache
      BY <2>2, <3>2 DEF SetPool, Pool, w
    <3>4. PoolOrder' = Append(Without(PoolOrder, i), parked[i])
      BY <3>1, <3>3 DEF PoolOrder, Pool
    <3>5. i \in 1..Len(PoolOrder) /\ PoolOrder[i] = parked[i]
      <4> DEFINE o == Parked([cur |-> current, rest |-> parked, snaps |-> cache])
      <4>1. /\ Len(o) = IF current = NoSession THEN Len(parked) ELSE Len(parked) + 1
            /\ \A j \in 1..Len(parked) : o[j] = parked[j]
        BY <1>2, OrderOf
      <4>2. parked \in Seq(SessionType)
        BY <1>2 DEF GoodPool
      <4>3. o = PoolOrder
        BY DEF PoolOrder, Pool
      <4> HIDE DEF o
      <4> QED BY <4>1, <4>2, <4>3
    <3>6. GoodPool(current', parked', cache', epoch) /\ current'.key = wanted
      BY <2>2, <3>1, <3>3
    <3> QED BY <2>2, <3>4, <3>5, <3>6
  <2> QED BY <1>7, <2>1, <2>2
<1>9. GoodPool(current, parked, cache, epoch)'
  BY <1>1, <1>8 DEF GoodPool
<1>10. HintIsSuffix'
  <2>1. SUFFICES ASSUME setup.hintCap = setup.poolCap, setup.registers = {}, ~setup.epochFails
                 PROVE  IsSuffix(keys', PoolOrder')
    BY <1>1 DEF HintIsSuffix
  <2>2. IsSuffix(keys, PoolOrder)
    BY <1>1, <2>1 DEF PoolInv, HintIsSuffix
  <2>3. PICK i \in 1..Len(PoolOrder) : /\ PoolOrder[i].key = wanted
                                       /\ PoolOrder' = Append(Without(PoolOrder, i), PoolOrder[i])
    BY <1>8
  <2>4. /\ Len(PoolOrder) <= setup.hintCap
        /\ \A j, k \in 1..Len(PoolOrder) : PoolOrder[j].key = PoolOrder[k].key => j = k
    <3> DEFINE o == Parked([cur |-> current, rest |-> parked, snaps |-> cache])
    <3>1. /\ Len(o) <= setup.poolCap
          /\ \A j, k \in 1..Len(o) : o[j].key = o[k].key => j = k
      BY <1>2, OrderOf
    <3>2. o = PoolOrder
      BY DEF PoolOrder, Pool
    <3> HIDE DEF o
    <3> QED BY <2>1, <3>1, <3>2
  <2>5. keys' = note_open_session_key(keys, wanted)
    BY <1>1 DEF ParentReused
  <2>6. IsSuffix(note_open_session_key(keys, PoolOrder[i].key),
                 Append(Without(PoolOrder, i), PoolOrder[i]))
    BY <1>2, <2>2, <2>3, <2>4, SuffixMove
  <2> QED BY <2>3, <2>5, <2>6
<1>11. PooledChildKeepsHint'
  BY <1>1 DEF ParentReused, PooledChildKeepsHint, PoolInv
<1>12. RecentIsCurrent'
  BY <1>3, <1>8 DEF RecentIsCurrent
<1>13. ReuseTypeOK' /\ epoch' <= MaxEpoch /\ (openStep' # "ready" => wanted' \in Configs)
  BY <1>1, <1>2, <1>3, <1>4, <1>9 DEF ReuseTypeOK, OpenTyped, FieldsTyped, GoodPool
<1> QED BY <1>9, <1>10, <1>11, <1>12, <1>13 DEF PoolInv

\* An open that finds no session to reuse, before its import: what is left of
\* the pool is in order and has room, and the order lost only its front.
LEMMA MissFound ==
  ASSUME PoolInv, wanted \in Configs, NEW live, ReadEpoch(live),
         Misses(evict_stale(Pool, live))
  PROVE  LET m == MissedPool(evict_stale(Pool, live)) IN
         /\ m.cur = NoSession /\ m = [cur |-> NoSession, rest |-> m.rest, snaps |-> m.snaps]
         /\ GoodPool(NoSession, m.rest, m.snaps, epoch)
         /\ Len(m.rest) <= setup.poolCap - 1
         /\ \A i \in 1..Len(m.rest) : m.rest[i].key # wanted
         /\ setup.pooled /\ ~setup.epochFails =>
              /\ m.rest = LastN(PoolOrder, setup.poolCap - 1)
              /\ current.key # wanted
              /\ \A i \in 1..Len(PoolOrder) : PoolOrder[i].key # wanted
<1> DEFINE p == evict_stale(Pool, live)
           m == MissedPool(p)
<1>1. /\ GoodPool(current, parked, cache, epoch) /\ epoch \in Nat /\ setup \in SetupType
  BY PoolInvGives DEF PoolInv
<1>2. p \in {Pool, EmptyPool} /\ (~setup.epochFails => p = Pool)
  BY PoolFound
<1>3. Misses(p)
  OBVIOUS
<1> DEFINE c == p.cur
           r == p.rest
           sn == p.snaps
<1>4. /\ p = [cur |-> c, rest |-> r, snaps |-> sn]
      /\ GoodPool(c, r, sn, epoch)
  <2>1. CASE p = Pool
    <3> HIDE DEF p
    <3>1. c = current /\ r = parked /\ sn = cache
      BY <2>1 DEF Pool
    <3> QED BY <1>1, <2>1, <3>1 DEF Pool
  <2>2. CASE p = EmptyPool
    <3> HIDE DEF p
    <3>1. c = NoSession /\ r = <<>> /\ sn = {}
      BY <2>2 DEF EmptyPool
    <3>2. GoodPool(NoSession, <<>>, {}, epoch)
      BY <1>1, EmptyPoolGood
    <3> HIDE DEF c, r, sn
    <3> QED BY <2>2, <3>1, <3>2 DEF EmptyPool
  <2> QED BY <1>2, <2>1, <2>2
<1>5. m = MissedPool([cur |-> c, rest |-> r, snaps |-> sn]) /\ Misses([cur |-> c, rest |-> r, snaps |-> sn])
  BY <1>3, <1>4
<1>6. /\ m = [cur |-> NoSession, rest |-> m.rest, snaps |-> m.snaps]
      /\ GoodPool(NoSession, m.rest, m.snaps, epoch)
      /\ Len(m.rest) <= setup.poolCap - 1
      /\ \A i \in 1..Len(m.rest) : m.rest[i].key # wanted
      /\ setup.pooled =>
            m.rest = LastN(Parked([cur |-> c, rest |-> r, snaps |-> sn]), setup.poolCap - 1)
  <2> HIDE DEF m, c, r, sn, p
  <2> QED BY <1>1, <1>4, <1>5, MissGood, ReuseAssumption
<1>7. m.cur = NoSession
  <2> HIDE DEF m
  <2> QED BY <1>6
<1>8. ASSUME setup.pooled, ~setup.epochFails
      PROVE  /\ m.rest = LastN(PoolOrder, setup.poolCap - 1)
             /\ current.key # wanted
             /\ \A i \in 1..Len(PoolOrder) : PoolOrder[i].key # wanted
  <2>1. p = Pool
    BY <1>2, <1>8
  <2>2. Parked([cur |-> c, rest |-> r, snaps |-> sn]) = PoolOrder
    BY <1>4, <2>1 DEF PoolOrder
  <2>3. /\ current.key # wanted /\ \A i \in 1..Len(parked) : parked[i].key # wanted
    BY <1>3, <1>8, <2>1 DEF Misses, Pool
  <2>4. \A i \in 1..Len(PoolOrder) : PoolOrder[i].key # wanted
    <3> DEFINE o == Parked([cur |-> current, rest |-> parked, snaps |-> cache])
    <3>1. o = PoolOrder
      BY DEF PoolOrder, Pool
    <3>2. /\ o \in Seq(SessionType)
          /\ Len(o) = IF current = NoSession THEN Len(parked) ELSE Len(parked) + 1
          /\ \A i \in 1..Len(parked) : o[i] = parked[i]
          /\ current # NoSession => o[Len(parked) + 1] = current
      BY <1>1, OrderOf
    <3>3. parked \in Seq(SessionType)
      BY <1>1 DEF GoodPool
    <3> HIDE DEF o
    <3>4. \A i \in 1..Len(o) : i \in 1..Len(parked) \/ (current # NoSession /\ i = Len(parked) + 1)
      BY <3>2, <3>3
    <3> QED BY <2>3, <3>1, <3>2, <3>4
  <2> QED BY <1>6, <1>8, <2>2, <2>3, <2>4
<1> HIDE DEF m
<1>9. setup.pooled /\ ~setup.epochFails =>
        /\ m.rest = LastN(PoolOrder, setup.poolCap - 1)
        /\ current.key # wanted
        /\ \A i \in 1..Len(PoolOrder) : PoolOrder[i].key # wanted
  BY <1>8
<1> QED BY <1>6, <1>7, <1>9 DEF m

\* A failed build leaves the sessions that are parked and no current one.
LEMMA FailKeepsPool ==
  ASSUME PoolInv, ChildFails
  PROVE  PoolInv'
<1>1. /\ openStep = "send" /\ alive /\ ParentFailed /\ Returns
      /\ setup' = setup /\ epoch' = epoch /\ envs' = envs /\ past' = past /\ turns' = turns
  BY DEF ChildFails
<1>2. /\ FieldsTyped /\ setup \in Setups /\ setup \in SetupType /\ epoch \in Nat
      /\ epoch <= MaxEpoch /\ envs \in Nat /\ wanted \in Configs
  BY <1>1, PoolInvGives DEF PoolInv
<1>3. FieldsTyped' /\ keys' \in Seq(Configs) /\ keys' = <<>>
  <2>1. past' \in Nat
    BY <1>1, <1>2 DEF FieldsTyped
  <2>2. keys' = <<>>
    BY <1>1 DEF ParentFailed
  <2> QED BY <1>1, <2>1, <2>2, AnswerTyped
<1>4. OpenTyped'
  BY <1>1, ReturnsTyped
<1>5. PICK live \in {epoch, NoStamp} :
        /\ ReadEpoch(live)
        /\ LET p == evict_stale(Pool, live) IN Misses(p) /\ SetPool(MissedPool(p))
  BY DEF ChildFails
<1> DEFINE m == MissedPool(evict_stale(Pool, live))
<1>6. /\ m.cur = NoSession /\ GoodPool(NoSession, m.rest, m.snaps, epoch)
  BY <1>2, <1>5, MissFound
<1>7. current' = m.cur /\ parked' = m.rest /\ cache' = m.snaps
  BY <1>5 DEF SetPool
<1> HIDE DEF m
<1>8. GoodPool(current', parked', cache', epoch)
  BY <1>6, <1>7
<1>9. GoodPool(current, parked, cache, epoch)'
  BY <1>1, <1>8 DEF GoodPool
<1>10. HintIsSuffix'
  <2> DEFINE o == Parked([cur |-> current', rest |-> parked', snaps |-> cache'])
  <2>1. o \in Seq(SessionType)
    BY <1>2, <1>8, OrderOf
  <2>2. PoolOrder' = o
    BY DEF PoolOrder, Pool
  <2> HIDE DEF o
  <2>3. IsSuffix(keys', PoolOrder')
    BY <1>3, <2>1, <2>2, EmptyIsSuffix
  <2> QED BY <2>3 DEF HintIsSuffix
<1>11. PooledChildKeepsHint'
  BY <1>1 DEF ParentFailed, PooledChildKeepsHint, PoolInv
<1>12. RecentIsCurrent'
  BY <1>3 DEF RecentIsCurrent
<1>13. ReuseTypeOK' /\ epoch' <= MaxEpoch /\ (openStep' # "ready" => wanted' \in Configs)
  BY <1>1, <1>2, <1>3, <1>4, <1>9 DEF ReuseTypeOK, OpenTyped, FieldsTyped, GoodPool
<1> QED BY <1>9, <1>10, <1>11, <1>12, <1>13 DEF PoolInv

\* The pool that an import leaves, swept or not.
LEMMA ImportPool ==
  ASSUME PoolInv, ChildImports
  PROVE  \E new \in SessionType :
         /\ new.key = wanted
         /\ GoodPool(current', parked', cache', epoch')
         /\ epoch' \in Nat /\ epoch' <= MaxEpoch
         /\ setup.pooled /\ ~setup.epochFails =>
              /\ current' = new /\ current.key # wanted
              /\ setup.registers = {} =>
                   /\ \A i \in 1..Len(PoolOrder) : PoolOrder[i].key # wanted
                   /\ PoolOrder' = Append(LastN(PoolOrder, setup.poolCap - 1), new)
<1>1. /\ epoch \in Nat /\ epoch <= MaxEpoch /\ envs \in Nat /\ wanted \in Configs
      /\ setup \in SetupType
  BY PoolInvGives DEF PoolInv, ChildImports
<1>2. PICK live \in {epoch, NoStamp}, registers \in BOOLEAN, swept \in BOOLEAN :
        LET p == evict_stale(Pool, live)
            now == IF registers THEN epoch + 1 ELSE epoch
            new == [key |-> wanted, env |-> envs + 1, stamp |-> now]
        IN  /\ ReadEpoch(live) /\ Misses(p)
            /\ registers => wanted \in setup.registers /\ epoch < MaxEpoch
            /\ swept \/ setup.epochFails
            /\ epoch' = now
            /\ SetPool(evict_stale([MissedPool(p) EXCEPT !.cur = new],
                                   IF swept THEN now ELSE NoStamp))
  BY DEF ChildImports
<1> DEFINE m == MissedPool(evict_stale(Pool, live))
           now == IF registers THEN epoch + 1 ELSE epoch
           new == [key |-> wanted, env |-> envs + 1, stamp |-> now]
           stamp == IF swept THEN now ELSE NoStamp
           r == m.rest
           sn == m.snaps
<1>3. /\ m = [cur |-> NoSession, rest |-> r, snaps |-> sn]
      /\ GoodPool(NoSession, r, sn, epoch)
      /\ Len(r) <= setup.poolCap - 1
      /\ \A i \in 1..Len(r) : r[i].key # wanted
      /\ setup.pooled /\ ~setup.epochFails =>
           /\ r = LastN(PoolOrder, setup.poolCap - 1)
           /\ current.key # wanted
           /\ \A i \in 1..Len(PoolOrder) : PoolOrder[i].key # wanted
  BY <1>1, <1>2, MissFound
<1>4. /\ now \in Nat /\ now <= MaxEpoch /\ epoch' = now
      /\ registers => now # epoch
      /\ NoStamp # now /\ NoStamp # epoch
  BY <1>1, <1>2, ReuseAssumption DEF NoStamp
<1>5. /\ new \in SessionType /\ new.key = wanted /\ new.stamp = now /\ new # NoSession
  BY <1>1, <1>4, ReuseAssumption DEF SessionType, NoSession
<1>6. SetPool(evict_stale([m EXCEPT !.cur = new], stamp))
  BY <1>2
<1> HIDE DEF m
<1>7. [m EXCEPT !.cur = new] = [cur |-> new, rest |-> r, snaps |-> sn]
  BY <1>3
<1> DEFINE q == evict_stale([cur |-> new, rest |-> r, snaps |-> sn], stamp)
<1>8. current' = q.cur /\ parked' = q.rest /\ cache' = q.snaps
  BY <1>6, <1>7 DEF SetPool
<1>9. (registers => wanted \in setup.registers) /\ (swept \/ setup.epochFails)
  BY <1>2
<1> HIDE DEF r, sn, new, now
<1>10. CASE ~registers /\ swept
  <2>1. now = epoch /\ stamp = epoch
    BY <1>10 DEF now
  <2>2. GoodPool(new, r, sn, epoch)
    BY <1>1, <1>3, <1>5, <2>1, ImportGood, ReuseAssumption
  <2>3. q = [cur |-> new, rest |-> r, snaps |-> sn]
    BY <2>1, <2>2, SweepNothing
  <2>4. current' = new /\ parked' = r /\ cache' = sn
    BY <1>8, <2>3
  <2>5. PoolOrder' = Append(r, new)
    BY <1>5, <2>4 DEF PoolOrder, Pool, Parked
  <2> QED BY <1>3, <1>4, <1>5, <2>1, <2>2, <2>4, <2>5
<1>11. CASE registers /\ swept
  <2>1. stamp = now /\ now # epoch
    BY <1>4, <1>11
  <2>2. /\ q = [cur |-> new, rest |-> <<>>, snaps |-> {}]
        /\ GoodPool(new, <<>>, {}, now)
    BY <1>1, <1>3, <1>5, <2>1, SweepOthers, ReuseAssumption
  <2>3. current' = new /\ parked' = <<>> /\ cache' = {}
    BY <1>8, <2>2
  <2>4. setup.registers # {}
    BY <1>9, <1>11
  <2> QED BY <1>3, <1>4, <1>5, <2>2, <2>3, <2>4
<1>12. CASE ~swept
  <2>1. stamp = NoStamp
    BY <1>12
  <2>2. q = EmptyPool
    BY <1>1, <1>3, <1>4, <1>5, <2>1, SweepUnread, ReuseAssumption
  <2>3. current' = NoSession /\ parked' = <<>> /\ cache' = {}
    BY <1>8, <2>2 DEF EmptyPool
  <2>4. GoodPool(NoSession, <<>>, {}, epoch')
    BY <1>1, <1>4, EmptyPoolGood
  <2>5. setup.epochFails
    BY <1>9, <1>12
  <2> QED BY <1>4, <1>5, <2>3, <2>4, <2>5
<1> QED BY <1>10, <1>11, <1>12

\* An import, answered or not, keeps the invariant; an answered one never
\* disables the hint of a pooling child.
LEMMA ImportKeepsPool ==
  ASSUME PoolInv, ChildImports
  PROVE  PoolInv'
<1>1. /\ openStep = "send" /\ alive /\ Returns /\ (ParentOpened \/ ParentFailed)
      /\ setup' = setup /\ envs' = envs + 1 /\ turns' = turns
      /\ past' \in {past, past + 1}
  BY DEF ChildImports
<1>2. /\ FieldsTyped /\ setup \in Setups /\ setup \in SetupType /\ envs \in Nat
      /\ keys \in Seq(Configs) /\ PoolOrder \in Seq(SessionType) /\ wanted \in Configs
      /\ GoodPool(current, parked, cache, epoch) /\ epoch \in Nat
  BY <1>1, PoolInvGives DEF PoolInv
<1>3. FieldsTyped' /\ keys' \in Seq(Configs) /\ alive' = alive
      /\ (~ParentFailed => keys' # <<>> /\ keys'[Len(keys')] = wanted)
  <2>1. past' \in Nat
    BY <1>1, <1>2 DEF FieldsTyped
  <2> QED BY <1>1, <2>1, AnswerTyped
<1>4. OpenTyped'
  BY <1>1, ReturnsTyped
<1>5. PICK new \in SessionType :
         /\ new.key = wanted
         /\ GoodPool(current', parked', cache', epoch')
         /\ epoch' \in Nat /\ epoch' <= MaxEpoch
         /\ setup.pooled /\ ~setup.epochFails =>
              /\ current' = new /\ current.key # wanted
              /\ setup.registers = {} =>
                   /\ \A i \in 1..Len(PoolOrder) : PoolOrder[i].key # wanted
                   /\ PoolOrder' = Append(LastN(PoolOrder, setup.poolCap - 1), new)
  BY ImportPool
<1>6. GoodPool(current, parked, cache, epoch)'
  BY <1>1, <1>5 DEF GoodPool
<1>7. PoolOrder' \in Seq(SessionType)
  <2> DEFINE o == Parked([cur |-> current', rest |-> parked', snaps |-> cache'])
  <2>1. o \in Seq(SessionType)
    BY <1>2, <1>5, OrderOf
  <2>2. PoolOrder' = o
    BY DEF PoolOrder, Pool
  <2> HIDE DEF o
  <2> QED BY <2>1, <2>2
<1>72. ReuseTypeOK' /\ (openStep' # "ready" => wanted' \in Configs)
  <2>1. setup' \in Setups /\ envs' \in Nat
    BY <1>1, <1>2
  <2> QED BY <1>3, <1>4, <1>5, <1>6, <2>1 DEF ReuseTypeOK, OpenTyped, FieldsTyped, GoodPool
<1>8. CASE ParentFailed
  <2>1. keys' = <<>> /\ hint' = hint
    BY <1>8 DEF ParentFailed
  <2>2. IsSuffix(keys', PoolOrder')
    BY <1>7, <2>1, EmptyIsSuffix
  <2>3. HintIsSuffix' /\ RecentIsCurrent'
    BY <2>1, <2>2 DEF HintIsSuffix, RecentIsCurrent
  <2>4. PooledChildKeepsHint'
    BY <1>1, <2>1 DEF PooledChildKeepsHint, PoolInv
  <2> QED BY <1>5, <1>6, <1>72, <2>3, <2>4 DEF PoolInv
<1>9. CASE ParentOpened /\ ~ParentFailed
  <2>1. keys' = note_open_session_key(keys, wanted)
    BY <1>9 DEF ParentOpened
  <2>2. HintIsSuffix'
    <3>1. SUFFICES ASSUME setup.hintCap = setup.poolCap, setup.registers = {},
                          setup.pooled, ~setup.epochFails
                   PROVE  IsSuffix(keys', PoolOrder')
      BY <1>1 DEF HintIsSuffix
    <3>2. IsSuffix(keys, PoolOrder)
      BY <1>1, <3>1 DEF PoolInv, HintIsSuffix
    <3>3. /\ \A i \in 1..Len(PoolOrder) : PoolOrder[i].key # new.key
          /\ PoolOrder' = Append(LastN(PoolOrder, setup.poolCap - 1), new)
      BY <1>5, <3>1
    <3>4. Len(PoolOrder) <= setup.poolCap
      <4> DEFINE o == Parked([cur |-> current, rest |-> parked, snaps |-> cache])
      <4>1. Len(o) <= setup.poolCap
        BY <1>2, OrderOf
      <4>2. o = PoolOrder
        BY DEF PoolOrder, Pool
      <4> HIDE DEF o
      <4> QED BY <4>1, <4>2
    <3>5. IsSuffix(note_open_session_key(keys, new.key),
                   Append(LastN(PoolOrder, setup.poolCap - 1), new))
      BY <1>2, <1>5, <3>1, <3>2, <3>3, <3>4, SuffixMiss
    <3> QED BY <1>5, <2>1, <3>3, <3>5
  <2>3. PooledChildKeepsHint'
    <3>1. SUFFICES ASSUME setup.pooled, ~setup.epochFails PROVE hint'
      BY <1>1 DEF PooledChildKeepsHint
    <3>2. hint
      BY <3>1 DEF PoolInv, PooledChildKeepsHint
    <3>3. ~(keys # <<>> /\ keys[Len(keys)] = wanted)
      BY <1>1, <1>5, <3>1 DEF PoolInv, RecentIsCurrent
    <3> QED BY <1>9, <3>2, <3>3 DEF ParentOpened
  <2>4. RecentIsCurrent'
    BY <1>1, <1>3, <1>5, <1>9 DEF RecentIsCurrent
  <2> QED BY <1>5, <1>6, <1>72, <2>2, <2>3, <2>4 DEF PoolInv
<1> QED BY <1>1, <1>8, <1>9

\* A request may leave a snapshot of the environment that served it; clearing
\* the cache only forgets.
LEMMA RequestKeepsPool ==
  ASSUME PoolInv, OtherRequest \/ ClearCache
  PROVE  PoolInv'
<1>1. /\ openStep = "ready" /\ setup' = setup /\ epoch' = epoch /\ envs' = envs /\ past' = past
      /\ current' = current /\ parked' = parked
      /\ keys' = keys /\ hint' = hint /\ observed' = observed /\ pending' = pending
      /\ alive' = alive /\ restarts' = restarts
      /\ openStep' = openStep /\ wanted' = wanted /\ before' = before /\ expect' = expect
      /\ budget' \in {budget, record_request(budget)} /\ turns' \in {turns, turns + 1}
  BY DEF OtherRequest, ClearCache, openVars, parentVars
<1>2. /\ OpenTyped /\ FieldsTyped /\ setup \in Setups /\ keys \in Seq(Configs)
      /\ epoch \in Nat /\ epoch <= MaxEpoch /\ envs \in Nat
      /\ GoodPool(current, parked, cache, epoch)
  BY PoolInvGives DEF PoolInv
<1>3. OpenTyped'
  BY <1>1, <1>2 DEF OpenTyped
<1>4. FieldsTyped'
  <2>1. budget' \in [requests : Nat, imports : Nat, residue : Nat]
    BY <1>1, <1>2, RecordRequest DEF FieldsTyped
  <2> QED BY <1>1, <1>2, <2>1 DEF FieldsTyped
<1>5. \/ cache' \subseteq cache
      \/ current # NoSession /\ cache' = cache \cup {[key |-> current.key, env |-> current.env]}
  BY DEF OtherRequest, ClearCache
<1>6. GoodPool(current, parked, cache, epoch)'
  <2>1. CASE cache' \subseteq cache
    BY <1>1, <1>2, <2>1 DEF GoodPool
  <2>2. CASE current # NoSession /\ cache' = cache \cup {[key |-> current.key, env |-> current.env]}
    <3>1. current.key \in Configs \cup {NoConfig} /\ current.env \in Nat
      BY <1>2 DEF GoodPool, SessionType
    <3>2. cache' \subseteq [key : Configs \cup {NoConfig}, env : Nat]
      BY <1>2, <2>2, <3>1 DEF GoodPool
    <3>3. \A e \in cache' : \/ current.key = e.key /\ current.env = e.env
                            \/ \E i \in 1..Len(parked) : parked[i].key = e.key /\ parked[i].env = e.env
      BY <1>2, <2>2 DEF GoodPool
    <3> QED BY <1>1, <1>2, <2>2, <3>2, <3>3 DEF GoodPool
  <2> QED BY <1>5, <2>1, <2>2
<1>7. PoolOrder' = PoolOrder
  BY <1>1 DEF PoolOrder, Pool, Parked
<1>8. HintIsSuffix' /\ PooledChildKeepsHint' /\ RecentIsCurrent'
  BY <1>1, <1>7 DEF PoolInv, HintIsSuffix, PooledChildKeepsHint, RecentIsCurrent
<1>9. ReuseTypeOK' /\ epoch' <= MaxEpoch /\ (openStep' # "ready" => wanted' \in Configs)
  BY <1>1, <1>2, <1>3, <1>4, <1>6 DEF ReuseTypeOK, OpenTyped, FieldsTyped, GoodPool
<1> QED BY <1>6, <1>8, <1>9 DEF PoolInv

\* At the start both ends are empty.
LEMMA PoolInit == ReuseInit => PoolInv
<1> SUFFICES ASSUME ReuseInit PROVE PoolInv
  OBVIOUS
<1>1. setup \in SetupType /\ setup \in Setups
  BY ReuseAssumption DEF ReuseInit
<1>2. GoodPool(current, parked, cache, epoch)
  BY <1>1, EmptyPoolGood DEF ReuseInit
<1>3. PoolOrder = <<>> /\ keys = <<>>
  BY DEF ReuseInit, PoolOrder, Parked, Pool
<1>4. IsSuffix(keys, PoolOrder)
  <2>1. <<>> \in Seq(SessionType)
    OBVIOUS
  <2> QED BY <1>3, <2>1, EmptyIsSuffix
<1>5. HintIsSuffix /\ PooledChildKeepsHint /\ RecentIsCurrent
  BY <1>3, <1>4 DEF ReuseInit, HintIsSuffix, PooledChildKeepsHint, RecentIsCurrent
<1>6. budget \in [requests : Nat, imports : Nat, residue : Nat]
  BY DEF ReuseInit, ZeroBudget
<1>7. keys \in Seq(Configs) /\ epoch <= MaxEpoch
  BY ReuseAssumption DEF ReuseInit
<1>8. /\ hint \in BOOLEAN /\ observed \in BOOLEAN /\ pending \in BOOLEAN /\ alive \in BOOLEAN
      /\ expect \in BOOLEAN
  BY Zenon DEF ReuseInit
<1>9. /\ restarts \in Nat /\ past \in Nat /\ before \in Nat /\ turns \in Nat /\ epoch \in Nat
      /\ envs \in Nat
      /\ openStep = "ready" /\ wanted = NoConfig
  BY DEF ReuseInit
<1> QED BY <1>1, <1>2, <1>5, <1>6, <1>7, <1>8, <1>9 DEF PoolInv, ReuseTypeOK, GoodPool

\* Every step keeps PoolInv.
LEMMA PoolStep == PoolInv /\ [ReuseNext]_reuseVars => PoolInv'
<1> SUFFICES ASSUME PoolInv, [ReuseNext]_reuseVars PROVE PoolInv'
  OBVIOUS
<1>0. /\ OpenTyped /\ FieldsTyped
  BY PoolInvGives
<1>1. ASSUME NEW k \in Configs, OpenCall(k) PROVE PoolInv'
  <2>1. turns \in Nat /\ turns' \in Nat /\ openStep = "ready"
    BY <1>0, <1>1 DEF OpenCall, OpenTyped
  <2>2. CASE RestartFails /\ UNCHANGED openVars
    <3>1. OpenTyped'
      BY <1>0, <2>1, <2>2 DEF OpenTyped, openVars
    <3> QED BY <2>2, <3>1, RestartFailsKeepsPool
  <2>3. CASE ~(RestartFails /\ UNCHANGED openVars)
    <3>1. /\ openStep' = "prepare" /\ wanted' = k /\ before' = restarts /\ expect' = FALSE
          /\ IF pending THEN Restart ELSE UNCHANGED <<parentVars, childVars, past>>
      BY <1>1, <2>3 DEF OpenCall
    <3>2. OpenTyped'
      BY <1>0, <2>1, <3>1 DEF OpenTyped, FieldsTyped
    <3>3. CASE pending
      BY <3>1, <3>2, <3>3, RestartKeepsPool
    <3>4. CASE ~pending
      BY <3>1, <3>2, <3>4, OpenMovesAlone
    <3> QED BY <3>3, <3>4
  <2> QED BY <2>2, <2>3
<1>2. CASE PrepareOpen
  <2>1. openStep = "prepare" /\ openStep' = "send" /\ wanted' = wanted /\ before' = before /\ turns' = turns
    BY <1>2 DEF PrepareOpen
  <2>2. wanted \in Configs
    BY <2>1 DEF PoolInv
  <2>3. \/ Restart /\ expect' = FALSE
        \/ /\ expect' = (ExpectReuse /\ restarts = before)
           /\ UNCHANGED <<parentVars, childVars, past>>
    BY <1>2 DEF PrepareOpen
  <2>4. expect' \in BOOLEAN
    <3>1. CASE expect' = FALSE
      BY <3>1, Zenon
    <3>2. CASE expect' = (ExpectReuse /\ restarts = before)
      BY <3>2, Zenon
    <3> QED BY <2>3, <3>1, <3>2
  <2>5. OpenTyped'
    BY <1>0, <2>1, <2>2, <2>4 DEF OpenTyped
  <2> QED BY <2>3, <2>5, RestartKeepsPool, OpenMovesAlone
<1>3. CASE PrepareOpenRssOrIdle
  <2>1. /\ openStep = "prepare" /\ openStep' = "send" /\ wanted' = wanted /\ before' = before
        /\ turns' = turns /\ expect' = FALSE /\ Restart
    BY <1>3 DEF PrepareOpenRssOrIdle
  <2>2. OpenTyped'
    BY <1>0, <2>1 DEF OpenTyped
  <2> QED BY <2>1, <2>2, RestartKeepsPool
<1>4. CASE PrepareFails
  <2>1. OpenTyped'
    BY <1>4, ReturnsTyped DEF PrepareFails
  <2>2. RestartFails \/ UNCHANGED <<parentVars, childVars, past>>
    BY <1>4 DEF PrepareFails
  <2> QED BY <2>1, <2>2, RestartFailsKeepsPool, OpenMovesAlone
<1>5. CASE ChildExits
  <2>1. /\ alive' = FALSE /\ FreshChild /\ hint' = hint /\ observed' = observed
        /\ pending' = pending /\ restarts' = restarts /\ turns' = turns
        /\ keys' \in {keys, <<>>} /\ budget' \in {budget, record_request(budget)}
        /\ (UNCHANGED openVars \/ Returns)
    BY <1>5 DEF ChildExits
  <2>2. OpenTyped'
    <3>1. CASE UNCHANGED openVars
      BY <1>0, <2>1, <3>1 DEF OpenTyped, openVars
    <3>2. CASE Returns
      BY <2>1, <3>2, ReturnsTyped
    <3> QED BY <2>1, <3>1, <3>2
  <2>3. FieldsTyped'
    <3>1. budget' \in [requests : Nat, imports : Nat, residue : Nat]
      BY <1>0, <2>1, RecordRequest DEF FieldsTyped
    <3>2. past' = 0
      BY <2>1 DEF FreshChild
    <3> QED BY <1>0, <2>1, <3>1, <3>2 DEF FieldsTyped
  <2> QED BY <2>1, <2>2, <2>3, DeathKeepsPool
<1>6. CASE Cycle
  <2>1. OpenTyped'
    BY <1>0, <1>6 DEF Cycle, OpenTyped, openVars
  <2> QED BY <1>6, <2>1, RestartKeepsPool, RestartFailsKeepsPool DEF Cycle
<1>7. CASE UNCHANGED reuseVars
  <2>1. OpenTyped'
    BY <1>0, <1>7 DEF OpenTyped, reuseVars, openVars
  <2> QED BY <1>7, <2>1, OpenMovesAlone DEF reuseVars
<1> QED
  BY <1>1, <1>2, <1>3, <1>4, <1>5, <1>6, <1>7, ReuseKeepsPool, ImportKeepsPool,
     FailKeepsPool, RequestKeepsPool DEF ReuseNext

\* What the parent lists and what the child holds stay related by PoolInv.
THEOREM PoolSafe == ReuseSpec => []PoolInv
<1>1. ReuseInit => PoolInv
  BY PoolInit
<1>2. PoolInv /\ [ReuseNext]_reuseVars => PoolInv'
  BY PoolStep
<1> QED BY <1>1, <1>2, PTL DEF ReuseSpec

\* Every variable of the parent, of an open in progress and of the child keeps
\* its type.
THEOREM ReuseTypeCorrect == ReuseSpec => []ReuseTypeOK
<1>1. PoolInv => ReuseTypeOK
  BY DEF PoolInv
<1> QED BY <1>1, PoolSafe, PTL

\* PoolInv is enough for what both ends are relied on for.
LEMMA PoolInvAgrees ==
  ASSUME PoolInv
  PROVE  PoolsAgree /\ NoStaleSession
<1> DEFINE o == Parked([cur |-> current, rest |-> parked, snaps |-> cache])
<1>1. GoodPool(current, parked, cache, epoch) /\ setup \in SetupType
  BY PoolInvGives DEF PoolInv
<1>2. /\ Len(o) <= setup.poolCap
      /\ \A i \in 1..Len(o) : o[i].key \in Configs /\ o[i].stamp = epoch
      /\ \A i, j \in 1..Len(o) : o[i].key = o[j].key => i = j
      /\ \A e \in cache : \E i \in 1..Len(o) : o[i].key = e.key /\ o[i].env = e.env
  <2>1. Len(o) <= setup.poolCap
    BY <1>1, OrderOf
  <2>2. \A i \in 1..Len(o) : o[i].key \in Configs /\ o[i].stamp = epoch
    BY <1>1, OrderOf
  <2>3. \A i, j \in 1..Len(o) : o[i].key = o[j].key => i = j
    BY <1>1, OrderOf
  <2>4. \A e \in cache : \E i \in 1..Len(o) : o[i].key = e.key /\ o[i].env = e.env
    BY <1>1, OrderOf
  <2> QED BY <2>1, <2>2, <2>3, <2>4
<1>3. o = PoolOrder
  BY DEF PoolOrder, Pool
<1> HIDE DEF o
<1>4. PoolWithinCapacity
  BY <1>2, <1>3 DEF PoolWithinCapacity
<1>5. CacheBelongsToPool
  BY <1>2, <1>3 DEF CacheBelongsToPool
<1>6. NoStaleSession
  BY <1>2, <1>3 DEF NoStaleSession
<1> QED BY <1>4, <1>5, <1>6 DEF PoolInv, PoolsAgree

\* Both ends agree: with equal capacities the parent lists the child's most
\* recent sessions in the child's own order, a pooling child is never taken for
\* a binary that does not pool, and the child holds one environment per key
\* within its capacity and only snapshots of those environments.
THEOREM PoolsAgreeHold == ReuseSpec => []PoolsAgree
<1>1. PoolInv => PoolsAgree
  BY PoolInvAgrees
<1> QED BY <1>1, PoolSafe, PTL

\* No environment older than the last extension registration is held between
\* two opens.
THEOREM NoStaleSessionHeld == ReuseSpec => []NoStaleSession
<1>1. PoolInv => NoStaleSession
  BY PoolInvAgrees
<1> QED BY <1>1, PoolSafe, PTL
=============================================================================
