------------------------- MODULE ChildServe_proofs --------------------------
(***************************************************************************)
(* TLAPS proofs about ChildServe, for every set of streams and of Lean     *)
(* threads, every frame size, every cap a parent may announce and every    *)
(* number of requests.                                                     *)
(***************************************************************************)
EXTENDS ChildServe, FiniteSetTheorems, TLAPS

\* What a progress tick or a summary may say it has counted: SumOf of a
\* counter is a value of its own, nothing here depends on which.
Counted ==
  Nat \cup {SumOf(e) : e \in [Streams -> Nat]} \cup {SumOf(e) + 1 : e \in [Streams -> Nat]}

\* The frames a child writes.
Frame ==
  [kind : {"handshake", "answer", "error", "note", "stream_failed"}, size : Nat]
  \cup [kind : {"progress"}, size : Nat, current : Counted]
  \cup [kind : {"row"}, size : Nat, stream : Streams, sequence : Nat]
  \cup [kind : {"rows_complete"}, size : Nat, total : Nat]
  \cup [kind : {"stream_complete"}, size : Nat, total : Counted,
        counts : [Streams -> Nat]]

RowsIn(w) == {i \in 1..Len(w) : w[i].kind = "row"}
RowsOfIn(w, s) == {i \in RowsIn(w) : w[i].stream = s}

\* A wire whose rows carry the numbers an emitter e gave out, in the order it
\* gave them out, and whose frames fit a cap.
Fits(w, limit) == \A i \in 1..Len(w) : w[i].size <= limit
Numbered(w, e) == \A i \in RowsIn(w) : w[i].sequence < e[w[i].stream]
Growing(w) ==
  \A i, j \in RowsIn(w) :
    w[i].stream = w[j].stream /\ i < j => w[i].sequence < w[j].sequence
SoundWire(w, e, limit) ==
  w \in Seq(Frame) /\ Fits(w, limit) /\ Numbered(w, e) /\ Growing(w)

\* The next row of a stream, and the emitter after it.
NextRow(e, s, size) ==
  [kind |-> "row", size |-> size, stream |-> s, sequence |-> e[s]]
Advanced(e, s) == [e EXCEPT ![s] = @ + 1]

\* Every number given out is on the wire.
AllWritten(w, e) == \A s \in Streams : e[s] = Cardinality(RowsOfIn(w, s))

Pending(w) == \A i \in 1..Len(w) : w[i].kind \notin Terminal
Ended(w) ==
  /\ \A i \in 1..Len(w) : w[i].kind \in Terminal => i = Len(w)
  /\ Len(w) > 0 /\ w[Len(w)].kind \in Terminal

\* The requests whose handler counts the rows it writes in items.
RowKinds == {"list", "test_rows", "test_exit", "test_panic"}

\* The inductive invariant.
ServeInv ==
  /\ TypeOK
  /\ calling \in [LeanThreads -> Events \cup {None}]
  /\ cap \in Nat \ {0} /\ parentCap = cap
  /\ SoundWire(wire, emitter, cap)
  /\ loop \in {"start", "configure"} => served = 0
  /\ loop \in {"start", "configure", "serve"} => Pending(wire)
  /\ loop = "read" => Ended(wire) \/ (served = 0 /\ wire = <<>>)
  /\ loop = "exited" => Pending(wire) \/ Ended(wire)
  /\ loop = "serve" => request \in [kind : Kinds, progress : BOOLEAN]
  /\ latch = "none" => refused = 0
  /\ loop = "serve" /\ latch = "none" => AllWritten(wire, emitter)
  /\ loop = "serve" /\ request.kind \in RowKinds => items = Cardinality(RowsIn(wire))
  /\ CompleteIsExact
-----------------------------------------------------------------------------
(* Wires: what appending one frame does.                                   *)

\* Appending a frame to a wire keeps what is on it.
LEMMA Appended ==
  ASSUME NEW w \in Seq(Frame), NEW f \in Frame
  PROVE  /\ Append(w, f) \in Seq(Frame) /\ Len(w) \in Nat
         /\ Len(Append(w, f)) = Len(w) + 1
         /\ Append(w, f)[Len(w) + 1] = f
         /\ \A i \in 1..Len(w) : Append(w, f)[i] = w[i]
OBVIOUS

\* The positions of rows are finitely many positions of the wire.
LEMMA RowsFinite ==
  ASSUME NEW w \in Seq(Frame)
  PROVE  /\ IsFiniteSet(RowsIn(w)) /\ \A s \in Streams : IsFiniteSet(RowsOfIn(w, s))
         /\ Len(w) + 1 \notin RowsIn(w)
         /\ \A s \in Streams : Len(w) + 1 \notin RowsOfIn(w, s)
<1>1. Len(w) \in Nat
  OBVIOUS
<1>2. IsFiniteSet(1..Len(w))
  BY <1>1, FS_Interval
<1>3. RowsIn(w) \subseteq 1..Len(w) /\ \A s \in Streams : RowsOfIn(w, s) \subseteq 1..Len(w)
  BY DEF RowsIn, RowsOfIn
<1>4. Len(w) + 1 \notin 1..Len(w)
  BY <1>1
<1> QED
  BY <1>2, <1>3, <1>4, FS_Subset

\* A frame that is no row leaves the rows of the wire where they are.
LEMMA NoRowAppended ==
  ASSUME NEW w \in Seq(Frame), NEW f \in Frame, f.kind # "row"
  PROVE  /\ RowsIn(Append(w, f)) = RowsIn(w)
         /\ \A s \in Streams : RowsOfIn(Append(w, f), s) = RowsOfIn(w, s)
<1> DEFINE v == Append(w, f)
<1>1. /\ Len(w) \in Nat /\ Len(v) = Len(w) + 1 /\ v[Len(w) + 1] = f
      /\ \A i \in 1..Len(w) : v[i] = w[i]
  BY Appended
<1> HIDE DEF v
<1>2. \A i \in 1..Len(v) : i \in 1..Len(w) \/ i = Len(w) + 1
  BY <1>1
<1>3. \A i \in 1..Len(w) : i \in 1..Len(v)
  BY <1>1
<1>4. RowsIn(v) = RowsIn(w)
  BY <1>1, <1>2, <1>3 DEF RowsIn
<1>5. \A i \in RowsIn(w) : v[i] = w[i]
  BY <1>1 DEF RowsIn
<1>6. \A s \in Streams : RowsOfIn(v, s) = RowsOfIn(w, s)
  BY <1>4, <1>5 DEF RowsOfIn
<1> QED
  BY <1>4, <1>6 DEF v

\* A frame that is no row and fits keeps a sound wire sound.
LEMMA NoteKeepsWire ==
  ASSUME NEW w, NEW e, NEW limit, SoundWire(w, e, limit),
         NEW f \in Frame, f.kind # "row", f.size <= limit
  PROVE  /\ SoundWire(Append(w, f), e, limit)
         /\ AllWritten(w, e) => AllWritten(Append(w, f), e)
         /\ RowsIn(Append(w, f)) = RowsIn(w)
<1> DEFINE v == Append(w, f)
<1>0. w \in Seq(Frame) /\ Fits(w, limit) /\ Numbered(w, e) /\ Growing(w)
  BY DEF SoundWire
<1>1. /\ v \in Seq(Frame) /\ Len(w) \in Nat /\ Len(v) = Len(w) + 1
      /\ v[Len(w) + 1] = f /\ \A i \in 1..Len(w) : v[i] = w[i]
  BY <1>0, Appended
<1>2. RowsIn(v) = RowsIn(w) /\ \A s \in Streams : RowsOfIn(v, s) = RowsOfIn(w, s)
  BY <1>0, NoRowAppended
<1> HIDE DEF v
<1>3. \A i \in 1..Len(v) : i \in 1..Len(w) \/ i = Len(w) + 1
  BY <1>1
<1>4. Fits(v, limit)
  BY <1>0, <1>1, <1>3 DEF Fits
<1>5. \A i \in RowsIn(w) : v[i] = w[i]
  BY <1>1 DEF RowsIn
<1>6. Numbered(v, e) /\ Growing(v)
  BY <1>0, <1>2, <1>5 DEF Numbered, Growing
<1>7. AllWritten(w, e) => AllWritten(v, e)
  BY <1>2 DEF AllWritten
<1> QED
  BY <1>1, <1>2, <1>4, <1>6, <1>7 DEF SoundWire, v

\* A row with the next number of its stream keeps the wire sound for the
\* advanced emitter, and is counted once, on its own stream.
LEMMA RowKeepsWire ==
  ASSUME NEW w, NEW e \in [Streams -> Nat], NEW limit, SoundWire(w, e, limit),
         NEW s \in Streams, NEW size \in Nat, size <= limit
  PROVE  /\ NextRow(e, s, size) \in Frame
         /\ SoundWire(Append(w, NextRow(e, s, size)), Advanced(e, s), limit)
         /\ AllWritten(w, e) => AllWritten(Append(w, NextRow(e, s, size)), Advanced(e, s))
         /\ Cardinality(RowsIn(Append(w, NextRow(e, s, size)))) = Cardinality(RowsIn(w)) + 1
<1> DEFINE f == NextRow(e, s, size)
           d == Advanced(e, s)
           v == Append(w, f)
           n == Len(w) + 1
<1>0. w \in Seq(Frame) /\ Fits(w, limit) /\ Numbered(w, e) /\ Growing(w)
  BY DEF SoundWire
<1>16. /\ f \in Frame /\ f.kind = "row" /\ f.stream = s /\ f.sequence = e[s]
      /\ f.size = size
  BY DEF Frame, NextRow
<1>1. /\ v \in Seq(Frame) /\ Len(w) \in Nat /\ n \in Nat /\ Len(v) = n /\ v[n] = f
      /\ \A i \in 1..Len(w) : v[i] = w[i]
  BY <1>0, <1>16, Appended
<1>2. /\ \A i \in 1..Len(v) : i \in 1..Len(w) \/ i = n
      /\ \A i \in 1..Len(w) : i \in 1..Len(v) /\ i < n
      /\ n \in 1..Len(v) /\ n \notin 1..Len(w)
  BY <1>1
<1>3. d \in [Streams -> Nat] /\ d[s] = e[s] + 1 /\ \A x \in Streams : x # s => d[x] = e[x]
  BY DEF Advanced
<1>4. \A i \in RowsIn(w) : w[i].stream \in Streams /\ w[i].sequence \in Nat
  <2> SUFFICES ASSUME NEW i \in RowsIn(w) PROVE w[i].stream \in Streams /\ w[i].sequence \in Nat
    OBVIOUS
  <2>1. w[i] \in Frame /\ w[i].kind = "row"
    BY <1>0 DEF RowsIn
  <2> QED
    BY <2>1 DEF Frame
<1>5. /\ n \notin RowsIn(w) /\ IsFiniteSet(RowsIn(w))
      /\ \A x \in Streams : n \notin RowsOfIn(w, x) /\ IsFiniteSet(RowsOfIn(w, x))
  BY <1>0, RowsFinite
<1> HIDE DEF f, d, v, n
<1>6. RowsIn(v) = RowsIn(w) \cup {n}
  BY <1>16, <1>1, <1>2 DEF RowsIn
<1>7. \A i \in RowsIn(w) : v[i] = w[i]
  BY <1>1 DEF RowsIn
<1>8. RowsOfIn(v, s) = RowsOfIn(w, s) \cup {n}
  BY <1>16, <1>1, <1>6, <1>7 DEF RowsOfIn
<1>9. \A x \in Streams : x # s => RowsOfIn(v, x) = RowsOfIn(w, x)
  BY <1>16, <1>1, <1>6, <1>7 DEF RowsOfIn
<1>10. Fits(v, limit)
  BY <1>0, <1>16, <1>1, <1>2 DEF Fits
<1>11. \A i \in RowsIn(w) : w[i].sequence < e[w[i].stream]
  BY <1>0 DEF Numbered
<1>12. Numbered(v, d)
  <2>1. ASSUME NEW i \in RowsIn(w) PROVE v[i].sequence < d[v[i].stream]
    <3>1. v[i] = w[i] /\ w[i].sequence < e[w[i].stream]
      BY <1>7, <1>11, Zenon
    <3>2. w[i].stream \in Streams /\ w[i].sequence \in Nat
      BY <1>4, Zenon
    <3>3. ASSUME NEW x \in Streams, NEW k \in Nat, k < e[x] PROVE k < d[x]
      BY <1>3, <3>3
    <3> QED
      BY <3>1, <3>2, <3>3, Zenon
  <2>2. v[n].sequence < d[v[n].stream]
    BY <1>16, <1>1, <1>3
  <2> QED
    BY <1>6, <2>1, <2>2 DEF Numbered
<1>13. Growing(v)
  <2> SUFFICES ASSUME NEW i \in RowsIn(v), NEW j \in RowsIn(v),
                      v[i].stream = v[j].stream, i < j
               PROVE  v[i].sequence < v[j].sequence
    BY DEF Growing
  <2>1. CASE i \in RowsIn(w) /\ j \in RowsIn(w)
    BY <1>0, <1>7, <2>1 DEF Growing
  <2>2. CASE i \in RowsIn(w) /\ j = n
    <3>1. v[i] = w[i] /\ w[i].sequence < e[w[i].stream] /\ v[n] = f
      BY <1>1, <1>7, <1>11, <2>2, Zenon
    <3>2. w[i].stream = s /\ v[j].sequence = e[s]
      BY <1>16, <2>2, <3>1, Zenon
    <3> QED
      BY <3>1, <3>2, Zenon
  <2>3. CASE i = n
    <3>1. j \in 1..Len(v) /\ Len(v) = n /\ n \in Nat
      BY <1>1 DEF RowsIn
    <3> QED
      BY <2>3, <3>1
  <2> QED
    BY <1>6, <2>1, <2>2, <2>3
<1>14. Cardinality(RowsIn(v)) = Cardinality(RowsIn(w)) + 1 /\ Cardinality(RowsIn(w)) \in Nat
  BY <1>5, <1>6, FS_AddElement, FS_CardinalityType
<1>15. AllWritten(w, e) => AllWritten(v, d)
  <2> SUFFICES ASSUME AllWritten(w, e), NEW x \in Streams
               PROVE  d[x] = Cardinality(RowsOfIn(v, x))
    BY DEF AllWritten
  <2>1. e[x] = Cardinality(RowsOfIn(w, x))
    BY DEF AllWritten
  <2>2. CASE x = s
    <3>1. Cardinality(RowsOfIn(v, s)) = Cardinality(RowsOfIn(w, s)) + 1
      BY <1>5, <1>8, FS_AddElement
    <3> QED
      BY <1>3, <2>1, <2>2, <3>1
  <2>3. CASE x # s
    BY <1>3, <1>9, <2>1, <2>3
  <2> QED
    BY <2>2, <2>3
<1> QED
  BY <1>16, <1>1, <1>10, <1>12, <1>13, <1>14, <1>15 DEF SoundWire, f, d, v

\* Whether a wire is still open after a frame depends on that frame.
LEMMA PendingAppended ==
  ASSUME NEW w \in Seq(Frame), NEW f \in Frame, Pending(w)
  PROVE  /\ f.kind \notin Terminal => Pending(Append(w, f))
         /\ f.kind \in Terminal => Ended(Append(w, f))
<1> DEFINE v == Append(w, f)
<1>1. /\ Len(w) \in Nat /\ Len(v) = Len(w) + 1 /\ v[Len(w) + 1] = f
      /\ \A i \in 1..Len(w) : v[i] = w[i]
  BY Appended
<1> HIDE DEF v
<1>2. Len(v) > 0 /\ \A i \in 1..Len(v) : i \in 1..Len(w) \/ i = Len(w) + 1
  BY <1>1
<1>3. \A i \in 1..Len(w) : v[i].kind \notin Terminal
  BY <1>1 DEF Pending
<1>4. f.kind \notin Terminal => Pending(v)
  BY <1>1, <1>2, <1>3 DEF Pending
<1>5. f.kind \in Terminal => Ended(v)
  BY <1>1, <1>2, <1>3 DEF Ended
<1> QED
  BY <1>4, <1>5 DEF v

\* What the type of the wire and of the callbacks gives TypeOK.
LEMMA TypesFollow ==
  /\ \A w \in Seq(Frame) : \A i \in 1..Len(w) : w[i].size \in Nat
  /\ \A c \in [LeanThreads -> Events \cup {None}], t \in LeanThreads :
       c[t] = None \/ c[t].kind \in {e.kind : e \in Events}
<1>1. \A f \in Frame : f.size \in Nat
  BY DEF Frame
<1>2. ASSUME NEW w \in Seq(Frame), NEW i \in 1..Len(w) PROVE w[i].size \in Nat
  <2>1. w[i] \in Frame
    OBVIOUS
  <2> QED
    BY <1>1, <2>1
<1>3. ASSUME NEW c \in [LeanThreads -> Events \cup {None}], NEW t \in LeanThreads
      PROVE  c[t] = None \/ c[t].kind \in {e.kind : e \in Events}
  <2>1. c[t] \in Events \cup {None}
    OBVIOUS
  <2> QED
    BY <2>1, Zenon
<1> QED
  BY <1>2, <1>3

\* The model's row sets are those of the wire.
LEMMA SameRows ==
  /\ Frames("row") = RowsIn(wire) /\ \A s : RowsOf(s) = RowsOfIn(wire, s)
  /\ Frames("row")' = RowsIn(wire') /\ \A s : RowsOf(s)' = RowsOfIn(wire', s)
BY Zenon DEF Frames, RowsOf, RowsIn, RowsOfIn

\* An unfinished wire holds no summary.
LEMMA PendingIsExact ==
  /\ Pending(wire) => CompleteIsExact
  /\ Pending(wire') => CompleteIsExact'
<1>1. "stream_complete" \in Terminal /\ "rows_complete" \in Terminal
  BY DEF Terminal
<1>2. Pending(wire) => CompleteIsExact
  BY <1>1, Zenon DEF Pending, CompleteIsExact
<1>3. Pending(wire') => CompleteIsExact'
  BY <1>1, Zenon DEF Pending, CompleteIsExact
<1> QED
  BY <1>2, <1>3

-----------------------------------------------------------------------------
(* The two kinds of step of a handler.                                     *)

Handling ==
  /\ emitter \in [Streams -> Nat] /\ items \in 0..MaxItems
  /\ metadata \in Nat /\ refused \in Nat
  /\ latch \in {"none", "write", "malformed"} /\ statusByte \in Statuses \cup {"no"}
  /\ calling \in [LeanThreads -> Events \cup {None}]
  /\ latch = "none" => refused = 0

\* A step inside a request that leaves its wire open.
LEMMA HandlerStep ==
  ASSUME ServeInv, loop = "serve", loop' \in {"serve", "exited"},
         SoundWire(wire', emitter', cap), Pending(wire'),
         UNCHANGED <<cap, parentCap, pipeUp, session, request, served>>,
         Handling',
         loop' = "serve" /\ latch' = "none" => AllWritten(wire', emitter'),
         loop' = "serve" /\ request.kind \in RowKinds =>
           items' = Cardinality(RowsIn(wire'))
  PROVE  ServeInv'
<1>1. wire' \in Seq(Frame)
  BY DEF SoundWire
<1>2. TypeOK'
  BY <1>1, TypesFollow DEF ServeInv, TypeOK, Handling
<1>3. CompleteIsExact'
  BY PendingIsExact
<1> QED
  BY <1>2, <1>3 DEF ServeInv, Handling

\* The answer: it ends the wire or, when it cannot be written, the child.
LEMMA AnswerStep ==
  ASSUME ServeInv, loop = "serve", NEW w, SoundWire(w, emitter, cap), Pending(w),
         NEW a \in Frame, a.kind \in Terminal,
         a.kind = "stream_complete" => refused = 0 /\ AllWritten(w, a.counts),
         a.kind = "rows_complete" => a.total = Cardinality(RowsIn(w)),
         write_response(w, a), session' \in BOOLEAN,
         UNCHANGED <<cap, parentCap, pipeUp, request, served, handlerVars>>
  PROVE  ServeInv'
<1> DEFINE out == IF write_frame(a, cap) = "too_large" THEN ErrorFrame ELSE a
<1>1. ErrorFrame \in Frame /\ ErrorFrame.kind = "error" /\ ErrorFrame.kind \in Terminal
  BY DEF Frame, ErrorFrame, Terminal
<1>2. /\ out \in Frame /\ out.kind \in Terminal
      /\ out.kind = "stream_complete" => refused = 0 /\ AllWritten(w, out.counts)
      /\ out.kind = "rows_complete" => out.total = Cardinality(RowsIn(w))
  BY <1>1
<1>3. wire' = Written(w, out) /\ loop' = IF write_frame(out, cap) = "ok" THEN "read" ELSE "exited"
  BY DEF write_response
<1>4. cap \in Nat /\ out.size \in Nat /\ w \in Seq(Frame)
  BY <1>2, TypesFollow DEF ServeInv, SoundWire, Frame
<1>5. write_frame(out, cap) = "ok" => out.size <= cap
  BY <1>4 DEF write_frame
<1> HIDE DEF out
<1>6. out.kind # "row"
  BY <1>2 DEF Terminal
<1>7. CASE write_frame(out, cap) = "ok"
  <2>1. wire' = Append(w, out) /\ loop' = "read"
    BY <1>3, <1>7 DEF Written
  <2>2. SoundWire(wire', emitter, cap)
    BY <1>2, <1>5, <1>6, <1>7, <2>1, NoteKeepsWire
  <2>3. Ended(wire')
    BY <1>2, <1>4, <2>1, PendingAppended
  <2>4. RowsIn(wire') = RowsIn(w) /\ \A s \in Streams : RowsOfIn(wire', s) = RowsOfIn(w, s)
    BY <1>2, <1>4, <1>6, <2>1, NoRowAppended
  <2>5. wire'[Len(wire')] = out
    BY <1>2, <1>4, <2>1, Appended
  <2>6. CompleteIsExact'
    <3> SUFFICES ASSUME NEW i \in 1..Len(wire')
                 PROVE  /\ wire'[i].kind = "stream_complete" =>
                             /\ \A s \in Streams : wire'[i].counts[s] = Cardinality(RowsOf(s)')
                             /\ refused' = 0
                        /\ wire'[i].kind = "rows_complete" =>
                             wire'[i].total = Cardinality(Frames("row")')
      BY DEF CompleteIsExact
    <3>1. wire'[i].kind \in {"stream_complete", "rows_complete"} => wire'[i] = out
      BY <2>3, <2>5 DEF Ended, Terminal
    <3>2. refused' = refused
      BY DEF handlerVars
    <3>3. out.kind = "stream_complete" =>
            refused = 0 /\ \A s \in Streams : out.counts[s] = Cardinality(RowsOfIn(w, s))
      BY <1>2 DEF AllWritten
    <3>4. out.kind = "rows_complete" => out.total = Cardinality(RowsIn(w))
      BY <1>2
    <3>5. wire'[i].kind = "rows_complete" => wire'[i].total = Cardinality(Frames("row")')
      BY <2>4, <3>1, <3>4, SameRows
    <3>6. wire'[i].kind = "stream_complete" =>
            /\ \A s \in Streams : wire'[i].counts[s] = Cardinality(RowsOf(s)')
            /\ refused' = 0
      BY <2>4, <3>1, <3>2, <3>3, SameRows
    <3> QED
      BY <3>5, <3>6
  <2>7. TypeOK'
    BY <2>1, <2>2, TypesFollow DEF ServeInv, SoundWire, TypeOK, handlerVars
  <2> QED
    BY <2>1, <2>2, <2>3, <2>6, <2>7 DEF ServeInv, handlerVars
<1>8. CASE write_frame(out, cap) # "ok"
  <2>1. wire' = w /\ loop' = "exited"
    BY <1>3, <1>8 DEF Written
  <2>2. CompleteIsExact'
    BY <2>1, PendingIsExact
  <2>3. TypeOK'
    BY <1>4, <2>1, TypesFollow DEF ServeInv, TypeOK, handlerVars
  <2> QED
    BY <2>1, <2>2, <2>3 DEF ServeInv, handlerVars
<1> QED
  BY <1>7, <1>8

-----------------------------------------------------------------------------
(* The actions.                                                            *)

\* What the codec lets through fits the cap, and a frame of size 1 fits every
\* cap.
LEMMA CodecFits ==
  ASSUME ServeInv, NEW f \in Frame
  PROVE  /\ write_frame(f, cap) = "ok" => f.size <= cap
         /\ f.size = 1 => (write_frame(f, cap) = "ok" <=> pipeUp)
         /\ write_frame(f, cap) = "ok" => Written(wire, f) = Append(wire, f)
         /\ write_frame(f, cap) # "ok" => Written(wire, f) = wire
<1>1. cap \in Nat \ {0} /\ f.size \in Nat
  BY DEF ServeInv, Frame
<1> QED
  BY <1>1 DEF write_frame, Written

\* The frames of the handlers.
LEMMA FramesOfHandlers ==
  /\ \A n \in Counted : ProgressFrame(n) \in Frame /\ ProgressFrame(n).kind = "progress" /\ ProgressFrame(n).size = 1
  /\ \A size \in Sizes : AnswerFrame(size) \in Frame /\ AnswerFrame(size).kind = "answer"
  /\ AnswerFrame(1) \in Frame /\ AnswerFrame(1).kind = "answer" /\ AnswerFrame(1).size = 1
  /\ ErrorFrame \in Frame /\ ErrorFrame.kind = "error"
  /\ \A n \in Nat : /\ RowsComplete(n) \in Frame /\ RowsComplete(n).kind = "rows_complete"
                    /\ RowsComplete(n).total = n
BY ServeAssumption DEF Frame, Counted, ProgressFrame, AnswerFrame, ErrorFrame, RowsComplete

\* The parts of the invariant a handler starts from.
LEMMA Served ==
  ASSUME ServeInv, loop = "serve"
  PROVE  /\ Pending(wire) /\ SoundWire(wire, emitter, cap) /\ wire \in Seq(Frame)
         /\ request \in [kind : Kinds, progress : BOOLEAN]
         /\ Handling
         /\ latch = "none" => AllWritten(wire, emitter)
         /\ request.kind \in RowKinds => items = Cardinality(RowsIn(wire))
         /\ cap \in Nat \ {0} /\ session \in BOOLEAN
BY DEF ServeInv, Handling, SoundWire, TypeOK

\* One more frame that is neither a row nor an answer, written or dropped.
LEMMA NoteStep ==
  ASSUME ServeInv, loop = "serve", loop' = "serve",
         NEW f \in Frame, f.kind \notin Terminal, f.kind # "row",
         wire' = wire \/ (wire' = Append(wire, f) /\ f.size <= cap),
         UNCHANGED <<cap, parentCap, pipeUp, session, request, served, emitter>>,
         request.kind \notin RowKinds, Handling', latch' = "none" => latch = "none"
  PROVE  ServeInv'
<1>1. /\ SoundWire(wire', emitter, cap) /\ Pending(wire')
      /\ latch' = "none" => AllWritten(wire', emitter)
  <2>0. /\ SoundWire(wire, emitter, cap) /\ Pending(wire) /\ wire \in Seq(Frame)
        /\ latch = "none" => AllWritten(wire, emitter)
    BY Served
  <2>1. CASE wire' = wire
    BY <2>0, <2>1
  <2>2. CASE wire' = Append(wire, f) /\ f.size <= cap
    <3>1. SoundWire(wire', emitter, cap) /\ (AllWritten(wire, emitter) => AllWritten(wire', emitter))
      BY <2>0, <2>2, NoteKeepsWire
    <3>2. Pending(wire')
      BY <2>0, <2>2, PendingAppended
    <3> QED
      BY <2>0, <3>1, <3>2
  <2> QED
    BY <2>1, <2>2
<1> QED
  BY <1>1, HandlerStep

\* A row.
LEMMA RowStep ==
  ASSUME ServeInv, loop = "serve", NEW s \in Streams, NEW size \in Nat, size <= cap,
         Advance(s), loop' = "serve",
         wire' = Append(wire, Row(s, size)),
         UNCHANGED <<cap, parentCap, pipeUp, session, request, served>>,
         Handling', latch' = latch,
         request.kind \in RowKinds => items' = items + 1
  PROVE  ServeInv'
<1>1. /\ emitter \in [Streams -> Nat] /\ SoundWire(wire, emitter, cap) /\ Pending(wire)
      /\ latch = "none" => AllWritten(wire, emitter)
      /\ request.kind \in RowKinds => items = Cardinality(RowsIn(wire))
      /\ wire \in Seq(Frame)
  BY Served DEF Handling
<1>2. Row(s, size) = NextRow(emitter, s, size) /\ emitter' = Advanced(emitter, s)
  BY DEF Row, Advance, NextRow, Advanced
<1>3. /\ Row(s, size) \in Frame /\ SoundWire(wire', emitter', cap)
      /\ latch = "none" => AllWritten(wire', emitter')
      /\ Cardinality(RowsIn(wire')) = Cardinality(RowsIn(wire)) + 1
  <2> DEFINE f == NextRow(emitter, s, size)
             d == Advanced(emitter, s)
  <2>1. /\ f \in Frame
        /\ SoundWire(Append(wire, f), d, cap)
        /\ AllWritten(wire, emitter) => AllWritten(Append(wire, f), d)
        /\ Cardinality(RowsIn(Append(wire, f))) = Cardinality(RowsIn(wire)) + 1
    BY <1>1, RowKeepsWire
  <2> HIDE DEF f, d
  <2>2. Row(s, size) = f /\ emitter' = d /\ wire' = Append(wire, f)
    BY <1>2 DEF f, d
  <2> QED
    BY <1>1, <2>1, <2>2
<1>4. Row(s, size).kind \notin Terminal
  BY DEF Terminal, Row
<1>5. Pending(wire')
  BY <1>1, <1>3, <1>4, PendingAppended
<1>6. loop' = "serve" /\ latch' = "none" => AllWritten(wire', emitter')
  BY <1>3
<1>7. loop' = "serve" /\ request.kind \in RowKinds => items' = Cardinality(RowsIn(wire'))
  BY <1>1, <1>3
<1> QED
  BY <1>3, <1>5, <1>6, <1>7, HandlerStep

\* A number given out to a row that was not written.
LEMMA Skipped ==
  ASSUME ServeInv, loop = "serve", NEW s \in Streams, Advance(s)
  PROVE  SoundWire(wire, emitter', cap) /\ emitter' \in [Streams -> Nat]
<1>1. /\ emitter \in [Streams -> Nat] /\ SoundWire(wire, emitter, cap)
      /\ emitter' = [emitter EXCEPT ![s] = @ + 1]
  BY Served DEF Handling, Advance
<1>2. emitter' \in [Streams -> Nat] /\ \A x \in Streams : emitter[x] <= emitter'[x]
  BY <1>1
<1>3. \A i \in RowsIn(wire) : wire[i].stream \in Streams /\ wire[i].sequence \in Nat
  <2> SUFFICES ASSUME NEW i \in RowsIn(wire)
               PROVE  wire[i].stream \in Streams /\ wire[i].sequence \in Nat
    OBVIOUS
  <2>1. wire[i] \in Frame /\ wire[i].kind = "row"
    BY <1>1 DEF RowsIn, SoundWire
  <2> QED
    BY <2>1 DEF Frame
<1>4. \A i \in RowsIn(wire) : wire[i].sequence < emitter[wire[i].stream]
  BY <1>1 DEF SoundWire, Numbered
<1>5. \A i \in RowsIn(wire) : wire[i].sequence < emitter'[wire[i].stream]
  <2> SUFFICES ASSUME NEW i \in RowsIn(wire)
               PROVE  wire[i].sequence < emitter'[wire[i].stream]
    OBVIOUS
  <2>1. wire[i].stream \in Streams /\ wire[i].sequence \in Nat
    BY <1>3
  <2>2. wire[i].sequence < emitter[wire[i].stream]
    BY <1>4
  <2>3. emitter[wire[i].stream] \in Nat /\ emitter'[wire[i].stream] \in Nat
    BY <1>1, <1>2, <2>1
  <2>4. emitter[wire[i].stream] <= emitter'[wire[i].stream]
    BY <1>2, <2>1
  <2> QED
    BY <2>1, <2>2, <2>3, <2>4
<1> QED
  BY <1>1, <1>2, <1>5 DEF SoundWire, Numbered

\* The handshake, the frame limit and the reading of requests.
LEMMA HandshakeKeeps == ASSUME ServeInv, Handshake PROVE ServeInv'
<1> DEFINE hello == [kind |-> "handshake", size |-> 1]
<1>1. hello \in Frame /\ hello.kind \notin Terminal /\ hello.kind # "row" /\ hello.size = 1
  BY DEF Frame, Terminal
<1>2. /\ loop = "start" /\ wire' = Written(wire, hello)
      /\ loop' = IF pipeUp THEN "configure" ELSE "exited"
      /\ UNCHANGED <<cap, parentCap, pipeUp, session, request, served, handlerVars>>
  BY DEF Handshake
<1>3. SoundWire(wire, emitter, cap) /\ Pending(wire) /\ wire \in Seq(Frame) /\ cap \in Nat \ {0}
  BY <1>2 DEF ServeInv, SoundWire
<1> HIDE DEF hello
<1>4. SoundWire(wire', emitter, cap) /\ Pending(wire')
  <2>1. CASE write_frame(hello, cap) = "ok"
    <3>1. wire' = Append(wire, hello) /\ hello.size <= cap
      BY <1>1, <1>2, <2>1, CodecFits
    <3> QED
      BY <1>1, <1>3, <3>1, NoteKeepsWire, PendingAppended
  <2>2. CASE write_frame(hello, cap) # "ok"
    BY <1>1, <1>2, <1>3, <2>2, CodecFits
  <2> QED
    BY <2>1, <2>2
<1>5. CompleteIsExact'
  BY <1>4, PendingIsExact
<1>6. TypeOK'
  BY <1>2, <1>4, TypesFollow DEF ServeInv, SoundWire, TypeOK, handlerVars
<1> QED
  BY <1>2, <1>4, <1>5, <1>6 DEF ServeInv, handlerVars

\* An empty wire.
LEMMA EmptyWire ==
  /\ \A limit, e : SoundWire(<<>>, e, limit)
  /\ Pending(<<>>) /\ RowsIn(<<>>) = {} /\ Cardinality({}) = 0
  /\ AllWritten(<<>>, ZeroEmitter)
<1>1. <<>> \in Seq(Frame) /\ 1..Len(<<>>) = {}
  OBVIOUS
<1>2. RowsIn(<<>>) = {} /\ \A s \in Streams : RowsOfIn(<<>>, s) = {}
  BY <1>1 DEF RowsIn, RowsOfIn
<1>3. Cardinality({}) = 0
  BY FS_EmptySet
<1>4. \A limit, e : SoundWire(<<>>, e, limit)
  BY <1>1, <1>2 DEF SoundWire, Fits, Numbered, Growing
<1>5. AllWritten(<<>>, ZeroEmitter)
  BY <1>2, <1>3 DEF AllWritten, ZeroEmitter
<1> QED
  BY <1>1, <1>2, <1>3, <1>4, <1>5 DEF Pending

\* The frame limit is installed on both sides, on an empty wire.
LEMMA ConfigureKeeps == ASSUME ServeInv, Configure PROVE ServeInv'
<1>1. PICK limit \in Caps : cap' = limit /\ parentCap' = limit
  BY DEF Configure
<1>2. /\ loop = "configure" /\ loop' = "read" /\ wire' = <<>>
      /\ UNCHANGED <<pipeUp, session, request, served, handlerVars>>
  BY DEF Configure
<1>3. cap' \in Nat \ {0} /\ parentCap' = cap'
  BY <1>1, ServeAssumption
<1>4. SoundWire(wire', emitter', cap') /\ Pending(wire') /\ wire' \in Seq(Frame)
  BY <1>2, EmptyWire DEF SoundWire
<1>5. CompleteIsExact'
  BY <1>4, PendingIsExact
<1>6. TypeOK'
  BY <1>2, <1>3, <1>4, TypesFollow DEF ServeInv, TypeOK, handlerVars
<1> QED
  BY <1>2, <1>3, <1>4, <1>5, <1>6 DEF ServeInv, handlerVars

\* A step that changes nothing but where the loop is, or the pipe.
LEMMA LoopStep ==
  ASSUME ServeInv, loop' = loop \/ loop' = "exited", pipeUp' \in BOOLEAN,
         UNCHANGED <<cap, parentCap, session, request, wire, served, handlerVars>>
  PROVE  ServeInv'
<1>1. CompleteIsExact'
  <2>1. wire' = wire /\ refused' = refused
    BY DEF handlerVars
  <2>2. Frames("row")' = Frames("row") /\ \A s : RowsOf(s)' = RowsOf(s)
    BY <2>1, SameRows
  <2>3. CompleteIsExact
    BY DEF ServeInv
  <2> QED
    BY <2>1, <2>2, <2>3 DEF CompleteIsExact
<1>2. TypeOK'
  BY DEF ServeInv, TypeOK, handlerVars
<1>3. loop' = "exited" => Pending(wire) \/ Ended(wire)
  <2>1. wire = <<>> => Pending(wire)
    BY EmptyWire
  <2>2. loop \in {"start", "configure", "read", "serve", "exited"}
    BY DEF ServeInv, TypeOK
  <2> QED
    BY <2>1, <2>2 DEF ServeInv
<1> QED
  BY <1>1, <1>2, <1>3 DEF ServeInv, handlerVars

\* A new request starts with an empty wire, or with its first tick, and with
\* fresh handler state.
LEMMA ReadFrameKeeps == ASSUME ServeInv, ReadFrame PROVE ServeInv'
<1>1. PICK k \in Kinds, progress \in BOOLEAN :
        /\ request' = [kind |-> k, progress |-> progress]
        /\ wire' = IF progress /\ k \in TicksFirst /\ session
                   THEN Written(<<>>, ProgressFrame(0)) ELSE <<>>
  BY DEF ReadFrame
<1>2. /\ loop = "read" /\ served < MaxRequests /\ loop' = "serve"
      /\ served' = served + 1
      /\ FreshHandler /\ UNCHANGED <<cap, parentCap, pipeUp, session>>
  BY DEF ReadFrame
<1>3. Handling' /\ emitter' = ZeroEmitter /\ items' = 0
  <2>1. ZeroEmitter \in [Streams -> Nat]
    BY DEF ZeroEmitter
  <2> QED
    BY <1>2, <2>1, ServeAssumption DEF FreshHandler, Handling
<1>4. ProgressFrame(0) \in Frame /\ ProgressFrame(0).kind = "progress" /\ ProgressFrame(0).size = 1
  BY FramesOfHandlers DEF Counted
<1>5. cap \in Nat \ {0}
  BY DEF ServeInv
<1>6. /\ SoundWire(wire', ZeroEmitter, cap) /\ Pending(wire')
      /\ AllWritten(wire', ZeroEmitter) /\ RowsIn(wire') = {}
  <2>1. CASE wire' = <<>>
    BY <2>1, EmptyWire
  <2>2. CASE wire' = Append(<<>>, ProgressFrame(0))
    <3>1. ProgressFrame(0).kind \notin Terminal /\ ProgressFrame(0).kind # "row" /\ ProgressFrame(0).size <= cap
      BY <1>4, <1>5 DEF Terminal
    <3>2. SoundWire(<<>>, ZeroEmitter, cap) /\ <<>> \in Seq(Frame)
      BY EmptyWire
    <3>3. /\ SoundWire(wire', ZeroEmitter, cap)
          /\ AllWritten(<<>>, ZeroEmitter) => AllWritten(wire', ZeroEmitter)
          /\ RowsIn(wire') = RowsIn(<<>>)
      BY <1>4, <2>2, <3>1, <3>2, NoteKeepsWire
    <3>4. Pending(wire')
      BY <1>4, <2>2, <3>1, <3>2, EmptyWire, PendingAppended
    <3> QED
      BY <3>3, <3>4, EmptyWire
  <2>3. wire' = <<>> \/ wire' = Append(<<>>, ProgressFrame(0))
    BY <1>1 DEF Written
  <2> QED
    BY <2>1, <2>2, <2>3
<1>7. CompleteIsExact'
  BY <1>6, PendingIsExact
<1>8. request' \in [kind : Kinds, progress : BOOLEAN] /\ served' \in 0..MaxRequests
  <2>1. served \in 0..MaxRequests
    BY DEF ServeInv, TypeOK
  <2> QED
    BY <1>1, <1>2, <2>1, ServeAssumption
<1>9. TypeOK'
  <2>1. wire' \in Seq(Frame)
    BY <1>6 DEF SoundWire
  <2> QED
    BY <1>2, <1>3, <1>8, <2>1, TypesFollow DEF ServeInv, TypeOK, Handling
<1> QED
  BY <1>2, <1>3, <1>6, <1>7, <1>8, <1>9, EmptyWire DEF ServeInv, Handling

\* One answer and nothing else, or after the handler's own frames.
LEMMA ErrorStep ==
  ASSUME ServeInv, loop = "serve", Respond(ErrorFrame), session' \in BOOLEAN
  PROVE  ServeInv'
<1>1. ErrorFrame \in Frame /\ ErrorFrame.kind = "error" /\ ErrorFrame.kind \in Terminal
  BY FramesOfHandlers DEF Terminal
<1>2. SoundWire(wire, emitter, cap) /\ Pending(wire)
  BY Served
<1>3. /\ write_response(wire, ErrorFrame)
      /\ UNCHANGED <<cap, parentCap, pipeUp, request, served, handlerVars>>
  BY DEF Respond
<1> QED
  BY <1>1, <1>2, <1>3, AnswerStep

\* The same with an answer.
LEMMA PlainStep ==
  ASSUME ServeInv, loop = "serve", NEW size \in Sizes, Respond(AnswerFrame(size)),
         session' \in BOOLEAN
  PROVE  ServeInv'
<1>1. /\ AnswerFrame(size) \in Frame /\ AnswerFrame(size).kind = "answer"
      /\ AnswerFrame(size).kind \in Terminal
  BY FramesOfHandlers DEF Terminal
<1>2. SoundWire(wire, emitter, cap) /\ Pending(wire)
  BY Served
<1>3. /\ write_response(wire, AnswerFrame(size))
      /\ UNCHANGED <<cap, parentCap, pipeUp, request, served, handlerVars>>
  BY DEF Respond
<1> QED
  BY <1>1, <1>2, <1>3, AnswerStep

\* The handlers that write one answer.
LEMMA AnswersKeep ==
  ASSUME ServeInv, AnswerOnce \/ SessionMissing \/ Open \/ NamesDone
  PROVE  ServeInv'
<1>1. session \in BOOLEAN
  BY DEF ServeInv, TypeOK
<1>2. CASE AnswerOnce
  <2>1. loop = "serve" /\ session' \in BOOLEAN
    BY <1>1, <1>2 DEF AnswerOnce, Serving
  <2>2. Respond(ErrorFrame) \/ \E size \in Sizes : Respond(AnswerFrame(size))
    BY <1>2 DEF AnswerOnce
  <2> QED
    BY <2>1, <2>2, ErrorStep, PlainStep
<1>3. CASE SessionMissing
  BY <1>1, <1>3, ErrorStep DEF SessionMissing
<1>4. CASE Open
  <2>1. loop = "serve" /\ session' \in BOOLEAN
    BY <1>4 DEF Open, Serving
  <2>2. Respond(ErrorFrame) \/ \E size \in Sizes : Respond(AnswerFrame(size))
    BY <1>4 DEF Open
  <2> QED
    BY <2>1, <2>2, ErrorStep, PlainStep
<1>5. CASE NamesDone
  <2>1. loop = "serve" /\ session' \in BOOLEAN
    BY <1>1, <1>5 DEF NamesDone, Computing
  <2>2. Respond(ErrorFrame) \/ \E size \in Sizes : Respond(AnswerFrame(size))
    BY <1>5 DEF NamesDone
  <2> QED
    BY <2>1, <2>2, ErrorStep, PlainStep
<1> QED
  BY <1>2, <1>3, <1>4, <1>5

\* A tick of a bulk request: the counter stays in its bound.
LEMMA LookUpNameKeeps == ASSUME ServeInv, LookUpName PROVE ServeInv'
<1>1. /\ loop = "serve" /\ request.kind \in {"kinds", "work"} /\ items < Lookups
      /\ items' = items + 1 /\ wire' = Written(wire, ProgressFrame(items + 1))
      /\ UNCHANGED <<loopVars, emitter, metadata, latch, calling, statusByte, refused>>
  BY DEF LookUpName, Computing
<1>2. items \in 0..MaxItems /\ Handling
  BY <1>1, Served DEF Handling
<1>3. Lookups <= MaxItems
  BY ServeAssumption DEF Lookups
<1>4. items' \in 0..MaxItems /\ items + 1 \in Counted
  BY <1>1, <1>2, <1>3, ServeAssumption DEF Lookups, Counted
<1>5. Handling'
  BY <1>1, <1>2, <1>4 DEF Handling
<1>6. /\ ProgressFrame(items + 1) \in Frame /\ ProgressFrame(items + 1).kind \notin Terminal
      /\ ProgressFrame(items + 1).kind # "row"
  BY <1>4, FramesOfHandlers DEF Terminal
<1>7. wire' = wire \/ (wire' = Append(wire, ProgressFrame(items + 1)) /\ ProgressFrame(items + 1).size <= cap)
  BY <1>1, <1>6, CodecFits DEF Written
<1>8. request.kind \notin RowKinds
  BY <1>1 DEF RowKinds
<1> QED
  BY <1>1, <1>5, <1>6, <1>7, <1>8, NoteStep DEF loopVars

\* Rows of a list and of the test requests.
LEMMA ListRowKeeps == ASSUME ServeInv, ListRow PROVE ServeInv'
<1> DEFINE s == CHOOSE x \in Streams : TRUE
<1>1. s \in Streams
  BY ServeAssumption
<1>2. loop = "serve" /\ request.kind = "list" /\ session /\ items < MaxItems
  BY DEF ListRow, Serving
<1>3. PICK size \in Sizes :
        IF write_frame(Row(s, size), cap) = "ok"
        THEN /\ Advance(s) /\ items' = items + 1
             /\ wire' = Written(wire, Row(s, size))
             /\ UNCHANGED <<loopVars, metadata, latch, calling, statusByte, refused>>
        ELSE Respond(ErrorFrame) /\ UNCHANGED session
  BY DEF ListRow
<1> HIDE DEF s
<1>4. size \in Nat /\ Handling /\ cap \in Nat /\ session \in BOOLEAN
  BY <1>2, Served, ServeAssumption
<1>5. CASE write_frame(Row(s, size), cap) = "ok"
  <2>1. /\ Advance(s) /\ items' = items + 1 /\ wire' = Append(wire, Row(s, size))
        /\ UNCHANGED <<loopVars, metadata, latch, calling, statusByte, refused>>
    BY <1>3, <1>5 DEF Written
  <2>2. size <= cap
    BY <1>4, <1>5 DEF write_frame, Row
  <2>3. items' \in 0..MaxItems
    BY <1>2, <1>4, <2>1, ServeAssumption DEF Handling
  <2>4. emitter' \in [Streams -> Nat]
    BY <1>1, <1>2, <2>1, Skipped
  <2>5. Handling'
    BY <1>4, <2>1, <2>3, <2>4 DEF Handling
  <2> QED
    BY <1>1, <1>2, <1>4, <2>1, <2>2, <2>5, RowStep DEF loopVars
<1>6. CASE write_frame(Row(s, size), cap) # "ok"
  <2>1. Respond(ErrorFrame) /\ session' = session
    BY <1>3, <1>6
  <2> QED
    BY <1>2, <1>4, <2>1, ErrorStep
<1> QED
  BY <1>5, <1>6

\* The summary of a list counts its rows.
LEMMA ListDoneKeeps == ASSUME ServeInv, ListDone PROVE ServeInv'
<1> DEFINE w == IF request.progress THEN Written(wire, ProgressFrame(items)) ELSE wire
<1>1. /\ loop = "serve" /\ request.kind = "list"
      /\ write_response(w, RowsComplete(items))
      /\ UNCHANGED <<cap, parentCap, pipeUp, session, request, served, handlerVars>>
  BY DEF ListDone, Serving
<1>2. /\ Pending(wire) /\ SoundWire(wire, emitter, cap) /\ wire \in Seq(Frame)
      /\ items = Cardinality(RowsIn(wire)) /\ items \in Nat /\ session \in BOOLEAN
  BY <1>1, Served, ServeAssumption DEF Handling, RowKinds
<1>3. /\ ProgressFrame(items) \in Frame /\ ProgressFrame(items).kind \notin Terminal
      /\ ProgressFrame(items).kind # "row"
  BY <1>2, FramesOfHandlers DEF Counted, Terminal
<1>4. w = wire \/ (w = Append(wire, ProgressFrame(items)) /\ ProgressFrame(items).size <= cap)
  BY <1>3, CodecFits DEF Written
<1> HIDE DEF w
<1>5. SoundWire(w, emitter, cap) /\ Pending(w) /\ RowsIn(w) = RowsIn(wire)
  <2>1. CASE w = wire
    BY <1>2, <2>1
  <2>2. CASE w = Append(wire, ProgressFrame(items)) /\ ProgressFrame(items).size <= cap
    BY <1>2, <1>3, <2>2, NoteKeepsWire, PendingAppended
  <2> QED
    BY <1>4, <2>1, <2>2
<1>6. /\ RowsComplete(items) \in Frame /\ RowsComplete(items).kind = "rows_complete"
      /\ RowsComplete(items).total = items /\ RowsComplete(items).kind \in Terminal
  BY <1>2, FramesOfHandlers DEF Terminal
<1> QED
  BY <1>1, <1>2, <1>5, <1>6, AnswerStep

\* A test row is written, or the child ends with the pipe.
LEMMA TestRowKeeps == ASSUME ServeInv, TestRow PROVE ServeInv'
<1>1. /\ loop = "serve" /\ request.kind \in {"test_rows", "test_exit", "test_panic"}
      /\ items < (IF request.kind = "test_rows" THEN MaxItems ELSE 1)
      /\ UNCHANGED <<cap, parentCap, pipeUp, session, request, served,
                     metadata, latch, calling, statusByte, refused>>
  BY DEF TestRow
<1>2. PICK s \in Streams :
        /\ Advance(s) /\ items' = items + 1
        /\ wire' = Written(wire, Row(s, 1))
        /\ loop' = IF pipeUp THEN loop ELSE "exited"
  BY DEF TestRow
<1>3. Handling /\ cap \in Nat \ {0} /\ 1 <= cap
  BY <1>1, Served
<1>4. items' \in 0..MaxItems
  BY <1>1, <1>2, <1>3, ServeAssumption DEF Handling
<1>5. SoundWire(wire, emitter', cap) /\ emitter' \in [Streams -> Nat]
  BY <1>1, <1>2, Skipped
<1>6. Handling'
  BY <1>1, <1>3, <1>4, <1>5 DEF Handling
<1>7. CASE pipeUp
  <2>1. wire' = Append(wire, Row(s, 1)) /\ loop' = "serve"
    BY <1>1, <1>2, <1>3, <1>7 DEF Written, write_frame, Row
  <2> QED
    BY <1>1, <1>2, <1>3, <1>6, <2>1, RowStep
<1>8. CASE ~pipeUp
  <2>1. wire' = wire /\ loop' = "exited"
    BY <1>2, <1>8 DEF Written, write_frame
  <2>2. Pending(wire)
    BY <1>1, Served
  <2> QED
    BY <1>1, <1>5, <1>6, <2>1, <2>2, HandlerStep
<1> QED
  BY <1>7, <1>8

\* The summary of the test rows.
LEMMA TestRowsDoneKeeps == ASSUME ServeInv, TestRowsDone PROVE ServeInv'
<1>1. /\ loop = "serve" /\ request.kind = "test_rows" /\ session' = session
      /\ write_response(wire, RowsComplete(items))
      /\ UNCHANGED <<cap, parentCap, pipeUp, request, served, handlerVars>>
  BY DEF TestRowsDone, Serving, Respond
<1>2. /\ Pending(wire) /\ SoundWire(wire, emitter, cap)
      /\ items = Cardinality(RowsIn(wire)) /\ items \in Nat /\ session \in BOOLEAN
  BY <1>1, Served, ServeAssumption DEF Handling, RowKinds
<1>3. /\ RowsComplete(items) \in Frame /\ RowsComplete(items).kind = "rows_complete"
      /\ RowsComplete(items).total = items /\ RowsComplete(items).kind \in Terminal
  BY <1>2, FramesOfHandlers DEF Terminal
<1> QED
  BY <1>1, <1>2, <1>3, AnswerStep

\* The farewell is the last frame.
LEMMA TerminateKeeps == ASSUME ServeInv, Terminate PROVE ServeInv'
<1>1. /\ loop = "serve" /\ wire' = Written(wire, AnswerFrame(1)) /\ loop' = "exited"
      /\ UNCHANGED <<cap, parentCap, pipeUp, session, request, served, handlerVars>>
  BY DEF Terminate, Serving
<1>2. /\ AnswerFrame(1) \in Frame /\ AnswerFrame(1).kind = "answer" /\ AnswerFrame(1).size = 1
      /\ AnswerFrame(1).kind \in Terminal
  BY FramesOfHandlers DEF Terminal
<1>3. Pending(wire) /\ SoundWire(wire, emitter, cap) /\ wire \in Seq(Frame)
  BY <1>1, Served
<1>4. CASE wire' = wire
  BY <1>1, <1>4, LoopStep DEF ServeInv, TypeOK
<1>5. CASE wire' = Append(wire, AnswerFrame(1)) /\ AnswerFrame(1).size <= cap
  <2>1. SoundWire(wire', emitter, cap)
    BY <1>2, <1>3, <1>5, NoteKeepsWire
  <2>2. Ended(wire')
    BY <1>2, <1>3, <1>5, PendingAppended
  <2>3. wire'[Len(wire')].kind = "answer"
    BY <1>2, <1>3, <1>5, Appended
  <2>4. \A i \in 1..Len(wire') : wire'[i].kind \notin {"stream_complete", "rows_complete"}
    BY <2>2, <2>3 DEF Ended, Terminal
  <2>5. CompleteIsExact'
    BY <2>4 DEF CompleteIsExact
  <2>6. TypeOK'
    BY <1>1, <2>1, TypesFollow DEF ServeInv, SoundWire, TypeOK, handlerVars
  <2> QED
    BY <1>1, <2>1, <2>2, <2>5, <2>6 DEF ServeInv, handlerVars
<1>6. wire' = wire \/ (wire' = Append(wire, AnswerFrame(1)) /\ AnswerFrame(1).size <= cap)
  BY <1>1, <1>2, CodecFits DEF Written
<1> QED
  BY <1>4, <1>5, <1>6

-----------------------------------------------------------------------------
(* The callbacks of a stream.                                              *)

\* Where a callback runs, and the event it runs with.
LEMMA Calling ==
  ASSUME ServeInv, NEW t \in LeanThreads, Streaming, calling[t].kind # "none"
  PROVE  /\ loop = "serve" /\ request.kind = "stream" /\ request.kind \notin RowKinds
         /\ calling[t] \in Events
         /\ calling[t].kind = "row" => calling[t].stream \in Streams /\ calling[t].size \in Sizes
         /\ calling[t].kind \in {"diagnostic", "tick"} => calling[t].size \in Sizes
         /\ [calling EXCEPT ![t] = None] \in [LeanThreads -> Events \cup {None}]
<1>1. loop = "serve" /\ request.kind = "stream" /\ request.kind \notin RowKinds
  BY DEF Streaming, Serving, RowKinds
<1>2. calling \in [LeanThreads -> Events \cup {None}]
  BY DEF ServeInv
<1>3. calling[t] \in Events
  BY <1>2 DEF None
<1>4. /\ calling[t].kind = "row" => calling[t].stream \in Streams /\ calling[t].size \in Sizes
      /\ calling[t].kind \in {"diagnostic", "tick"} => calling[t].size \in Sizes
  BY <1>3 DEF Events
<1>5. [calling EXCEPT ![t] = None] \in [LeanThreads -> Events \cup {None}]
  BY <1>2
<1> QED
  BY <1>1, <1>3, <1>4, <1>5

\* A callback that writes nothing.
LEMMA QuietStep ==
  ASSUME ServeInv, Streaming, Handling', latch' = "none" => latch = "none",
         UNCHANGED <<loopVars, wire, emitter>>
  PROVE  ServeInv'
<1>1. loop = "serve" /\ request.kind \notin RowKinds
  BY DEF Streaming, Serving, RowKinds
<1>2. /\ SoundWire(wire, emitter, cap) /\ Pending(wire)
      /\ latch = "none" => AllWritten(wire, emitter)
  BY <1>1, Served
<1> QED
  BY <1>1, <1>2, HandlerStep DEF loopVars

\* A callback enters past the latch.
LEMMA CallbackEnterKeeps ==
  ASSUME ServeInv, NEW t \in LeanThreads, CallbackEnter(t)
  PROVE  ServeInv'
<1>1. /\ Streaming /\ items < MaxItems /\ items' = items + 1
      /\ UNCHANGED <<loopVars, wire, emitter, metadata, latch, statusByte, refused>>
  BY DEF CallbackEnter
<1>2. PICK e \in Events : calling' = [calling EXCEPT ![t] = e]
  BY DEF CallbackEnter
<1>3. Handling
  BY <1>1, Served DEF Streaming, Serving
<1>4. items' \in 0..MaxItems
  BY <1>1, <1>3, ServeAssumption DEF Handling
<1>5. calling' \in [LeanThreads -> Events \cup {None}]
  BY <1>2, <1>3 DEF Handling
<1>6. Handling'
  BY <1>1, <1>3, <1>4, <1>5 DEF Handling
<1> QED
  BY <1>1, <1>6, QuietStep

\* Latching an error: from then on the stream has no summary.
LEMMA LatchKeeps ==
  ASSUME Handling, NEW error \in {"write", "malformed"}, Latched(error)
  PROVE  refused' \in Nat /\ latch' \in {"none", "write", "malformed"} /\ latch' # "none"
BY DEF Latched, Handling

\* A callback writes its row and the tick after it, or latches the failure.
LEMMA CallbackRowKeeps ==
  ASSUME ServeInv, NEW t \in LeanThreads, CallbackRow(t)
  PROVE  ServeInv'
<1> DEFINE s == calling[t].stream
           size == calling[t].size
           row == Row(s, size)
           tick == ProgressFrame(SumOf(emitter) + 1)
<1>1. /\ Streaming /\ calling[t].kind = "row" /\ Advance(s)
      /\ calling' = [calling EXCEPT ![t] = None]
      /\ UNCHANGED <<loopVars, items, metadata, statusByte>>
  BY DEF CallbackRow
<1>2. \/ /\ write_frame(row, cap) = "ok"
         /\ wire' = IF request.progress THEN Append(Append(wire, row), tick) ELSE Append(wire, row)
         /\ UNCHANGED <<latch, refused>>
      \/ Latched("write") /\ wire' = wire
  BY DEF CallbackRow
<1>3. /\ s \in Streams /\ size \in Nat /\ loop = "serve" /\ request.kind \notin RowKinds
      /\ calling' \in [LeanThreads -> Events \cup {None}]
  BY <1>1, Calling, ServeAssumption
<1>4. /\ Handling /\ cap \in Nat \ {0} /\ Pending(wire) /\ SoundWire(wire, emitter, cap)
      /\ wire \in Seq(Frame)
      /\ latch = "none" => AllWritten(wire, emitter)
  BY <1>3, Served
<1> HIDE DEF s, size
<1>5. SoundWire(wire, emitter', cap) /\ emitter' \in [Streams -> Nat]
  BY <1>1, <1>3, Skipped
<1>6. CASE Latched("write") /\ wire' = wire
  <2>1. refused' \in Nat /\ latch' \in {"none", "write", "malformed"} /\ latch' # "none"
    BY <1>4, <1>6, LatchKeeps
  <2>2. Handling'
    BY <1>1, <1>3, <1>4, <1>5, <2>1 DEF Handling
  <2> QED
    BY <1>1, <1>3, <1>4, <1>5, <1>6, <2>1, <2>2, HandlerStep DEF loopVars
<1>7. CASE /\ write_frame(row, cap) = "ok"
           /\ wire' = IF request.progress THEN Append(Append(wire, row), tick)
                      ELSE Append(wire, row)
           /\ UNCHANGED <<latch, refused>>
  <2>1. size <= cap
    BY <1>3, <1>4, <1>7 DEF write_frame, Row
  <2>2. Handling'
    BY <1>1, <1>3, <1>4, <1>5, <1>7 DEF Handling
  <2>3. emitter \in [Streams -> Nat]
    BY <1>4 DEF Handling
  <2>4. row = NextRow(emitter, s, size) /\ emitter' = Advanced(emitter, s)
    BY <1>1 DEF Row, Advance, NextRow, Advanced
  <2>5. row.kind \notin Terminal
    BY DEF Row, Terminal
  <2> DEFINE f == NextRow(emitter, s, size)
             d == Advanced(emitter, s)
  <2>6. /\ f \in Frame
        /\ SoundWire(Append(wire, f), d, cap)
        /\ AllWritten(wire, emitter) => AllWritten(Append(wire, f), d)
    BY <1>3, <1>4, <2>1, <2>3, RowKeepsWire
  <2> DEFINE w == Append(wire, row)
  <2> HIDE DEF f, d, row, tick
  <2>7. /\ SoundWire(w, emitter', cap) /\ row \in Frame
        /\ AllWritten(wire, emitter) => AllWritten(w, emitter')
    BY <2>4, <2>6 DEF f, d
  <2>8. Pending(w)
    BY <1>4, <2>5, <2>7, PendingAppended
  <2> HIDE DEF w
  <2>9. w \in Seq(Frame)
    BY <2>7 DEF SoundWire
  <2>10. /\ tick \in Frame /\ tick.kind \notin Terminal /\ tick.kind # "row"
         /\ tick.size <= cap
    <3>1. SumOf(emitter) + 1 \in Counted
      BY <2>3, Zenon DEF Counted
    <3>2. tick \in Frame /\ tick.kind = "progress" /\ tick.size = 1
      BY <3>1, FramesOfHandlers, Zenon DEF tick
    <3> QED
      BY <1>4, <3>2 DEF Terminal
  <2>11. /\ SoundWire(wire', emitter', cap) /\ Pending(wire')
         /\ latch' = "none" => AllWritten(wire', emitter')
    <3>1. latch' = "none" => AllWritten(w, emitter')
      BY <1>4, <1>7, <2>7
    <3>2. CASE wire' = w
      BY <2>7, <2>8, <3>1, <3>2
    <3>3. CASE wire' = Append(w, tick)
      <4>1. /\ SoundWire(wire', emitter', cap)
            /\ AllWritten(w, emitter') => AllWritten(wire', emitter')
        BY <2>7, <2>10, <3>3, NoteKeepsWire
      <4>2. Pending(wire')
        BY <2>8, <2>9, <2>10, <3>3, PendingAppended
      <4> QED
        BY <3>1, <4>1, <4>2
    <3>4. wire' = w \/ wire' = Append(w, tick)
      BY <1>7 DEF w
    <3> QED
      BY <3>2, <3>3, <3>4
  <2> QED
    BY <1>1, <1>3, <2>2, <2>11, HandlerStep DEF loopVars
<1> QED
  BY <1>2, <1>6, <1>7

\* A callback writes a note, or latches the failure.
LEMMA CallbackNoteKeeps ==
  ASSUME ServeInv, NEW t \in LeanThreads, CallbackNote(t)
  PROVE  ServeInv'
<1> DEFINE f == [kind |-> "note", size |-> calling[t].size]
<1>1. /\ Streaming /\ calling[t].kind \in {"diagnostic", "tick"}
      /\ calling' = [calling EXCEPT ![t] = None]
      /\ UNCHANGED <<loopVars, emitter, items, metadata, statusByte>>
  BY DEF CallbackNote
<1>2. \/ write_frame(f, cap) = "ok" /\ wire' = Append(wire, f) /\ UNCHANGED <<latch, refused>>
      \/ Latched("write") /\ wire' = wire
  BY DEF CallbackNote
<1>3. /\ calling[t].size \in Nat /\ loop = "serve" /\ request.kind \notin RowKinds
      /\ calling' \in [LeanThreads -> Events \cup {None}]
  BY <1>1, Calling, ServeAssumption
<1>4. Handling
  BY <1>3, Served
<1>5. f \in Frame /\ f.kind \notin Terminal /\ f.kind # "row"
  BY <1>3 DEF Frame, Terminal
<1> HIDE DEF f
<1>6. CASE write_frame(f, cap) = "ok" /\ wire' = Append(wire, f) /\ UNCHANGED <<latch, refused>>
  <2>1. f.size <= cap
    BY <1>5, <1>6, CodecFits
  <2>2. Handling' /\ (latch' = "none" => latch = "none")
    BY <1>1, <1>3, <1>4, <1>6 DEF Handling
  <2> QED
    BY <1>1, <1>3, <1>5, <1>6, <2>1, <2>2, NoteStep DEF loopVars
<1>7. CASE Latched("write") /\ wire' = wire
  <2>1. refused' \in Nat /\ latch' \in {"none", "write", "malformed"} /\ latch' # "none"
    BY <1>4, <1>7, LatchKeeps
  <2>2. Handling' /\ (latch' = "none" => latch = "none")
    BY <1>1, <1>3, <1>4, <2>1 DEF Handling
  <2> QED
    BY <1>1, <1>7, <2>2, QuietStep
<1> QED
  BY <1>2, <1>6, <1>7

\* A callback keeps metadata, or latches a malformed event.
LEMMA CallbackSilentKeeps ==
  ASSUME ServeInv, NEW t \in LeanThreads, CallbackMetadata(t) \/ CallbackMalformed(t)
  PROVE  ServeInv'
<1>1. /\ Streaming /\ calling[t].kind \in {"metadata", "malformed"}
      /\ calling' = [calling EXCEPT ![t] = None]
      /\ UNCHANGED <<loopVars, wire, emitter, items, statusByte>>
  BY DEF CallbackMetadata, CallbackMalformed
<1>2. /\ loop = "serve" /\ calling' \in [LeanThreads -> Events \cup {None}]
  BY <1>1, Calling
<1>3. Handling
  BY <1>2, Served
<1>4. CASE CallbackMetadata(t)
  <2>1. Handling' /\ (latch' = "none" => latch = "none")
    BY <1>1, <1>2, <1>3, <1>4 DEF CallbackMetadata, Handling
  <2> QED
    BY <1>1, <2>1, QuietStep
<1>5. CASE CallbackMalformed(t)
  <2>1. Latched("malformed") /\ metadata' = metadata
    BY <1>5 DEF CallbackMalformed
  <2>2. refused' \in Nat /\ latch' \in {"none", "write", "malformed"} /\ latch' # "none"
    BY <1>3, <2>1, LatchKeeps
  <2>3. Handling' /\ (latch' = "none" => latch = "none")
    BY <1>1, <1>2, <1>3, <2>1, <2>2 DEF Handling
  <2> QED
    BY <1>1, <2>3, QuietStep
<1> QED
  BY <1>4, <1>5

\* The export comes back.
LEMMA ExportReturnsKeeps == ASSUME ServeInv, ExportReturns PROVE ServeInv'
<1>1. /\ Streaming /\ statusByte' \in Statuses
      /\ UNCHANGED <<loopVars, wire, emitter, items, metadata, latch, calling, refused>>
  BY DEF ExportReturns
<1>2. Handling
  BY <1>1, Served DEF Streaming, Serving
<1>3. Handling'
  BY <1>1, <1>2 DEF Handling
<1> QED
  BY <1>1, <1>3, QuietStep

\* The answer of a stream: the latched error comes before the export's status.
LEMMA StreamReturnsKeeps == ASSUME ServeInv, StreamReturns PROVE ServeInv'
<1>1. /\ loop = "serve" /\ session' = session
  BY DEF StreamReturns, Streaming, Serving
<1>2. Respond(StreamAnswer(statusByte))
  BY DEF StreamReturns
<1> DEFINE a == StreamAnswer(statusByte)
<1>3. /\ Handling /\ Pending(wire) /\ SoundWire(wire, emitter, cap)
      /\ session \in BOOLEAN
      /\ latch = "none" => AllWritten(wire, emitter)
  BY <1>1, Served
<1>4. /\ Summary \in Frame /\ Summary.kind = "stream_complete"
      /\ Summary.counts = emitter
  <2>1. SumOf(emitter) \in Counted
    BY <1>3, Zenon DEF Counted, Handling
  <2> QED
    BY <1>3, <2>1 DEF Summary, Frame, Handling
<1>5. /\ ErrorFrame \in Frame /\ ErrorFrame.kind = "error"
  BY FramesOfHandlers
<1>6. a = Summary => latch = "none"
  BY <1>4, <1>5 DEF StreamAnswer
<1>7. a = Summary \/ (a \in Frame /\ a.kind \in {"error", "stream_failed"})
  <2>1. [kind |-> "stream_failed", size |-> 1] \in Frame
    BY DEF Frame
  <2> QED
    BY <1>5, <2>1 DEF StreamAnswer
<1> HIDE DEF a
<1>8. a \in Frame /\ a.kind \in Terminal /\ a.kind # "rows_complete"
  BY <1>4, <1>7 DEF Terminal
<1>9. a.kind = "stream_complete" => refused = 0 /\ AllWritten(wire, a.counts)
  BY <1>3, <1>4, <1>6, <1>7 DEF Handling
<1>10. /\ write_response(wire, a)
       /\ UNCHANGED <<cap, parentCap, pipeUp, request, served, handlerVars>>
  BY <1>2 DEF Respond, a
<1> QED
  BY <1>1, <1>3, <1>8, <1>9, <1>10, AnswerStep

-----------------------------------------------------------------------------
(* The theorems.                                                           *)

\* Every step keeps the invariant.
LEMMA StepKeeps == ServeInv /\ [Next]_vars => ServeInv'
<1> SUFFICES ASSUME ServeInv, [Next]_vars PROVE ServeInv'
  OBVIOUS
<1>1. pipeUp \in BOOLEAN
  BY DEF ServeInv, TypeOK
<1>2. CASE Handshake \/ Configure \/ ReadFrame
  BY <1>2, HandshakeKeeps, ConfigureKeeps, ReadFrameKeeps
<1>3. CASE ReadFails \/ TestExit \/ PipeBreaks \/ LeanPanics
  BY <1>1, <1>3, LoopStep DEF ReadFails, TestExit, PipeBreaks, LeanPanics
<1>4. CASE AnswerOnce \/ SessionMissing \/ Open \/ NamesDone
  BY <1>4, AnswersKeep
<1>5. CASE LookUpName \/ ListRow \/ ListDone
  BY <1>5, LookUpNameKeeps, ListRowKeeps, ListDoneKeeps
<1>6. CASE TestRow \/ TestRowsDone \/ Terminate
  BY <1>6, TestRowKeeps, TestRowsDoneKeeps, TerminateKeeps
<1>7. ASSUME NEW t \in LeanThreads,
             \/ CallbackEnter(t) \/ CallbackRow(t) \/ CallbackNote(t)
             \/ CallbackMetadata(t) \/ CallbackMalformed(t)
      PROVE  ServeInv'
  BY <1>7, CallbackEnterKeeps, CallbackRowKeeps, CallbackNoteKeeps, CallbackSilentKeeps
<1>8. CASE ExportReturns \/ StreamReturns
  BY <1>8, ExportReturnsKeeps, StreamReturnsKeeps
<1>9. CASE UNCHANGED vars
  BY <1>1, <1>9, LoopStep DEF vars, loopVars
<1> QED
  BY <1>2, <1>3, <1>4, <1>5, <1>6, <1>7, <1>8, <1>9 DEF Next

\* The child starts in the invariant.
LEMMA InitServes == Init => ServeInv
<1> SUFFICES ASSUME Init PROVE ServeInv
  OBVIOUS
<1>1. ZeroEmitter \in [Streams -> Nat]
  BY DEF ZeroEmitter
<1>2. SoundWire(wire, emitter, cap) /\ Pending(wire) /\ wire \in Seq(Frame)
  BY EmptyWire DEF Init, SoundWire
<1>3. calling \in [LeanThreads -> Events \cup {None}]
  BY DEF Init
<1>4. /\ DefaultCap \in Nat \ {0} /\ 0 \in 0..MaxRequests /\ 0 \in 0..MaxItems
      /\ wire = <<>> /\ Len(wire) = 0 /\ \A i \in 1..Len(wire) : wire[i].size \in Nat
  BY <1>2, TypesFollow, ServeAssumption DEF Init
<1>5. \A t \in LeanThreads :
        calling[t] = None \/ calling[t].kind \in {e.kind : e \in Events}
  BY DEF Init
<1>6. TypeOK
  BY <1>1, <1>4, <1>5 DEF Init, TypeOK
<1>7. CompleteIsExact
  BY <1>2, PendingIsExact
<1> QED
  BY <1>2, <1>3, <1>4, <1>6, <1>7 DEF Init, ServeInv

\* The inductive invariant holds in every state of the child.
THEOREM ServeSafe == Spec => []ServeInv
<1>1. Init => ServeInv
  BY InitServes
<1>2. ServeInv /\ [Next]_vars => ServeInv'
  BY StepKeeps
<1> QED
  BY <1>1, <1>2, PTL DEF Spec

\* Every variable keeps its type: the serve loop's places, the bounds of its
\* counters, the frames on the wire.
THEOREM ServeTypeCorrect == Spec => []TypeOK
<1>1. ServeInv => TypeOK
  BY DEF ServeInv
<1> QED
  BY <1>1, ServeSafe, PTL

\* A request has one terminal frame, the last one, and no frame exceeds the
\* cap the parent announced: serve_stdio and write_response give the parent
\* one whole answer that it can read.
THEOREM ParentIsAlwaysAnswered == Spec => []ParentIsAnswered
<1>1. ServeInv => ParentIsAnswered
  <2> SUFFICES ASSUME ServeInv PROVE OneAnswerPerRequest /\ ParentCanRead
    BY DEF ParentIsAnswered
  <2>1. ParentCanRead
    <3>1. parentCap = cap /\ \A i \in 1..Len(wire) : wire[i].size <= cap
      BY DEF ServeInv, SoundWire, Fits
    <3> QED
      BY <3>1 DEF ParentCanRead
  <2> DEFINE ends == {i \in 1..Len(wire) : wire[i].kind \in Terminal}
  <2>2. Len(wire) \in Nat
    BY DEF ServeInv, SoundWire
  <2>3. Pending(wire) => ends = {}
    BY DEF Pending
  <2>4. Ended(wire) => ends = {Len(wire)}
    BY <2>2 DEF Ended
  <2>5. loop \in {"start", "configure", "read", "serve", "exited"}
    BY DEF ServeInv, TypeOK
  <2>6. loop # "read" => Pending(wire) \/ (loop = "exited" /\ Ended(wire))
    BY <2>5 DEF ServeInv
  <2>7. loop = "read" => Ended(wire) \/ (served = 0 /\ wire = <<>>)
    BY DEF ServeInv
  <2>8. wire = <<>> => ends = {}
    BY <2>3, EmptyWire
  <2>9. served \in Nat
    BY ServeAssumption DEF ServeInv, TypeOK
  <2> HIDE DEF ends
  <2>10. /\ ends \subseteq {Len(wire)}
         /\ loop = "serve" => ends = {}
         /\ loop = "read" /\ served > 0 => ends # {}
    <3>1. Pending(wire) \/ Ended(wire)
      BY <2>3, <2>6, <2>7, <2>8 DEF Pending
    <3>2. ends \subseteq {Len(wire)}
      BY <2>3, <2>4, <3>1
    <3>3. loop = "serve" => ends = {}
      BY <2>3, <2>6
    <3>4. loop = "read" /\ served > 0 => ends # {}
      <4>1. served > 0 => served # 0
        BY <2>9
      <4> QED
        BY <2>4, <2>7, <4>1
    <3> QED
      BY <3>2, <3>3, <3>4
  <2> QED
    BY <2>1, <2>10 DEF OneAnswerPerRequest, ends
<1> QED
  BY <1>1, ServeSafe, PTL

\* A completion summary counts exactly the rows on the wire, and the sequence
\* numbers of a stream grow, whatever the number of Lean threads whose
\* callbacks meet in the forwarder's lock.
THEOREM StreamStaysExact == Spec => []StreamIsExact
<1>1. ServeInv => StreamIsExact
  <2> SUFFICES ASSUME ServeInv PROVE SequencesGrow
    BY DEF StreamIsExact, ServeInv
  <2>1. Growing(wire)
    BY DEF ServeInv, SoundWire
  <2>2. \A s \in Streams : \A i \in RowsOf(s) : i \in RowsIn(wire) /\ wire[i].stream = s
    BY SameRows DEF RowsOfIn
  <2> QED
    BY <2>1, <2>2 DEF SequencesGrow, Growing
<1> QED
  BY <1>1, ServeSafe, PTL
=============================================================================
