-------------------------- MODULE StoryMemoryProofs --------------------------
(* Proofs about module StoryMemory, for any window, batch size and number of   *)
(* turns: chunks and verbatim turns leave no turn out of the prompt, what a    *)
(* job builds is never refused, memory only grows and keeps up, and the jobs   *)
(* do what JobOrder allows.                                                    *)
EXTENDS StoryMemory, SequenceTheorems, WellFoundedInduction, TLAPS

\* The turns memory may speak of when the turn of a job has been committed.
Compressible(v) == Monus(v, Window)

\* Jobs run in the order of their turns: whatever comes after a pending one is
\* pending, and the one in hand is the first.
JobsInOrder ==
  /\ \A u, v \in 1..version : u < v /\ outcome[u] = "pending" => outcome[v] = "pending"
  /\ job # None => job \in 1..version /\ NextJob(job)
  /\ plan.stage = "none" <=> job = None

\* Memory is a gapless row of chunks that leaves the window of every job still
\* to come alone.
MemorySound ==
  /\ ValidChunks(Chunks)
  /\ Coverage <= Compressible(version)
  /\ \A v \in 1..version : outcome[v] = "pending" => Coverage <= Compressible(v)

\* What a handler at work would write is such memory as well.  It has come in
\* turn: the jobs before its own are over, so that neither their outcomes nor,
\* while its base is the latest, what it has read can change under it.
HandlerSound(h) ==
  /\ ValidChunks(h.chunks)
  /\ h.update \in 1..version
  /\ \A u \in 1..(h.update - 1) : outcome[u] # "pending"
  /\ CoveredBy(h.chunks) <= Compressible(version)
  /\ h.base <= Len(snapshots)
  /\ h.base = Len(snapshots) =>
       /\ ~Updated(h.update)
       /\ CoveredBy(h.chunks) >= Coverage
       /\ CoveredBy(h.chunks) = Coverage \/ CoveredBy(h.chunks) <= Compressible(h.update)
       /\ \A u \in 1..(h.update - 1) : outcome[u] = "failed" => u <= Coverage

HandlersSound ==
  /\ \A h \in Handlers : HandlerSound(h)
  /\ plan.stage = "compressing" => CoveredBy(plan.chunks) <= Compressible(job)

IInv == TypeOK /\ JobsInOrder /\ MemorySound /\ HandlersSound
-----------------------------------------------------------------------------
(* Induction over the natural numbers, in the form of a least element.         *)
LEMMA Least ==
  ASSUME NEW S, S \subseteq Nat, S # {}
  PROVE  \E n \in S : \A k \in S : n <= k
<1> DEFINE R == OpToRel(<, Nat)
<1>1. IsWellFoundedOn(R, Nat)
  BY NatLessThanWellFounded
<1>2. \A m, n \in Nat : <<m, n>> \in R <=> m < n
  BY DEF OpToRel
<1> HIDE DEF R
<1>3. \E n \in S : \A k \in S : <<k, n>> \notin R
  BY <1>1, WFMin
<1>4. PICK n \in S : \A k \in S : <<k, n>> \notin R
  BY <1>3
<1>5. \A k \in S : ~(k < n)
  BY <1>2, <1>4
<1>6. \A k \in S : n <= k
  BY <1>4, <1>5
<1> QED BY <1>4, <1>6

-----------------------------------------------------------------------------
(* The turns of a chunk.                                                       *)

\* The powers of Batch up to the m-th.
Powers(h, m) ==
  /\ h \in [0..m -> Nat] /\ h[0] = 1
  /\ \A k \in 1..m : h[k] = Batch * h[k - 1]

(* The powers up to any exponent exist.                                        *)
LEMMA PowersExist ==
  ASSUME NEW m \in Nat
  PROVE  \E h : Powers(h, m)
<1> DEFINE S == {n \in Nat : ~\E h : Powers(h, n)}
<1>1. CASE S # {}
  <2>1. PICK n \in S : \A k \in S : n <= k
    <3> HIDE DEF S
    <3>1. S \subseteq Nat
      BY DEF S
    <3> QED BY <1>1, <3>1, Least
  <2>2. CASE n = 0
    <3>1. Powers([k \in 0..0 |-> 1], 0)
      BY DEF Powers
    <3> QED BY <2>1, <2>2, <3>1
  <2>3. CASE n # 0
    <3>1. n - 1 \in Nat /\ n - 1 \notin S
      BY <2>1, <2>3
    <3>2. PICK h : Powers(h, n - 1)
      BY <3>1
    <3> DEFINE g == [k \in 0..n |-> IF k = n THEN Batch * h[n - 1] ELSE h[k]]
    <3>3. Batch * h[n - 1] \in Nat /\ \A k \in 0..n - 1 : h[k] \in Nat
      BY <3>1, <3>2, BatchAssumption DEF Powers
    <3>4. g \in [0..n -> Nat] /\ g[0] = 1
      BY <2>1, <2>3, <3>2, <3>3 DEF Powers
    <3>5. \A k \in 1..n : g[k] = Batch * g[k - 1]
      BY <2>1, <2>3, <3>2 DEF Powers
    <3>6. Powers(g, n)
      <4> HIDE DEF g
      <4> QED BY <3>4, <3>5 DEF Powers
    <3> QED BY <2>1, <3>6
  <2> QED BY <2>2, <2>3
<1> QED BY <1>1

(* Any two rows of powers agree as far as both go.                             *)
LEMMA PowersUnique ==
  ASSUME NEW m \in Nat, NEW n \in Nat, NEW g, NEW h, Powers(g, m), Powers(h, n),
         NEW j \in Nat, j <= m, j <= n
  PROVE  g[j] = h[j]
<1> DEFINE S == {k \in Nat : k <= j /\ g[k] # h[k]}
<1>1. CASE S # {}
  <2>1. PICK k \in S : \A i \in S : k <= i
    <3> HIDE DEF S
    <3>1. S \subseteq Nat
      BY DEF S
    <3> QED BY <1>1, <3>1, Least
  <2>2. k # 0
    BY <2>1 DEF Powers
  <2>3. k - 1 \in Nat /\ k - 1 \notin S /\ k - 1 <= j
    BY <2>1, <2>2
  <2>4. g[k - 1] = h[k - 1] /\ k \in 1..m /\ k \in 1..n
    BY <2>1, <2>2, <2>3
  <2> QED BY <2>1, <2>4 DEF Powers
<1> QED BY <1>1

(* The recursion that defines Size has a solution.                             *)
LEMMA SizeDef == Size = [level \in Nat |-> IF level = 0 THEN 1 ELSE Batch * Size[level - 1]]
<1> DEFINE H(n) == CHOOSE h : Powers(h, n)
           G == [n \in Nat |-> H(n)[n]]
<1>1. \A n \in Nat : Powers(H(n), n)
  BY PowersExist
<1> HIDE DEF H
<1>2. \A n \in Nat : G[n] = IF n = 0 THEN 1 ELSE Batch * G[n - 1]
  <2> SUFFICES ASSUME NEW n \in Nat PROVE H(n)[n] = IF n = 0 THEN 1 ELSE Batch * G[n - 1]
    OBVIOUS
  <2>1. CASE n = 0
    BY <1>1, <2>1 DEF Powers
  <2>2. CASE n # 0
    <3>1. n - 1 \in Nat /\ n \in 1..n
      BY <2>2
    <3>2. H(n)[n] = Batch * H(n)[n - 1]
      BY <1>1, <3>1 DEF Powers
    <3>3. H(n)[n - 1] = H(n - 1)[n - 1]
      BY <1>1, <3>1, PowersUnique
    <3> QED BY <2>2, <3>1, <3>2, <3>3
  <2> QED BY <2>1, <2>2
<1>3. G = [level \in Nat |-> IF level = 0 THEN 1 ELSE Batch * G[level - 1]]
  <2> DEFINE F == [level \in Nat |-> IF level = 0 THEN 1 ELSE Batch * G[level - 1]]
  <2>1. \A n \in Nat : G[n] = F[n]
    <3> HIDE DEF G
    <3> QED BY <1>2
  <2>2. G = [n \in Nat |-> G[n]] /\ F = [n \in Nat |-> F[n]]
    OBVIOUS
  <2> HIDE DEF G, F
  <2>3. G = F
    BY <2>1, <2>2
  <2> QED BY <2>3 DEF F
<1>4. \E g : g = [level \in Nat |-> IF level = 0 THEN 1 ELSE Batch * g[level - 1]]
  <2> HIDE DEF G
  <2> QED BY <1>3
<1> QED BY <1>4 DEF Size

(* A chunk of level one is a batch, and each level multiplies it by Batch.     *)
LEMMA SizeFacts ==
  /\ Size[1] = Batch
  /\ \A n \in Nat : Size[n + 1] = Batch * Size[n]
  /\ \A n \in Nat : Size[n] \in Nat \ {0}
<1>1. \A n \in Nat : Size[n] = IF n = 0 THEN 1 ELSE Batch * Size[n - 1]
  BY SizeDef
<1>2. \A n \in Nat : Size[n + 1] = Batch * Size[n]
  BY <1>1
<1>3. Size[0] = 1
  BY <1>1
<1>4. Size[1] = Batch
  BY <1>2, <1>3, BatchAssumption
<1> DEFINE S == {n \in Nat : Size[n] \notin Nat \ {0}}
<1>5. CASE S # {}
  <2>1. PICK n \in S : \A k \in S : n <= k
    <3> HIDE DEF S
    <3>1. S \subseteq Nat
      BY DEF S
    <3> QED BY <1>5, <3>1, Least
  <2>2. n # 0
    BY <1>3, <2>1
  <2>3. n - 1 \in Nat /\ n - 1 \notin S
    BY <2>1, <2>2
  <2>4. Size[n - 1] \in Nat \ {0}
    BY <2>3
  <2>5. Size[n] = Batch * Size[n - 1]
    BY <1>1, <2>1, <2>2
  <2> QED BY <2>1, <2>4, <2>5, BatchAssumption
<1> QED BY <1>2, <1>4, <1>5
-----------------------------------------------------------------------------
(* Chunks.                                                                     *)

(* The fields of the chunks of a row, and what makes a row valid.              *)
LEMMA RowFacts ==
  ASSUME NEW c \in Seq(Chunk)
  PROVE  /\ Len(c) \in Nat /\ DOMAIN c = 1..Len(c) /\ (c = <<>> <=> Len(c) = 0)
         /\ \A i \in 1..Len(c) :
              /\ c[i] \in Chunk /\ c[i].first \in Nat /\ c[i].last \in Nat /\ c[i].level \in Nat
         /\ CoveredBy(c) = IF Len(c) = 0 THEN 0 ELSE c[Len(c)].last
         /\ CoveredBy(c) \in Nat
<1>1. /\ Len(c) \in Nat /\ DOMAIN c = 1..Len(c) /\ (c = <<>> <=> Len(c) = 0)
      /\ \A i \in 1..Len(c) : c[i] \in Chunk
  BY LenProperties, ElementOfSeq, EmptySeq
<1>2. \A x \in Chunk : x.first \in Nat /\ x.last \in Nat /\ x.level \in Nat
  BY DEF Chunk
<1>3. Len(c) # 0 => Len(c) \in 1..Len(c)
  BY <1>1
<1> QED BY <1>1, <1>2, <1>3 DEF CoveredBy

(* A chunk of a valid row has its size and begins where the one before ends.   *)
LEMMA ValidFacts ==
  ASSUME NEW c \in Seq(Chunk), ValidChunks(c), NEW i \in 1..Len(c)
  PROVE  /\ c[i].last + 1 - c[i].first = Size[c[i].level]
         /\ c[i].last >= c[i].first
         /\ c[i].first = IF i = 1 THEN 1 ELSE c[i - 1].last + 1
<1>1. /\ c[i].last + 1 - c[i].first = Size[c[i].level]
      /\ c[i].first = IF i = 1 THEN 1 ELSE c[i - 1].last + 1
  BY RowFacts DEF ValidChunks
<1>2. Size[c[i].level] \in Nat \ {0} /\ c[i].first \in Nat /\ c[i].last \in Nat
  BY RowFacts, SizeFacts
<1> QED BY <1>1, <1>2

(* A valid row of chunks goes from turn 1 to what it covers, without a gap.    *)
LEMMA SpanFacts ==
  ASSUME NEW c \in Seq(Chunk), ValidChunks(c)
  PROVE  SpanOf(c) = 1..CoveredBy(c)
<1> DEFINE End(n) == IF n = 0 THEN 0 ELSE c[n].last
           Part(i) == c[i].first..c[i].last
           Whole(n) == UNION {Part(i) : i \in 1..n} = 1..End(n)
           S == {n \in Nat : n <= Len(c) /\ ~Whole(n)}
<1>1. Len(c) \in Nat /\ DOMAIN c = 1..Len(c)
  BY RowFacts
<1>2. \A i \in 1..Len(c) : End(i) \in Nat /\ End(i) >= End(i - 1) /\ End(i - 1) \in Nat
                            /\ Part(i) = (End(i - 1) + 1)..End(i)
  <2> TAKE i \in 1..Len(c)
  <2>1. End(i - 1) = IF i = 1 THEN 0 ELSE c[i - 1].last
    BY <1>1
  <2>2. i # 1 => i - 1 \in 1..Len(c)
    BY <1>1
  <2>3. c[i].first = End(i - 1) + 1 /\ c[i].last >= c[i].first /\ End(i - 1) \in Nat
        /\ c[i].last \in Nat /\ End(i) = c[i].last
    BY <2>1, <2>2, RowFacts, ValidFacts
  <2> QED BY <2>3
<1>3. Whole(0)
  OBVIOUS
<1>4. \A n \in 1..Len(c) : Whole(n - 1) => Whole(n)
  <2> TAKE n \in 1..Len(c)
  <2>1. \A a, b \in Nat : b >= a => (1..a) \cup ((a + 1)..b) = 1..b
    OBVIOUS
  <2>2. (1..End(n - 1)) \cup Part(n) = 1..End(n)
    <3> HIDE DEF End, Part
    <3> QED BY <1>2, <2>1
  <2>3. 1..n = (1..n - 1) \cup {n}
    BY <1>1
  <2>4. UNION {Part(i) : i \in 1..n} = (UNION {Part(i) : i \in 1..n - 1}) \cup Part(n)
    <3> HIDE DEF Part
    <3>1. \A x : (\E i \in 1..n : x \in Part(i))
                <=> (\E i \in 1..n - 1 : x \in Part(i)) \/ x \in Part(n)
      BY <2>3
    <3>2. \A x : x \in UNION {Part(i) : i \in 1..n}
                <=> x \in (UNION {Part(i) : i \in 1..n - 1}) \cup Part(n)
      BY <3>1
    <3> QED BY <3>2, Zenon
  <2> HIDE DEF End, Part
  <2> QED BY <2>2, <2>4
<1>5. S = {}
  <2> HIDE DEF Whole
  <2> SUFFICES ASSUME S # {} PROVE FALSE
    OBVIOUS
  <2>1. PICK n \in S : \A k \in S : n <= k
    <3> HIDE DEF S
    <3>1. S \subseteq Nat
      BY DEF S
    <3> QED BY <3>1, Least
  <2>2. n # 0 /\ n \in 1..Len(c) /\ n \in Nat
    BY <1>1, <1>3, <2>1
  <2>3. n - 1 \in Nat /\ n - 1 <= Len(c) /\ n - 1 \notin S
    BY <1>1, <2>1, <2>2
  <2> QED BY <1>4, <2>1, <2>2, <2>3
<1>6. Whole(Len(c))
  <2> HIDE DEF Whole
  <2> QED BY <1>1, <1>5
<1>7. CoveredBy(c) = End(Len(c)) /\ SpanOf(c) = UNION {Part(i) : i \in 1..Len(c)}
  BY <1>1, RowFacts DEF SpanOf
<1> QED
  <2> HIDE DEF End, Part
  <2> QED BY <1>6, <1>7

(* One more batch of turns.                                                    *)
LEMMA ExtendedFacts ==
  ASSUME NEW c \in Seq(Chunk), ValidChunks(c)
  PROVE  /\ Extended(c) \in Seq(Chunk) /\ ValidChunks(Extended(c))
         /\ CoveredBy(Extended(c)) = CoveredBy(c) + Batch /\ Len(Extended(c)) = Len(c) + 1
<1> DEFINE x == [first |-> CoveredBy(c) + 1, last |-> CoveredBy(c) + Batch, level |-> 1]
<1>1. CoveredBy(c) \in Nat /\ Batch \in Nat
  BY RowFacts, BatchAssumption
<1>2. x \in Chunk
  BY <1>1 DEF Chunk
<1>3. Extended(c) = Append(c, x)
  BY DEF Extended
<1>4. x.first = CoveredBy(c) + 1 /\ x.last = CoveredBy(c) + Batch /\ x.level = 1
  OBVIOUS
<1> HIDE DEF x
<1>5. /\ Append(c, x) \in Seq(Chunk) /\ Len(Append(c, x)) = Len(c) + 1
      /\ \A i \in 1..Len(c) : Append(c, x)[i] = c[i]
      /\ Append(c, x)[Len(c) + 1] = x
  BY <1>2, AppendProperties
<1>6. Len(c) \in Nat /\ DOMAIN Append(c, x) = 1..Len(c) + 1
  BY <1>5, RowFacts
<1>7. CoveredBy(Append(c, x)) = x.last
  <2> DEFINE m == Append(c, x)
  <2>1. m \in Seq(Chunk) /\ Len(m) = Len(c) + 1 /\ Len(m) # 0 /\ m[Len(m)] = x
    BY <1>5, <1>6
  <2> HIDE DEF m
  <2>2. CoveredBy(m) = x.last
    BY <2>1, RowFacts
  <2> QED BY <2>2 DEF m
<1>8. ValidChunks(Append(c, x))
  <2> DEFINE m == Append(c, x)
  <2> HIDE DEF m
  <2> SUFFICES ASSUME NEW i \in 1..Len(c) + 1
               PROVE  /\ m[i].last + 1 - m[i].first = Size[m[i].level]
                      /\ m[i].first = IF i = 1 THEN 1 ELSE m[i - 1].last + 1
    BY <1>6 DEF ValidChunks, m
  <2>1. CASE i <= Len(c)
    <3>1. i \in 1..Len(c) /\ m[i] = c[i] /\ (i # 1 => m[i - 1] = c[i - 1])
      BY <1>5, <1>6, <2>1 DEF m
    <3> QED BY <3>1, ValidFacts
  <2>2. CASE i = Len(c) + 1
    <3>1. m[i] = x /\ (i # 1 => m[i - 1] = c[Len(c)])
      BY <1>5, <1>6, <2>2 DEF m
    <3>2. x.first = IF i = 1 THEN 1 ELSE c[Len(c)].last + 1
      BY <1>4, <1>6, <2>2, RowFacts
    <3>3. x.last + 1 - x.first = Size[x.level]
      BY <1>1, <1>4, SizeFacts
    <3> QED BY <3>1, <3>2, <3>3
  <2> QED BY <1>6, <2>1, <2>2
<1> QED BY <1>3, <1>4, <1>5, <1>7, <1>8

(* The first batch of one level, if there is one.                              *)
LEMMA FirstBatchFacts ==
  ASSUME NEW c \in Seq(Chunk), HierarchyBatches(c) # {}
  PROVE  /\ FirstBatch(c) \in Nat \ {0} /\ FirstBatch(c) + Batch - 1 <= Len(c)
         /\ SameLevel(c, FirstBatch(c))
<1>1. HierarchyBatches(c) \subseteq Nat
  BY LenProperties, BatchAssumption DEF HierarchyBatches, Monus
<1>2. \E n \in HierarchyBatches(c) : \A k \in HierarchyBatches(c) : n <= k
  BY <1>1, Least
<1>3. FirstBatch(c) \in HierarchyBatches(c)
  BY <1>2 DEF FirstBatch
<1> QED BY <1>3, LenProperties, BatchAssumption DEF HierarchyBatches, Monus

(* The chunks of a batch, one after the other, span what their merger spans.   *)
LEMMA BatchSpan ==
  ASSUME NEW c \in Seq(Chunk), ValidChunks(c), NEW at \in Nat \ {0},
         at + Batch - 1 <= Len(c), SameLevel(c, at)
  PROVE  c[at + Batch - 1].last + 1 - c[at].first = Size[c[at].level + 1]
<1> DEFINE size == Size[c[at].level]
           S == {k \in Nat : k < Batch /\ c[at + k].last + 1 - c[at].first # (k + 1) * size}
<1>1. /\ Len(c) \in Nat /\ DOMAIN c = 1..Len(c) /\ Batch \in Nat /\ Batch > 1
      /\ \A i \in 1..Len(c) : c[i] \in Chunk
  BY LenProperties, ElementOfSeq, BatchAssumption
<1>2. \A k \in Nat : k < Batch => at + k \in 1..Len(c) /\ at + k \in at..(at + Batch - 1)
  BY <1>1
<1>3. /\ at \in 1..Len(c) /\ c[at].level \in Nat /\ c[at].first \in Nat
      /\ size \in Nat \ {0}
  <2>1. at \in 1..Len(c)
    BY <1>1
  <2> QED BY <2>1, RowFacts, SizeFacts
<1>4. \A k \in Nat : k < Batch =>
        /\ c[at + k].last + 1 - c[at + k].first = size
        /\ k > 0 => c[at + k].first = c[at + k - 1].last + 1
        /\ c[at + k].last \in Nat /\ c[at + k].first \in Nat
  <2> SUFFICES ASSUME NEW k \in Nat, k < Batch
               PROVE  /\ c[at + k].last + 1 - c[at + k].first = size
                      /\ k > 0 => c[at + k].first = c[at + k - 1].last + 1
                      /\ c[at + k].last \in Nat /\ c[at + k].first \in Nat
    OBVIOUS
  <2>1. at + k \in 1..Len(c) /\ c[at + k].level = c[at].level /\ (k > 0 => at + k # 1)
    BY <1>2 DEF SameLevel
  <2> QED BY <2>1, RowFacts, ValidFacts
<1> HIDE DEF size
<1>5. S = {}
  <2> SUFFICES ASSUME S # {} PROVE FALSE
    OBVIOUS
  <2>1. PICK k \in S : \A j \in S : k <= j
    <3> HIDE DEF S
    <3>1. S \subseteq Nat
      BY DEF S
    <3> QED BY <3>1, Least
  <2>2. CASE k = 0
    <3>1. at + k = at /\ (k + 1) * size = size
      BY <1>3, <2>2
    <3>2. k < Batch /\ c[at + k].last + 1 - c[at].first # (k + 1) * size
      BY <2>1
    <3>3. c[at + k].last + 1 - c[at + k].first = size
      BY <1>4, <2>1, <3>2
    <3> QED BY <3>1, <3>2, <3>3
  <2>3. CASE k # 0
    <3>1. k - 1 \in Nat /\ k - 1 < Batch /\ k - 1 \notin S
      <4>1. k \in Nat /\ k < Batch
        BY <2>1
      <4> HIDE DEF S
      <4> QED BY <1>1, <2>1, <2>3, <4>1
    <3>2. c[at + (k - 1)].last + 1 - c[at].first = ((k - 1) + 1) * size
      BY <3>1
    <3>3. at + (k - 1) = at + k - 1 /\ (k - 1) + 1 = k
      BY <2>1
    <3>4. k * size \in Nat /\ (k + 1) * size = k * size + size
      BY <1>3, <2>1
    <3>5. c[at + k].last + 1 - c[at].first = (k + 1) * size
      <4>1. k \in Nat /\ k < Batch /\ k > 0
        BY <2>1, <2>3
      <4>2. /\ c[at + k].last + 1 - c[at + k].first = size
            /\ c[at + k].first = c[at + k - 1].last + 1
            /\ c[at + k].last \in Nat /\ c[at + k].first \in Nat
        BY <1>4, <4>1
      <4>3. c[at + k - 1].last + 1 - c[at].first = k * size
        BY <3>2, <3>3
      <4>4. c[at].first \in Nat /\ size \in Nat /\ c[at + k - 1].last \in Nat
        BY <1>3, <1>4, <3>1, <3>3
      <4>5. c[at + k].last + 1 - c[at].first = k * size + size
        <5> DEFINE p == k * size
                   a == c[at + k].last
                   f == c[at + k].first
                   g == c[at + k - 1].last
                   h == c[at].first
        <5>1. p \in Nat /\ g + 1 - h = p
          BY <3>4, <4>3
        <5>2. a + 1 - f = size /\ f = g + 1
          BY <4>2
        <5>3. a \in Nat /\ f \in Nat /\ g \in Nat /\ h \in Nat /\ size \in Nat
          BY <4>2, <4>4
        <5> HIDE DEF p, a, f, g, h, S
        <5>4. a + 1 - h = p + size
          BY <5>1, <5>2, <5>3
        <5> QED BY <5>4 DEF p, a, h
      <4> QED BY <3>4, <4>5
    <3> QED BY <2>1, <3>5
  <2> QED BY <2>2, <2>3
<1>6. c[at + (Batch - 1)].last + 1 - c[at].first = ((Batch - 1) + 1) * size
  <2>1. Batch - 1 \in Nat /\ Batch - 1 < Batch
    BY <1>1
  <2> QED BY <1>5, <2>1
<1>7. at + (Batch - 1) = at + Batch - 1 /\ ((Batch - 1) + 1) * size = Batch * size
  BY <1>1, <1>3
<1> QED BY <1>3, <1>6, <1>7, SizeFacts DEF size

(* A batch of chunks put in the place of one.                                  *)
LEMMA MergedFacts ==
  ASSUME NEW c \in Seq(Chunk), ValidChunks(c), NEW at \in Nat \ {0},
         at + Batch - 1 <= Len(c), SameLevel(c, at)
  PROVE  /\ Merged(c, at) \in Seq(Chunk) /\ ValidChunks(Merged(c, at))
         /\ CoveredBy(Merged(c, at)) = CoveredBy(c) /\ Len(Merged(c, at)) = Len(c) - Batch + 1
<1> DEFINE x == [first |-> c[at].first, last |-> c[at + Batch - 1].last,
                 level |-> c[at].level + 1]
           left == SubSeq(c, 1, at - 1)
           right == SubSeq(c, at + Batch, Len(c))
           m == left \o <<x>> \o right
<1>1. /\ Len(c) \in Nat /\ DOMAIN c = 1..Len(c) /\ Batch \in Nat /\ Batch > 1
      /\ \A i \in 1..Len(c) : c[i] \in Chunk
  BY LenProperties, ElementOfSeq, BatchAssumption
<1>2. at \in 1..Len(c) /\ at + Batch - 1 \in 1..Len(c)
  BY <1>1
<1>3. x \in Chunk /\ x.first = c[at].first /\ x.last = c[at + Batch - 1].last
      /\ x.level = c[at].level + 1
  <2>1. c[at].first \in Nat /\ c[at + Batch - 1].last \in Nat /\ c[at].level + 1 \in Nat
    BY <1>2, RowFacts
  <2> QED BY <2>1 DEF Chunk
<1>4. Merged(c, at) = m
  BY DEF Merged
<1> HIDE DEF x
<1>5. /\ left \in Seq(Chunk) /\ Len(left) = at - 1
      /\ \A i \in 1..at - 1 : left[i] = c[i]
  <2>1. at - 1 \in Int /\ \A i \in 1..at - 1 : c[i] \in Chunk
    BY <1>1
  <2> QED BY <2>1, SubSeqProperties
<1>6. /\ right \in Seq(Chunk) /\ Len(right) = Len(c) - (at + Batch - 1)
      /\ \A i \in 1..Len(c) - (at + Batch - 1) : right[i] = c[at + Batch + i - 1]
  <2>1. at + Batch \in Int /\ Len(c) \in Int /\ \A i \in at + Batch..Len(c) : c[i] \in Chunk
    BY <1>1
  <2>2. /\ right \in Seq(Chunk)
        /\ Len(right) = IF at + Batch <= Len(c) THEN Len(c) - (at + Batch) + 1 ELSE 0
        /\ \A i \in 1..Len(c) - (at + Batch) + 1 : right[i] = c[at + Batch + i - 1]
    BY <2>1, SubSeqProperties
  <2> QED BY <1>1, <2>2
<1> HIDE DEF left, right
<1>7. <<x>> \in Seq(Chunk) /\ Len(<<x>>) = 1 /\ <<x>>[1] = x
  BY <1>3
<1>8. /\ left \o <<x>> \in Seq(Chunk) /\ Len(left \o <<x>>) = at
      /\ \A i \in 1..at : (left \o <<x>>)[i] = IF i < at THEN c[i] ELSE x
  <2>1. /\ left \o <<x>> \in Seq(Chunk) /\ Len(left \o <<x>>) = Len(left) + 1
        /\ \A i \in 1..Len(left) + 1 :
             (left \o <<x>>)[i] = IF i <= Len(left) THEN left[i] ELSE <<x>>[i - Len(left)]
    BY <1>5, <1>7, ConcatProperties
  <2> QED BY <1>5, <1>7, <2>1
<1>9. /\ m \in Seq(Chunk) /\ Len(m) = Len(c) - Batch + 1
      /\ \A i \in 1..Len(m) : m[i] = IF i < at THEN c[i] ELSE IF i = at THEN x ELSE c[i + Batch - 1]
  <2>1. /\ m \in Seq(Chunk) /\ Len(m) = at + Len(right)
        /\ \A i \in 1..at + Len(right) :
             m[i] = IF i <= at THEN (left \o <<x>>)[i] ELSE right[i - at]
    <3> DEFINE l == left \o <<x>>
    <3>1. l \in Seq(Chunk) /\ Len(l) = at /\ right \in Seq(Chunk)
      BY <1>6, <1>8
    <3> HIDE DEF l
    <3>2. /\ l \o right \in Seq(Chunk) /\ Len(l \o right) = at + Len(right)
          /\ \A i \in 1..at + Len(right) :
               (l \o right)[i] = IF i <= at THEN l[i] ELSE right[i - at]
      BY <3>1, ConcatProperties
    <3> QED BY <3>2 DEF l
  <2>2. Len(m) = Len(c) - Batch + 1
    BY <1>1, <1>6, <2>1
  <2>3. ASSUME NEW i \in 1..Len(m)
        PROVE  m[i] = IF i < at THEN c[i] ELSE IF i = at THEN x ELSE c[i + Batch - 1]
    <3>1. CASE i <= at
      BY <1>1, <1>8, <2>1, <2>2, <2>3, <3>1
    <3>2. CASE i > at
      <4>1. i - at \in 1..Len(c) - (at + Batch - 1) /\ at + Batch + (i - at) - 1 = i + Batch - 1
        BY <1>1, <2>2, <2>3, <3>2
      <4>2. m[i] = right[i - at]
        BY <1>1, <2>1, <2>3, <3>2
      <4> QED BY <1>6, <3>2, <4>1, <4>2
    <3> QED BY <2>3, <3>1, <3>2
  <2> QED BY <2>1, <2>2, <2>3
<1> HIDE DEF m
<1>10. x.last + 1 - x.first = Size[x.level]
  BY <1>3, BatchSpan
<1>11. \A i \in 1..Len(c) :
         /\ c[i].last + 1 - c[i].first = Size[c[i].level]
         /\ c[i].first = IF i = 1 THEN 1 ELSE c[i - 1].last + 1
  BY ValidFacts
<1>12. ValidChunks(m)
  <2>1. DOMAIN m = 1..Len(m)
    BY <1>9, LenProperties
  <2> SUFFICES ASSUME NEW i \in 1..Len(m)
               PROVE  /\ m[i].last + 1 - m[i].first = Size[m[i].level]
                      /\ m[i].first = IF i = 1 THEN 1 ELSE m[i - 1].last + 1
    BY <2>1 DEF ValidChunks
  <2>2. CASE i < at
    <3>1. i \in 1..Len(c) /\ m[i] = c[i] /\ (i # 1 => m[i - 1] = c[i - 1])
      BY <1>1, <1>2, <1>9, <2>2
    <3> QED BY <1>11, <3>1
  <2>3. CASE i = at
    <3>1. m[i] = x /\ (i # 1 => m[i - 1] = c[i - 1])
      BY <1>1, <1>2, <1>9, <2>3
    <3> QED BY <1>2, <1>3, <1>10, <1>11, <2>3, <3>1
  <2>4. CASE i > at
    <3>1. i + Batch - 1 \in 1..Len(c) /\ i + Batch - 1 # 1 /\ i # 1 /\ i - 1 \in 1..Len(m)
          /\ (i + Batch - 1) - 1 = (i - 1) + Batch - 1
      BY <1>1, <1>9, <2>4
    <3>2. m[i] = c[i + Batch - 1]
      BY <1>9, <2>4
    <3>3. m[i - 1].last = c[(i - 1) + Batch - 1].last
      <4>1. CASE i - 1 = at
        BY <1>3, <1>9, <3>1, <4>1
      <4>2. CASE i - 1 # at
        <5>1. i - 1 > at
          BY <2>4, <4>2
        <5> QED BY <1>9, <3>1, <5>1
      <4> QED BY <4>1, <4>2
    <3> QED BY <1>11, <3>1, <3>2, <3>3
  <2> QED BY <1>1, <2>2, <2>3, <2>4
<1>13. CoveredBy(m) = CoveredBy(c)
  <2>1. /\ Len(m) \in Nat /\ Len(m) \in 1..Len(m) /\ Len(m) >= at
        /\ Len(m) + Batch - 1 = Len(c) /\ m # <<>> /\ c # <<>>
    BY <1>1, <1>9, EmptySeq
  <2>2. CASE Len(m) = at
    <3>1. m[Len(m)].last = c[Len(c)].last
      <4>1. m[Len(m)] = x /\ at + Batch - 1 = Len(c)
        BY <1>9, <2>1, <2>2
      <4> QED BY <1>3, <4>1
    <3> QED BY <2>1, <3>1 DEF CoveredBy
  <2>3. CASE Len(m) # at
    <3>1. Len(m) > at
      BY <2>1, <2>3
    <3>2. m[Len(m)] = c[Len(c)]
      BY <1>9, <2>1, <3>1
    <3> QED BY <2>1, <3>2 DEF CoveredBy
  <2> QED BY <2>2, <2>3
<1> QED BY <1>4, <1>9, <1>12, <1>13
-----------------------------------------------------------------------------
(* The steps.                                                                  *)

(* Types and the sizes a step computes with.                                   *)
LEMMA StateFacts ==
  ASSUME TypeOK
  PROVE  /\ version \in Nat /\ Len(outcome) = version /\ outcome \in Seq(Outcomes)
         /\ outcome \in [1..version -> Outcomes]
         /\ Chunks \in Seq(Chunk) /\ Coverage \in Nat /\ Len(snapshots) \in Nat
<1>1. Len(snapshots) \in Nat /\ (snapshots = <<>> <=> Len(snapshots) = 0)
  BY LenProperties, EmptySeq DEF TypeOK
<1>2. snapshots # <<>> => snapshots[Len(snapshots)] \in [update : Nat, chunks : Seq(Chunk)]
  <2>1. snapshots # <<>> => Len(snapshots) \in 1..Len(snapshots)
    BY <1>1
  <2> QED BY <2>1, ElementOfSeq DEF TypeOK
<1>3. Chunks \in Seq(Chunk)
  BY <1>2, EmptySeq DEF Chunks
<1>4. Coverage \in Nat
  BY <1>3, RowFacts DEF Coverage
<1> QED BY <1>1, <1>3, <1>4, LenProperties DEF TypeOK

(* A later job may compress as much as an earlier one, and no later turn.      *)
LEMMA CompressibleFacts ==
  ASSUME NEW u \in Nat, NEW v \in Nat, u <= v
  PROVE  Compressible(u) \in Nat /\ Compressible(u) <= Compressible(v) /\ Compressible(u) <= u
BY WindowAssumption DEF Compressible, Monus

(* The handlers at work, and the one of the job in hand among them.            *)
LEMMA HandlerFacts ==
  ASSUME TypeOK, JobsInOrder
  PROVE  /\ \A h \in Handlers : h \in Handler /\ h.update \in Nat /\ h.base \in Nat
                                /\ h.chunks \in Seq(Chunk)
         /\ plan.stage = "compressing" => InHand \in Handlers /\ InHand \in Handler
         /\ InHand.update = job /\ InHand.base = plan.base /\ InHand.chunks = plan.chunks
<1>1. InHand.update = job /\ InHand.base = plan.base /\ InHand.chunks = plan.chunks
  BY DEF InHand
<1>2. plan.stage = "compressing" => InHand \in Handlers /\ InHand \in Handler
  <2> SUFFICES ASSUME plan.stage = "compressing" PROVE InHand \in Handlers /\ InHand \in Handler
    OBVIOUS
  <2>1. job \in Nat
    BY StateFacts DEF JobsInOrder
  <2>2. plan.base \in Nat /\ plan.chunks \in Seq(Chunk)
    BY DEF TypeOK, Plan
  <2> QED BY <2>1, <2>2 DEF InHand, Handler, Handlers
<1>3. \A h \in Handlers : h \in Handler
  BY <1>2 DEF Handlers, TypeOK
<1>4. \A h \in Handler : h.update \in Nat /\ h.base \in Nat /\ h.chunks \in Seq(Chunk)
  BY DEF Handler
<1> QED BY <1>1, <1>2, <1>3, <1>4

(* While nothing is appended, a handler stays sound: the outcomes of the turns *)
(* before its own are final.                                                   *)
LEMMA HandlerKept ==
  ASSUME TypeOK, NEW h \in Handler, HandlerSound(h), snapshots' = snapshots,
         version' \in {version, version + 1},
         \A u \in 1..version : outcome[u] # "pending" => outcome'[u] = outcome[u]
  PROVE  HandlerSound(h)'
<1>1. /\ version \in Nat /\ Chunks' = Chunks /\ Coverage' = Coverage
      /\ Len(snapshots') = Len(snapshots) /\ (Updated(h.update)' <=> Updated(h.update))
  BY StateFacts DEF Chunks, Coverage, Updated
<1>2. h.update \in 1..version /\ h.update \in 1..version'
      /\ \A u \in 1..(h.update - 1) : u \in 1..version /\ outcome'[u] = outcome[u]
  BY <1>1 DEF HandlerSound
<1>3. CoveredBy(h.chunks) <= Compressible(version')
  <2>1. Compressible(version) \in Nat /\ Compressible(version') \in Nat
        /\ Compressible(version) <= Compressible(version')
    BY <1>1, CompressibleFacts
  <2>2. CoveredBy(h.chunks) \in Nat /\ CoveredBy(h.chunks) <= Compressible(version)
    BY RowFacts DEF HandlerSound, Handler
  <2> QED BY <2>1, <2>2
<1> QED BY <1>1, <1>2, <1>3 DEF HandlerSound, Compressible

(* An append puts the base of every other handler out of date.                 *)
LEMMA HandlerOutdated ==
  ASSUME TypeOK, NEW h \in Handler, HandlerSound(h), UNCHANGED <<version, outcome>>,
         Len(snapshots') = Len(snapshots) + 1
  PROVE  HandlerSound(h)'
<1>1. h.base \in Nat /\ Len(snapshots) \in Nat /\ h.base <= Len(snapshots)
  BY StateFacts DEF HandlerSound, Handler
<1>2. h.base # Len(snapshots') /\ h.base <= Len(snapshots')
  BY <1>1
<1> QED BY <1>2 DEF HandlerSound, Compressible

(* What a handler sets out to write when it begins.                            *)
LEMMA PlansFacts ==
  ASSUME IInv, NEW v \in 1..version, NEW c \in Plans(v)
  PROVE  /\ c \in Seq(Chunk) /\ ValidChunks(c) /\ CoveredBy(c) \in Nat /\ CoveredBy(c) >= Coverage
         /\ CoveredBy(c) = Coverage \/ CoveredBy(c) <= Compressible(v)
<1>1. Chunks \in Seq(Chunk) /\ ValidChunks(Chunks) /\ Coverage \in Nat /\ version \in Nat
      /\ Batch \in Nat
  BY StateFacts, BatchAssumption DEF IInv, MemorySound
<1>2. CASE Mergeable(v) /\ c = Merged(Chunks, FirstBatch(Chunks))
  <2>1. /\ c \in Seq(Chunk) /\ ValidChunks(c) /\ CoveredBy(c) = Coverage
    BY <1>1, <1>2, FirstBatchFacts, MergedFacts DEF Mergeable, Coverage
  <2> QED BY <1>1, <2>1
<1>3. CASE Due(v) /\ c = Extended(Chunks)
  <2>1. c \in Seq(Chunk) /\ ValidChunks(c) /\ CoveredBy(c) = Coverage + Batch
    BY <1>1, <1>3, ExtendedFacts DEF Coverage
  <2>2. Compressible(v) \in Nat
    BY <1>1, CompressibleFacts
  <2>3. Coverage + Batch <= Compressible(v)
    BY <1>1, <1>3, <2>2, BatchAssumption DEF Due, Compressible, Monus
  <2> QED BY <1>1, <2>1, <2>3
<1> QED BY <1>2, <1>3 DEF Plans

(* A handler that begins when every earlier job is over, with or without its   *)
(* job, is sound.                                                              *)
LEMMA HandlerBegins ==
  ASSUME IInv, NEW v \in 1..version, \A u \in 1..(v - 1) : outcome[u] # "pending",
         ~Updated(v), ~FailedBefore(v), NEW c \in Plans(v), NEW h \in Handler,
         h.update = v, h.base = Len(snapshots), h.chunks = c
  PROVE  HandlerSound(h)
<1>1. version \in Nat /\ Coverage \in Nat /\ Len(snapshots) \in Nat
      /\ Coverage <= Compressible(version)
  BY StateFacts DEF IInv, MemorySound
<1>2. Compressible(v) <= Compressible(version) /\ Compressible(v) \in Nat
      /\ Compressible(version) \in Nat
  BY <1>1, CompressibleFacts
<1>3. CoveredBy(c) <= Compressible(version)
  BY <1>1, <1>2, PlansFacts
<1>4. \A u \in 1..(v - 1) : outcome[u] = "failed" => u <= Coverage
  BY <1>1 DEF FailedBefore
<1> QED BY <1>1, <1>3, <1>4, PlansFacts DEF HandlerSound

(* The first pending job gets an outcome: the others stay in order.            *)
LEMMA Settled ==
  ASSUME TypeOK, JobsInOrder, NEW v \in 1..version, NextJob(v), NEW result \in Outcomes \ {"pending"},
         outcome' = [outcome EXCEPT ![v] = result], version' = version
  PROVE  /\ outcome' \in Seq(Outcomes) /\ Len(outcome') = version'
         /\ \A u, w \in 1..version' : u < w /\ outcome'[u] = "pending" => outcome'[w] = "pending"
         /\ \A u \in 1..version' : outcome'[u] = "pending" => outcome[u] = "pending"
         /\ \A u \in 1..version : outcome[u] # "pending" => outcome'[u] = outcome[u]
<1>1. /\ outcome' \in Seq(Outcomes) /\ Len(outcome') = Len(outcome)
      /\ \A u \in 1..Len(outcome) : outcome'[u] = IF u = v THEN result ELSE outcome[u]
  BY StateFacts, ExceptSeq
<1>2. /\ \A u \in 1..version : u < v => outcome[u] # "pending"
      /\ outcome[v] = "pending"
  BY StateFacts DEF NextJob
<1>3. \A u, w \in 1..version : u < w /\ outcome'[u] = "pending" => outcome'[w] = "pending"
  <2> SUFFICES ASSUME NEW u \in 1..version, NEW w \in 1..version, u < w, outcome'[u] = "pending"
               PROVE  outcome'[w] = "pending"
    OBVIOUS
  <2>1. u # v /\ outcome[u] = "pending"
    BY <1>1, StateFacts
  <2>2. ~(u < v) /\ w # v
    BY <1>2, <2>1, StateFacts
  <2> QED BY <1>1, <2>1, <2>2, StateFacts DEF JobsInOrder
<1> QED BY <1>1, <1>2, <1>3, StateFacts

(* A turn and its job.                                                         *)
LEMMA CommitIInv ==
  ASSUME IInv, CommitTurn
  PROVE  IInv'
<1>1. /\ version' = version + 1 /\ outcome' \in Seq(Outcomes) /\ Len(outcome') = version + 1
      /\ \A u \in 1..version : outcome'[u] = outcome[u]
      /\ outcome'[version + 1] = "pending"
      /\ UNCHANGED <<snapshots, job, plan, lost>>
  <2>1. "pending" \in Outcomes
    BY DEF Outcomes
  <2> QED BY <2>1, StateFacts, AppendProperties DEF CommitTurn, IInv
<1>2. version \in Nat /\ \A u \in 1..version + 1 : u \in 1..version \/ u = version + 1
  BY StateFacts DEF IInv
<1>3. TypeOK'
  BY <1>1, <1>2 DEF IInv, TypeOK
<1>4. JobsInOrder'
  <2>1. \A u, v \in 1..version + 1 : u < v => u \in 1..version
    BY <1>2
  <2>2. \A u, v \in 1..version' : u < v /\ outcome'[u] = "pending" => outcome'[v] = "pending"
    BY <1>1, <1>2, <2>1 DEF IInv, JobsInOrder
  <2>3. job # None => job \in 1..version' /\ NextJob(job)'
    <3>1. job # None => job \in 1..version /\ \A u \in 1..(job - 1) : u \in 1..version
      BY <1>2 DEF IInv, JobsInOrder
    <3> QED BY <1>1, <1>2, <3>1 DEF IInv, JobsInOrder, NextJob
  <2> QED BY <1>1, <2>2, <2>3 DEF IInv, JobsInOrder
<1>5. Chunks' = Chunks /\ Coverage' = Coverage
  BY <1>1 DEF Chunks, Coverage
<1>6. MemorySound'
  <2>1. Coverage <= Compressible(version + 1)
    BY <1>2, CompressibleFacts, StateFacts DEF IInv, MemorySound
  <2> QED BY <1>1, <1>2, <1>5, <2>1 DEF IInv, MemorySound, Compressible
<1>7. HandlersSound'
  <2>1. Handlers' = Handlers
    BY <1>1 DEF Handlers, InHand
  <2>2. \A h \in Handlers : HandlerSound(h)'
    BY <1>1, HandlerFacts, HandlerKept DEF IInv, HandlersSound
  <2> QED BY <1>1, <2>1, <2>2 DEF IInv, HandlersSound, Compressible
<1> QED BY <1>3, <1>4, <1>6, <1>7 DEF IInv

(* A job that ends before or without a model call.                             *)
LEMMA SettleIInv ==
  ASSUME IInv, NEW v \in 1..version, NextJob(v), NEW result \in Outcomes \ {"pending"},
         outcome' = [outcome EXCEPT ![v] = result], UNCHANGED <<version, snapshots, lost>>,
         job' = None, plan' = NoPlan \/ (job = None /\ plan' = plan)
  PROVE  IInv'
<1>1. /\ outcome' \in Seq(Outcomes) /\ Len(outcome') = version'
      /\ \A u, w \in 1..version' : u < w /\ outcome'[u] = "pending" => outcome'[w] = "pending"
      /\ \A u \in 1..version' : outcome'[u] = "pending" => outcome[u] = "pending"
      /\ \A u \in 1..version : outcome[u] # "pending" => outcome'[u] = outcome[u]
  BY Settled DEF IInv
<1>2. plan'.stage = "none"
  BY DEF IInv, JobsInOrder, NoPlan
<1>3. TypeOK'
  <2>1. NoPlan \in Plan
    BY EmptySeq DEF NoPlan, Plan
  <2> QED BY <1>1, <2>1 DEF IInv, TypeOK
<1>4. JobsInOrder'
  BY <1>1, <1>2 DEF JobsInOrder
<1>5. MemorySound'
  BY <1>1 DEF IInv, MemorySound, Chunks, Coverage
<1>6. HandlersSound'
  <2>1. Handlers' \subseteq Handlers
    BY <1>2 DEF Handlers
  <2>2. \A h \in Handlers : HandlerSound(h)'
    BY <1>1, HandlerFacts, HandlerKept DEF IInv, HandlersSound
  <2> QED BY <1>2, <2>1, <2>2 DEF HandlersSound
<1> QED BY <1>3, <1>4, <1>5, <1>6 DEF IInv

(* A job goes to its model call with a valid row of chunks.                    *)
LEMMA CompressIInv ==
  ASSUME IInv, job = None, NEW v \in 1..version, NextJob(v), Compressed(v)
  PROVE  IInv'
<1>1. PICK c \in Plans(v) : Compress(v, c)
  BY DEF Compressed
<1>2. /\ job' = v /\ plan' = [stage |-> "compressing", base |-> Len(snapshots), chunks |-> c]
      /\ UNCHANGED <<version, outcome, snapshots, lost>>
  BY <1>1 DEF Compress
<1>3. plan'.stage = "compressing" /\ plan'.base = Len(snapshots) /\ plan'.chunks = c
  BY <1>2
<1>4. c \in Seq(Chunk) /\ CoveredBy(c) \in Nat
      /\ (CoveredBy(c) = Coverage \/ CoveredBy(c) <= Compressible(v))
  BY <1>1, PlansFacts
<1>5. TypeOK'
  <2>1. plan' \in Plan
    BY <1>2, <1>4, StateFacts DEF Plan, IInv
  <2> QED BY <1>2, <2>1, StateFacts DEF IInv, TypeOK
<1>6. v # None /\ version \in Nat
  BY NoneAssumption, StateFacts DEF IInv
<1>7. JobsInOrder'
  BY <1>2, <1>3, <1>6 DEF IInv, JobsInOrder, NextJob
<1>8. Chunks' = Chunks /\ Coverage' = Coverage
  BY <1>2 DEF Chunks, Coverage
<1>9. MemorySound'
  BY <1>2, <1>8 DEF IInv, MemorySound
<1>10. HandlersSound'
  <2> DEFINE h == [update |-> v, base |-> Len(snapshots), chunks |-> c]
  <2>1. InHand' = h /\ Handlers' = lost \union {h} /\ lost \subseteq Handlers
    BY <1>2, <1>3 DEF InHand, Handlers
  <2>2. h \in Handler /\ h.update = v /\ h.base = Len(snapshots) /\ h.chunks = c
    BY <1>4, <1>6, StateFacts DEF Handler, IInv
  <2> HIDE DEF h
  <2>3. ~Updated(v) /\ ~FailedBefore(v) /\ \A u \in 1..(v - 1) : outcome[u] # "pending"
    BY DEF Compressed, NextJob
  <2>4. HandlerSound(h)
    BY <1>1, <2>2, <2>3, HandlerBegins
  <2>5. \A g \in Handlers' : g \in Handler /\ HandlerSound(g)
    BY <2>1, <2>2, <2>4, HandlerFacts DEF IInv, HandlersSound
  <2>6. \A g \in Handlers' : HandlerSound(g)'
    BY <1>2, <2>5, HandlerKept DEF IInv
  <2>7. CoveredBy(c) <= Compressible(v)
    <3>1. Coverage <= Compressible(v)
      BY DEF NextJob, IInv, MemorySound
    <3> QED BY <1>4, <3>1
  <2> QED BY <1>2, <1>3, <2>6, <2>7 DEF HandlersSound, Compressible
<1> QED BY <1>5, <1>7, <1>9, <1>10 DEF IInv

(* What an append does to memory, whoever's it is.                             *)
LEMMA AppendFacts ==
  ASSUME IInv, NEW h \in Handlers, AppendOnBase(h)
  PROVE  /\ snapshots' \in Seq([update : Nat, chunks : Seq(Chunk)])
         /\ Len(snapshots') = Len(snapshots) + 1
         /\ \A i \in 1..Len(snapshots) : snapshots'[i] = snapshots[i]
         /\ Chunks' = h.chunks /\ Coverage' = CoveredBy(h.chunks)
         /\ h.update \in 1..version /\ h.chunks \in Seq(Chunk)
         /\ snapshots'[Len(snapshots) + 1].update = h.update
         /\ h.base = Len(snapshots) /\ h \in Handler /\ HandlerSound(h)
<1> DEFINE x == [update |-> h.update, chunks |-> h.chunks]
<1>1. h \in Handler /\ h.update \in Nat /\ h.chunks \in Seq(Chunk) /\ HandlerSound(h)
      /\ h.update \in 1..version /\ h.base = Len(snapshots)
  BY HandlerFacts DEF AppendOnBase, IInv, HandlersSound, HandlerSound
<1>2. x \in [update : Nat, chunks : Seq(Chunk)] /\ x.chunks = h.chunks /\ x.update = h.update
  BY <1>1
<1>3. snapshots' = Append(snapshots, x)
  BY DEF AppendOnBase
<1> HIDE DEF x
<1>4. /\ snapshots' \in Seq([update : Nat, chunks : Seq(Chunk)])
      /\ Len(snapshots') = Len(snapshots) + 1
      /\ \A i \in 1..Len(snapshots) : snapshots'[i] = snapshots[i]
      /\ snapshots'[Len(snapshots) + 1] = x
  BY <1>2, <1>3, AppendProperties DEF IInv, TypeOK
<1>5. snapshots' # <<>>
  <2>1. Len(snapshots) + 1 # 0
    BY StateFacts DEF IInv
  <2> QED BY <1>4, <2>1, EmptySeq
<1>6. Chunks' = h.chunks
  BY <1>2, <1>4, <1>5 DEF Chunks
<1> QED BY <1>1, <1>2, <1>4, <1>6 DEF Coverage

(* An append, in its turn or late, keeps memory and handlers sound.            *)
LEMMA AppendKeeps ==
  ASSUME IInv, NEW h \in Handlers, AppendOnBase(h), UNCHANGED <<version, outcome>>,
         Handlers' \subseteq Handlers, plan'.stage = "compressing" => UNCHANGED <<plan, job>>
  PROVE  MemorySound' /\ HandlersSound'
<1>1. MemorySound'
  <2>1. /\ ValidChunks(Chunks)' /\ h.update \in 1..version /\ version \in Nat
        /\ Coverage' \in Nat /\ Coverage \in Nat
        /\ (Coverage' = Coverage \/ Coverage' <= Compressible(h.update))
        /\ \A u \in 1..(h.update - 1) : outcome[u] # "pending"
    BY AppendFacts, RowFacts, StateFacts DEF IInv, HandlerSound
  <2>2. \A v \in 1..version : v >= h.update =>
          Compressible(h.update) <= Compressible(v) /\ Compressible(v) \in Nat
          /\ Compressible(h.update) \in Nat
    BY <2>1, CompressibleFacts
  <2>3. Coverage' <= Compressible(version)
    BY <2>1, <2>2 DEF IInv, MemorySound
  <2>4. \A v \in 1..version : outcome[v] = "pending" => Coverage' <= Compressible(v)
    <3> SUFFICES ASSUME NEW v \in 1..version, outcome[v] = "pending"
                 PROVE  Coverage' <= Compressible(v)
      OBVIOUS
    <3>1. v >= h.update
      BY <2>1
    <3> QED BY <2>1, <2>2, <3>1 DEF IInv, MemorySound
  <2> QED BY <2>1, <2>3, <2>4 DEF MemorySound, Compressible
<1>2. HandlersSound'
  <2>1. \A g \in Handlers : HandlerSound(g)'
    BY AppendFacts, HandlerFacts, HandlerOutdated DEF IInv, HandlersSound
  <2> QED BY <2>1 DEF IInv, HandlersSound, Compressible
<1> QED BY <1>1, <1>2

(* Appending what the handler has in hand keeps the invariant.                 *)
LEMMA AppendIInv ==
  ASSUME IInv, AppendSnapshot
  PROVE  IInv'
<1>1. /\ plan.stage = "compressing" /\ UNCHANGED <<version, outcome, job, lost>>
      /\ plan' = [plan EXCEPT !.stage = "appended"] /\ AppendOnBase(InHand)
  BY DEF AppendSnapshot
<1>2. plan'.stage = "appended" /\ plan' \in Plan
  BY <1>1 DEF IInv, TypeOK, Plan
<1>3. InHand \in Handlers
  BY <1>1, HandlerFacts DEF IInv
<1>4. TypeOK'
  BY <1>1, <1>2, <1>3, AppendFacts DEF IInv, TypeOK
<1>5. JobsInOrder'
  BY <1>1, <1>2 DEF IInv, JobsInOrder, NextJob
<1>6. Handlers' \subseteq Handlers
  BY <1>1, <1>2 DEF Handlers
<1>7. MemorySound' /\ HandlersSound'
  BY <1>1, <1>2, <1>3, <1>6, AppendKeeps
<1> QED BY <1>4, <1>5, <1>7 DEF IInv

(* So does a late append.                                                      *)
LEMMA LateIInv ==
  ASSUME IInv, NEW h \in lost, AppendLate(h)
  PROVE  IInv'
<1>1. UNCHANGED <<version, outcome, job, plan>> /\ lost' = lost \ {h} /\ AppendOnBase(h)
  BY DEF AppendLate
<1>2. h \in Handlers /\ Handlers' \subseteq Handlers
  BY <1>1 DEF Handlers, InHand
<1>3. TypeOK'
  BY <1>1, <1>2, AppendFacts DEF IInv, TypeOK
<1>4. JobsInOrder'
  BY <1>1 DEF IInv, JobsInOrder, NextJob
<1> QED BY <1>1, <1>2, <1>3, <1>4, AppendKeeps DEF IInv

(* A recovery, a handler that begins without its job, and the end of one.      *)
LEMMA LostIInv ==
  ASSUME IInv, Recover \/ BeginLost \/ \E h \in lost : LostEnds(h)
  PROVE  IInv'
<1>1. UNCHANGED <<version, outcome, snapshots>>
  BY DEF Recover, BeginLost, LostEnds
<1>2. MemorySound'
  BY <1>1 DEF IInv, MemorySound, Chunks, Coverage
<1>3. ASSUME NEW h \in Handler, HandlerSound(h)
      PROVE  HandlerSound(h)'
  BY <1>1, <1>3, HandlerKept DEF IInv
<1>4. CASE Recover
  <2>1. /\ plan.stage = "compressing" /\ lost' = lost \union {InHand}
        /\ job' = None /\ plan' = NoPlan
    BY <1>4 DEF Recover
  <2>2. plan'.stage = "none" /\ NoPlan \in Plan
    BY <2>1, EmptySeq DEF NoPlan, Plan
  <2>3. InHand \in Handlers /\ InHand \in Handler
    BY <2>1, HandlerFacts DEF IInv
  <2>4. TypeOK'
    BY <1>1, <2>1, <2>2, <2>3 DEF IInv, TypeOK
  <2>5. JobsInOrder'
    BY <1>1, <2>1, <2>2 DEF IInv, JobsInOrder
  <2>6. Handlers' \subseteq Handlers
    BY <2>1, <2>2, <2>3 DEF Handlers
  <2>7. \A h \in Handlers : HandlerSound(h)'
    BY <1>3, HandlerFacts DEF IInv, HandlersSound
  <2> QED BY <1>2, <2>2, <2>4, <2>5, <2>6, <2>7 DEF IInv, HandlersSound
<1>5. CASE BeginLost
  <2>1. PICK v \in 1..version :
          /\ \A u \in 1..(v - 1) : outcome[u] # "pending"
          /\ ~Updated(v) /\ ~FailedBefore(v)
          /\ \E chunks \in Plans(v) :
               lost' = lost \union {[update |-> v, base |-> Len(snapshots), chunks |-> chunks]}
    BY <1>5 DEF BeginLost
  <2>2. PICK c \in Plans(v) :
          lost' = lost \union {[update |-> v, base |-> Len(snapshots), chunks |-> c]}
    BY <2>1
  <2>3. UNCHANGED <<job, plan>>
    BY <1>5 DEF BeginLost
  <2> DEFINE h == [update |-> v, base |-> Len(snapshots), chunks |-> c]
  <2>4. h \in Handler /\ h.update = v /\ h.base = Len(snapshots) /\ h.chunks = c
    BY PlansFacts, StateFacts DEF Handler, IInv
  <2>5. lost' = lost \union {h}
    BY <2>2
  <2> HIDE DEF h
  <2>6. HandlerSound(h)
    BY <2>1, <2>4, HandlerBegins
  <2>7. TypeOK' /\ JobsInOrder'
    BY <1>1, <2>3, <2>4, <2>5 DEF IInv, TypeOK, JobsInOrder, NextJob
  <2>8. Handlers' = Handlers \union {h}
    BY <2>3, <2>5 DEF Handlers, InHand
  <2>9. \A g \in Handlers' : HandlerSound(g)'
    BY <1>3, <2>4, <2>6, <2>8, HandlerFacts DEF IInv, HandlersSound
  <2>10. HandlersSound'
    BY <1>1, <2>3, <2>9 DEF IInv, HandlersSound, Compressible
  <2> QED BY <1>2, <2>7, <2>10 DEF IInv
<1>6. ASSUME NEW h \in lost, LostEnds(h)
      PROVE  IInv'
  <2>1. UNCHANGED <<job, plan>> /\ lost' = lost \ {h}
    BY <1>6 DEF LostEnds
  <2>2. TypeOK' /\ JobsInOrder'
    BY <1>1, <2>1 DEF IInv, TypeOK, JobsInOrder, NextJob
  <2>3. Handlers' \subseteq Handlers
    BY <2>1 DEF Handlers, InHand
  <2>4. \A g \in Handlers : HandlerSound(g)'
    BY <1>3, HandlerFacts DEF IInv, HandlersSound
  <2>5. HandlersSound'
    BY <1>1, <2>1, <2>3, <2>4 DEF IInv, HandlersSound, Compressible
  <2> QED BY <1>2, <2>2, <2>5 DEF IInv
<1> QED BY <1>4, <1>5, <1>6

(* A job in hand ends, or is put back.                                         *)
LEMMA EndIInv ==
  ASSUME IInv, Finish \/ FailJob \/ Abandon
  PROVE  IInv'
<1>1. job # None => job \in 1..version /\ NextJob(job)
  BY DEF IInv, JobsInOrder
<1>2. {"updated", "failed"} \subseteq Outcomes \ {"pending"}
  BY DEF Outcomes
<1>3. CASE Finish
  <2>1. job # None
    BY <1>3 DEF Finish, IInv, JobsInOrder
  <2> QED BY <1>1, <1>2, <1>3, <2>1, SettleIInv DEF Finish
<1>4. CASE FailJob
  BY <1>1, <1>2, <1>4, SettleIInv DEF FailJob
<1>5. CASE Abandon
  <2>1. UNCHANGED <<version, outcome, snapshots, lost>> /\ job' = None /\ plan'.stage = "none"
        /\ plan' \in Plan
    BY <1>5, EmptySeq DEF Abandon, NoPlan, Plan
  <2>2. TypeOK' /\ JobsInOrder'
    BY <2>1 DEF IInv, TypeOK, JobsInOrder
  <2>3. MemorySound'
    BY <2>1 DEF IInv, MemorySound, Chunks, Coverage
  <2>4. Handlers' \subseteq Handlers
    BY <2>1 DEF Handlers
  <2>5. \A h \in Handlers : HandlerSound(h)'
    BY <2>1, HandlerFacts, HandlerKept DEF IInv, HandlersSound
  <2>6. HandlersSound'
    BY <2>1, <2>4, <2>5 DEF HandlersSound
  <2> QED BY <2>2, <2>3, <2>6 DEF IInv
<1> QED BY <1>3, <1>4, <1>5

(* A job is taken up: it ends at once, or goes to its model call.              *)
LEMMA RunIInv ==
  ASSUME IInv, RunJob
  PROVE  IInv'
<1>1. PICK v \in 1..version :
        /\ job = None /\ NextJob(v)
        /\ AlreadyUpdated(v) \/ Blocked(v) \/ Compressed(v) \/ NotDue(v)
  BY DEF RunJob
<1>2. {"updated", "blocked", "not_due"} \subseteq Outcomes \ {"pending"}
  BY DEF Outcomes
<1>3. ASSUME NEW result \in {"updated", "blocked", "not_due"}, Settle(v, result)
      PROVE  IInv'
  <2>1. /\ outcome' = [outcome EXCEPT ![v] = result] /\ UNCHANGED <<version, snapshots, lost>>
        /\ job' = None /\ job = None /\ plan' = plan
    BY <1>1, <1>3 DEF Settle
  <2> QED BY <1>1, <1>2, <1>3, <2>1, SettleIInv
<1>4. CASE AlreadyUpdated(v) \/ Blocked(v) \/ NotDue(v)
  BY <1>3, <1>4 DEF AlreadyUpdated, Blocked, NotDue
<1>5. CASE Compressed(v)
  BY <1>1, <1>5, CompressIInv
<1> QED BY <1>1, <1>4, <1>5

(* A Party begins without turns, jobs and chunks.                              *)
LEMMA InitIInv == Init => IInv
<1> SUFFICES ASSUME Init PROVE IInv
  OBVIOUS
<1>1. /\ version = 0 /\ outcome = <<>> /\ snapshots = <<>> /\ job = None /\ plan = NoPlan
      /\ lost = {} /\ Len(<<>>) = 0
  BY EmptySeq DEF Init
<1>2. plan.stage = "none" /\ plan \in Plan
  BY <1>1, EmptySeq DEF NoPlan, Plan
<1>3. TypeOK
  BY <1>1, <1>2, EmptySeq DEF TypeOK
<1>4. JobsInOrder
  BY <1>1, <1>2 DEF JobsInOrder
<1>5. Chunks = <<>> /\ Coverage = 0
  BY <1>1 DEF Chunks, Coverage, CoveredBy
<1>6. MemorySound
  <2>1. ValidChunks(<<>>)
    BY DEF ValidChunks
  <2>2. 0 <= Compressible(version)
    BY <1>1, CompressibleFacts
  <2> QED BY <1>1, <1>5, <2>1, <2>2 DEF MemorySound
<1>7. HandlersSound
  BY <1>1, <1>2 DEF HandlersSound, Handlers
<1> QED BY <1>3, <1>4, <1>6, <1>7 DEF IInv

(* Every step keeps the invariant.                                             *)
LEMMA NextIInv == IInv /\ [Next]_vars => IInv'
<1> SUFFICES ASSUME IInv, [Next]_vars PROVE IInv'
  OBVIOUS
<1>1. CASE CommitTurn
  BY <1>1, CommitIInv
<1>2. CASE RunJob
  BY <1>2, RunIInv
<1>3. CASE AppendSnapshot
  BY <1>3, AppendIInv
<1>4. CASE Finish \/ FailJob \/ Abandon
  BY <1>4, EndIInv
<1>5. CASE Recover \/ BeginLost \/ \E h \in lost : LostEnds(h)
  BY <1>5, LostIInv
<1>6. CASE \E h \in lost : AppendLate(h)
  BY <1>6, LateIInv
<1>7. CASE UNCHANGED vars
  BY <1>7 DEF vars, IInv, TypeOK, JobsInOrder, NextJob, MemorySound, HandlersSound, HandlerSound,
              Handlers, InHand, Updated, Chunks, Coverage, Compressible
<1> QED BY <1>1, <1>2, <1>3, <1>4, <1>5, <1>6, <1>7 DEF Next

(* Jobs stay in order and memory gapless, whatever fails and whoever is late.  *)
THEOREM Invariant == Spec => []IInv
<1> QED BY InitIInv, NextIInv, PTL DEF Spec
-----------------------------------------------------------------------------
(* What follows from the invariant.                                            *)

(* The variables have their types: each turn has one job, with one outcome.    *)
THEOREM TypeCorrect == Spec => []TypeOK
<1>1. IInv => TypeOK
  BY DEF IInv
<1> QED BY <1>1, Invariant, PTL

(* What a story_memory handler hands to append_story_memory passes the         *)
(* validators of the snapshot and speaks of no turn after that of its job or,  *)
(* when it has lost its job, of no turn there is not; as long as its base is   *)
(* the latest, neither its update nor its coverage is refused.                 *)
THEOREM NeverRefused == Spec => []PlanSound
<1>1. IInv => PlanSound
  <2> SUFFICES ASSUME IInv, NEW h \in Handlers
               PROVE  /\ ValidChunks(h.chunks)
                      /\ SpanOf(h.chunks) \subseteq 1..IF h \in lost THEN version ELSE job
                      /\ h.base = Len(snapshots) =>
                           ~Updated(h.update) /\ CoveredBy(h.chunks) >= Coverage
    BY DEF PlanSound
  <2>1. HandlerSound(h) /\ h.chunks \in Seq(Chunk) /\ version \in Nat
    BY HandlerFacts, StateFacts DEF IInv, HandlersSound
  <2>2. CoveredBy(h.chunks) \in Nat /\ SpanOf(h.chunks) = 1..CoveredBy(h.chunks)
    BY <2>1, RowFacts, SpanFacts DEF HandlerSound
  <2>3. CASE h \in lost
    <3>1. CoveredBy(h.chunks) <= version
      BY <2>1, <2>2, CompressibleFacts DEF HandlerSound
    <3> QED BY <2>1, <2>2, <2>3, <3>1 DEF HandlerSound
  <2>4. CASE h \notin lost
    <3>1. plan.stage = "compressing" /\ h = InHand
      BY <2>4 DEF Handlers
    <3>2. job \in Nat /\ CoveredBy(h.chunks) <= Compressible(job)
      BY <3>1, HandlerFacts, StateFacts DEF IInv, JobsInOrder, HandlersSound
    <3>3. CoveredBy(h.chunks) <= job
      BY <2>2, <3>2, CompressibleFacts
    <3> QED BY <2>1, <2>2, <2>4, <3>2, <3>3 DEF HandlerSound
  <2> QED BY <2>3, <2>4
<1> QED BY <1>1, Invariant, PTL

(* The chunks and the turns that select_raw_turns shows verbatim are all the   *)
(* turns there are, and the last Window of them are verbatim, whichever jobs   *)
(* failed, were blocked or were lost half way.                                 *)
THEOREM NoGap == Spec => []NoBlindSpot
<1>1. IInv => NoBlindSpot
  <2> SUFFICES ASSUME IInv PROVE NoBlindSpot
    OBVIOUS
  <2>1. /\ version \in Nat /\ Coverage \in Nat /\ Coverage <= Compressible(version)
        /\ Chunks \in Seq(Chunk) /\ ValidChunks(Chunks)
    BY StateFacts DEF IInv, MemorySound
  <2>2. /\ Coverage <= version /\ Compressible(version) \in Nat
    BY <2>1, CompressibleFacts
  <2>3. SpanOf(Chunks) = 1..Coverage
    BY <2>1, SpanFacts DEF Coverage
  <2>4. RawTurns \subseteq 1..version /\ \A n \in 1..version : n > Coverage => n \in RawTurns
    BY DEF RawTurns
  <2>5. SpanOf(Chunks) \union RawTurns = 1..version
    <3>1. 1..Coverage \subseteq 1..version
      BY <2>1, <2>2
    <3>2. \A n \in 1..version : n \in 1..Coverage \/ n \in RawTurns
      BY <2>1, <2>4
    <3> QED BY <2>3, <2>4, <3>1, <3>2, Zenon
  <2>6. (Compressible(version) + 1)..version \subseteq RawTurns
    BY <2>1, <2>2, <2>4
  <2> QED BY <2>1, <2>5, <2>6 DEF NoBlindSpot, Compressible
<1> QED BY <1>1, Invariant, PTL

\* What a step may do to the snapshots.
Growing ==
  /\ SubSeq(snapshots', 1, Len(snapshots)) = snapshots
  /\ Coverage' >= Coverage
  /\ \A v \in 1..version : outcome[v] = "failed" /\ v > Coverage =>
       \A r \in (Len(snapshots) + 1)..Len(snapshots') : snapshots'[r].update <= v

(* An append, in its turn or late, adds one snapshot, for no turn after a      *)
(* failed one that is not covered.                                             *)
LEMMA AppendGrows ==
  ASSUME IInv, NEW h \in Handlers, AppendOnBase(h)
  PROVE  Growing
<1>1. /\ snapshots' \in Seq([update : Nat, chunks : Seq(Chunk)])
      /\ snapshots \in Seq([update : Nat, chunks : Seq(Chunk)])
      /\ Len(snapshots) \in Nat /\ Coverage \in Nat /\ version \in Nat
      /\ Len(snapshots') = Len(snapshots) + 1
      /\ \A i \in 1..Len(snapshots) : snapshots'[i] = snapshots[i]
      /\ Coverage' = CoveredBy(h.chunks) /\ h.update \in 1..version
      /\ snapshots'[Len(snapshots) + 1].update = h.update
  BY AppendFacts, StateFacts DEF IInv, TypeOK
<1>2. /\ CoveredBy(h.chunks) >= Coverage
      /\ \A u \in 1..(h.update - 1) : outcome[u] = "failed" => u <= Coverage
  BY AppendFacts DEF HandlerSound
<1>3. SubSeq(snapshots', 1, Len(snapshots)) = snapshots
  <2> DEFINE Old == snapshots
             New == snapshots'
             Snapshot == [update : Nat, chunks : Seq(Chunk)]
  <2>1. Old \in Seq(Snapshot) /\ New \in Seq(Snapshot) /\ Len(Old) \in Nat
        /\ Len(New) = Len(Old) + 1 /\ \A i \in 1..Len(Old) : New[i] = Old[i]
    BY <1>1
  <2> HIDE DEF Old, New, Snapshot
  <2>2. \A i \in 1..Len(Old) : New[i] \in Snapshot
    BY <2>1, ElementOfSeq
  <2>3. /\ SubSeq(New, 1, Len(Old)) \in Seq(Snapshot)
        /\ Len(SubSeq(New, 1, Len(Old))) = Len(Old)
        /\ \A i \in 1..Len(Old) : SubSeq(New, 1, Len(Old))[i] = New[1 + i - 1]
    BY <2>1, <2>2, SubSeqProperties
  <2>4. \A i \in 1..Len(Old) : SubSeq(New, 1, Len(Old))[i] = Old[i]
    BY <2>1, <2>3
  <2>5. SubSeq(New, 1, Len(Old)) = Old
    BY <2>1, <2>3, <2>4, SeqEqual
  <2> QED BY <2>5 DEF Old, New
<1>4. ASSUME NEW v \in 1..version, outcome[v] = "failed", v > Coverage,
             NEW r \in (Len(snapshots) + 1)..Len(snapshots')
      PROVE  snapshots'[r].update <= v
  <2>1. r = Len(snapshots) + 1
    BY <1>1
  <2>2. v \notin 1..(h.update - 1)
    BY <1>1, <1>2, <1>4
  <2>3. h.update <= v
    BY <1>1, <2>2
  <2> QED BY <1>1, <2>1, <2>3
<1> QED BY <1>1, <1>2, <1>3, <1>4 DEF Growing

(* Snapshots are only appended, what they cover never shrinks, and no job of a *)
(* turn after a failed one that is not covered compresses anything.            *)
THEOREM OnlyGrows == Spec => MemoryGrows
<1>1. IInv /\ [Next]_vars => Growing
  <2> SUFFICES ASSUME IInv, [Next]_vars PROVE Growing
    OBVIOUS
  <2>1. /\ snapshots \in Seq([update : Nat, chunks : Seq(Chunk)])
        /\ Len(snapshots) \in Nat /\ Coverage \in Nat
    BY StateFacts DEF IInv, TypeOK
  <2>2. CASE AppendSnapshot
    BY <2>2, AppendGrows, HandlerFacts DEF AppendSnapshot, IInv
  <2>3. CASE \E h \in lost : AppendLate(h)
    BY <2>3, AppendGrows DEF AppendLate, Handlers
  <2>4. CASE ~AppendSnapshot /\ ~\E h \in lost : AppendLate(h)
    <3>1. snapshots' = snapshots
      BY <2>4 DEF Next, vars, CommitTurn, RunJob, AlreadyUpdated, Blocked, Compressed,
                  NotDue, Settle, Compress, Finish, FailJob, Abandon, Recover, BeginLost, LostEnds
    <3>2. SubSeq(snapshots, 1, Len(snapshots)) = snapshots
      BY <2>1, SubSeqFull
    <3>3. Coverage' = Coverage
      BY <3>1 DEF Coverage, Chunks
    <3>4. (Len(snapshots) + 1)..Len(snapshots') = {}
      BY <2>1, <3>1
    <3> QED BY <2>1, <3>1, <3>2, <3>3, <3>4 DEF Growing
  <2> QED BY <2>2, <2>3, <2>4
<1> QED BY <1>1, Invariant, PTL DEF Spec, MemoryGrows, Growing
-----------------------------------------------------------------------------
(* Memory keeps up: batches and merges are counted.                            *)

\* A row has as many chunks as there were batches, but for the merges: each put
\* one chunk where there were Batch.
Counted(c, m) == m \in Nat /\ CoveredBy(c) = Batch * (Len(c) + m * (Batch - 1))

\* The jobs of the turns up to v all did what they could, and what was uncovered
\* then was less than a batch and one turn for each merge.
Smooth(v) == \A u \in 1..v : outcome[u] \in {"updated", "not_due"}
InStep(v) == \E m : Counted(Chunks, m) /\ v < Coverage + Window + Batch + m

\* A snapshot is written for the first pending turn or for one that is over.
InTurn ==
  \A r \in DOMAIN snapshots :
    /\ snapshots[r].update \in 1..version
    /\ \A u \in 1..version : u < snapshots[r].update => outcome[u] # "pending"

\* One batch more, or one merge.
OneMore(c) ==
  \A m : Counted(Chunks, m) =>
    \/ Counted(c, m) /\ CoveredBy(c) = Coverage + Batch
    \/ Counted(c, m + 1) /\ CoveredBy(c) = Coverage

PaceInv ==
  /\ InTurn
  /\ \A v \in 0..version : Smooth(v) => InStep(v)
  /\ \A v \in 1..version : NextJob(v) /\ Updated(v) /\ Smooth(v - 1) => InStep(v)
  /\ \A h \in Handlers : h.base = Len(snapshots) => OneMore(h.chunks)
  /\ plan.stage = "appended" => Updated(job)

(* A batch of turns is one chunk more.                                         *)
LEMMA ExtendedCount ==
  ASSUME NEW c \in Seq(Chunk), ValidChunks(c), NEW m, Counted(c, m)
  PROVE  Counted(Extended(c), m)
<1> DEFINE X == Len(c) + m * (Batch - 1)
<1>1. /\ m \in Nat /\ Batch \in Nat /\ Batch - 1 \in Nat /\ Len(c) \in Nat
      /\ m * (Batch - 1) \in Nat /\ X \in Nat
  BY RowFacts, BatchAssumption DEF Counted
<1>2. Len(Extended(c)) + m * (Batch - 1) = X + 1
  <2> DEFINE Y == m * (Batch - 1)
  <2>1. Y \in Nat /\ Len(c) \in Nat /\ Len(Extended(c)) = Len(c) + 1
    BY <1>1, ExtendedFacts
  <2> HIDE DEF Y
  <2>2. Len(Extended(c)) + Y = (Len(c) + Y) + 1
    BY <2>1
  <2> QED BY <2>2 DEF Y
<1>3. CoveredBy(Extended(c)) = Batch * X + Batch
  BY ExtendedFacts DEF Counted
<1> HIDE DEF X
<1>4. Batch * X + Batch = Batch * (X + 1)
  BY <1>1
<1> QED BY <1>1, <1>2, <1>3, <1>4 DEF Counted

(* A merge is Batch - 1 chunks less.                                           *)
LEMMA MergedCount ==
  ASSUME NEW c \in Seq(Chunk), ValidChunks(c), HierarchyBatches(c) # {}, NEW m, Counted(c, m)
  PROVE  Counted(Merged(c, FirstBatch(c)), m + 1)
<1> DEFINE d == Merged(c, FirstBatch(c))
<1>1. CoveredBy(d) = CoveredBy(c) /\ Len(d) = Len(c) - Batch + 1
  BY FirstBatchFacts, MergedFacts
<1>2. m \in Nat /\ Batch \in Nat /\ Batch - 1 \in Nat /\ Len(c) \in Nat
  BY RowFacts, BatchAssumption DEF Counted
<1> HIDE DEF d
<1>3. (m + 1) * (Batch - 1) = m * (Batch - 1) + (Batch - 1) /\ m * (Batch - 1) \in Nat
  BY <1>2
<1>4. Len(d) + (m + 1) * (Batch - 1) = Len(c) + m * (Batch - 1)
  <2> DEFINE Y == m * (Batch - 1)
  <2> HIDE DEF Y
  <2>1. (m + 1) * (Batch - 1) = Y + (Batch - 1) /\ Y \in Nat
    BY <1>3 DEF Y
  <2>2. Len(d) + (Y + (Batch - 1)) = Len(c) + Y
    BY <1>1, <1>2, <2>1
  <2> QED BY <2>1, <2>2 DEF Y
<1>5. CoveredBy(d) = Batch * (Len(d) + (m + 1) * (Batch - 1)) /\ m + 1 \in Nat
  BY <1>1, <1>2, <1>4 DEF Counted
<1> QED BY <1>5 DEF Counted, d

(* The count of a row is its number of merges.                                 *)
LEMMA MergesCount ==
  ASSUME NEW c \in Seq(Chunk), NEW m, Counted(c, m)
  PROVE  Merges(c) = m
<1>1. m \in Nat /\ Batch \in Nat \ {0} /\ Batch - 1 \in Nat \ {0} /\ Len(c) \in Nat
  BY RowFacts, BatchAssumption DEF Counted
<1>2. \A a \in Nat, b \in Nat \ {0} : (b * a) \div b = a
  OBVIOUS
<1> DEFINE Y == m * (Batch - 1)
<1>3. Y \in Nat /\ Y = (Batch - 1) * m
  BY <1>1
<1>4. CoveredBy(c) = Batch * (Len(c) + Y)
  BY DEF Counted
<1>5. Y \div (Batch - 1) = m
  BY <1>1, <1>2, <1>3
<1> HIDE DEF Y
<1>6. Len(c) + Y \in Nat /\ (Len(c) + Y) - Len(c) = Y
  BY <1>1, <1>3
<1>7. CoveredBy(c) \div Batch = Len(c) + Y
  BY <1>1, <1>2, <1>4, <1>6
<1> QED BY <1>5, <1>6, <1>7 DEF Merges

(* The first pending job gets its outcome.                                     *)
LEMMA SettlePace ==
  ASSUME IInv, PaceInv, NEW v \in 1..version, NextJob(v), NEW result \in Outcomes \ {"pending"},
         result \in {"updated", "not_due"} /\ Smooth(v - 1) => InStep(v),
         outcome' = [outcome EXCEPT ![v] = result], UNCHANGED <<version, snapshots, lost>>,
         plan'.stage = "none"
  PROVE  PaceInv'
<1>1. /\ version \in Nat /\ Len(outcome) = version
      /\ \A u \in 1..version : outcome'[u] = IF u = v THEN result ELSE outcome[u]
  BY StateFacts, ExceptSeq DEF IInv
<1>2. Chunks' = Chunks /\ Coverage' = Coverage /\ \A p : InStep(p) => InStep(p)'
  BY DEF Chunks, Coverage, InStep, Counted
<1>3. /\ \A u \in 1..version : u < v => outcome[u] # "pending"
      /\ \A u \in 1..version : u > v => outcome[u] = "pending"
      /\ outcome[v] = "pending"
  BY <1>1 DEF NextJob, IInv, JobsInOrder
<1>4. InTurn'
  BY <1>1, <1>3 DEF PaceInv, InTurn
<1>5. ASSUME NEW p \in 0..version, Smooth(p)'
      PROVE  InStep(p)'
  <2>1. CASE p < v
    <3>1. Smooth(p)
      BY <1>1, <1>5, <2>1 DEF Smooth
    <3> QED BY <1>2, <3>1 DEF PaceInv
  <2>2. CASE p = v
    <3>1. Smooth(v - 1) /\ result \in {"updated", "not_due"}
      BY <1>1, <1>5, <2>2 DEF Smooth
    <3> QED BY <1>2, <2>2, <3>1
  <2>3. CASE p > v
    <3>1. p \in 1..version /\ p \in 1..p /\ outcome'[p] = "pending"
      BY <1>1, <1>3, <2>3
    <3> QED BY <1>5, <3>1 DEF Smooth
  <2> QED BY <1>1, <2>1, <2>2, <2>3
<1>6. ASSUME NEW w \in 1..version, NextJob(w)', Updated(w)'
      PROVE  FALSE
  <2>1. outcome'[w] = "pending"
    BY <1>6 DEF NextJob
  <2>2. w > v
    BY <1>1, <1>3, <2>1
  <2>3. PICK r \in DOMAIN snapshots : snapshots[r].update = w
    BY <1>6 DEF Updated
  <2>4. outcome[v] # "pending"
    BY <2>2, <2>3 DEF PaceInv, InTurn
  <2> QED BY <1>3, <2>4
<1>7. ASSUME NEW h \in Handlers', h.base = Len(snapshots')
      PROVE  OneMore(h.chunks)'
  <2>1. h \in Handlers
    BY <1>7 DEF Handlers
  <2> QED BY <1>2, <1>7, <2>1 DEF PaceInv, OneMore, Counted
<1> QED BY <1>1, <1>4, <1>5, <1>6, <1>7 DEF PaceInv

(* A turn and its job.                                                         *)
LEMMA CommitPace ==
  ASSUME IInv, PaceInv, CommitTurn
  PROVE  PaceInv'
<1>1. /\ version \in Nat /\ version' = version + 1
      /\ \A u \in 1..version : outcome'[u] = outcome[u]
      /\ outcome'[version + 1] = "pending"
      /\ UNCHANGED <<snapshots, job, plan, lost>>
  <2>1. "pending" \in Outcomes
    BY DEF Outcomes
  <2> QED BY <2>1, StateFacts, AppendProperties DEF CommitTurn, IInv
<1>2. Chunks' = Chunks /\ Coverage' = Coverage /\ \A p : InStep(p) => InStep(p)'
  BY <1>1 DEF Chunks, Coverage, InStep, Counted
<1>3. InTurn'
  BY <1>1 DEF PaceInv, InTurn
<1>4. ASSUME NEW p \in 0..version', Smooth(p)'
      PROVE  InStep(p)'
  <2>1. CASE p = version + 1
    <3>1. p \in 1..p
      BY <1>1, <2>1
    <3> QED BY <1>1, <1>4, <2>1, <3>1 DEF Smooth
  <2>2. CASE p # version + 1
    <3>1. p \in 0..version
      BY <1>1, <2>2
    <3>2. Smooth(p)
      BY <1>1, <1>4, <3>1 DEF Smooth
    <3> QED BY <1>2, <3>1, <3>2 DEF PaceInv
  <2> QED BY <2>1, <2>2
<1>5. ASSUME NEW w \in 1..version', NextJob(w)', Updated(w)', Smooth(w - 1)'
      PROVE  InStep(w)'
  <2>1. Updated(w) /\ w \in 1..version
    BY <1>1, <1>5 DEF Updated, PaceInv, InTurn
  <2>2. NextJob(w)
    BY <1>1, <1>5, <2>1 DEF NextJob
  <2>3. Smooth(w - 1)
    BY <1>1, <1>5, <2>1 DEF Smooth
  <2> QED BY <1>2, <2>1, <2>2, <2>3 DEF PaceInv
<1>6. \A h \in Handlers' : h.base = Len(snapshots') => OneMore(h.chunks)'
  <2>1. Handlers' = Handlers
    BY <1>1 DEF Handlers, InHand
  <2> QED BY <1>1, <1>2, <2>1 DEF PaceInv, OneMore, Counted
<1>7. plan'.stage = "appended" => Updated(job)'
  BY <1>1 DEF PaceInv, Updated
<1> QED BY <1>3, <1>4, <1>5, <1>6, <1>7 DEF PaceInv

(* What a handler sets out to write is one batch more, or one merge.           *)
LEMMA PlansPace ==
  ASSUME IInv, NEW v \in 1..version, NEW c \in Plans(v)
  PROVE  OneMore(c)
<1>1. Coverage \in Nat /\ Chunks \in Seq(Chunk) /\ ValidChunks(Chunks) /\ Batch \in Nat
  BY StateFacts, BatchAssumption DEF IInv, MemorySound
<1>2. CASE Mergeable(v) /\ c = Merged(Chunks, FirstBatch(Chunks))
  <2> DEFINE d == Merged(Chunks, FirstBatch(Chunks))
  <2>1. HierarchyBatches(Chunks) # {} /\ c = d
    BY <1>2 DEF Mergeable
  <2>2. CoveredBy(d) = Coverage
    BY <1>1, <2>1, FirstBatchFacts, MergedFacts DEF Coverage
  <2>3. \A m : Counted(Chunks, m) => Counted(d, m + 1)
    BY <1>1, <2>1, MergedCount
  <2> HIDE DEF d
  <2> QED BY <2>1, <2>2, <2>3 DEF OneMore
<1>3. CASE Due(v) /\ c = Extended(Chunks)
  <2>1. CoveredBy(Extended(Chunks)) = Coverage + Batch
    BY <1>1, ExtendedFacts DEF Coverage
  <2>2. \A m : Counted(Chunks, m) => Counted(Extended(Chunks), m)
    BY <1>1, ExtendedCount
  <2> QED BY <1>3, <2>1, <2>2 DEF OneMore
<1> QED BY <1>2, <1>3 DEF Plans

(* A job is taken up.                                                          *)
LEMMA RunPace ==
  ASSUME IInv, PaceInv, RunJob
  PROVE  PaceInv'
<1>1. PICK v \in 1..version :
        /\ job = None /\ NextJob(v)
        /\ AlreadyUpdated(v) \/ Blocked(v) \/ Compressed(v) \/ NotDue(v)
  BY DEF RunJob
<1>2. plan.stage = "none"
  BY <1>1 DEF IInv, JobsInOrder
<1>3. /\ version \in Nat /\ Coverage \in Nat /\ Chunks \in Seq(Chunk) /\ ValidChunks(Chunks)
      /\ Window \in Nat /\ Batch \in Nat
  BY StateFacts, WindowAssumption, BatchAssumption DEF IInv, MemorySound
<1>4. ASSUME NEW result \in {"updated", "blocked", "not_due"}, Settle(v, result),
             result \in {"updated", "not_due"} /\ Smooth(v - 1) => InStep(v)
      PROVE  PaceInv'
  <2>1. result \in Outcomes \ {"pending"}
    BY DEF Outcomes
  <2>2. outcome' = [outcome EXCEPT ![v] = result] /\ UNCHANGED <<version, snapshots, lost>>
        /\ plan'.stage = "none"
    BY <1>2, <1>4 DEF Settle
  <2> QED BY <1>1, <1>4, <2>1, <2>2, SettlePace
<1>5. CASE AlreadyUpdated(v)
  <2>1. Updated(v) /\ Settle(v, "updated")
    BY <1>5 DEF AlreadyUpdated
  <2>2. Smooth(v - 1) => InStep(v)
    BY <1>1, <2>1 DEF PaceInv
  <2> QED BY <1>4, <2>1, <2>2
<1>6. CASE Blocked(v)
  BY <1>4, <1>6 DEF Blocked
<1>7. CASE NotDue(v)
  <2>1. Smooth(0) /\ 0 \in 0..version
    BY <1>3 DEF Smooth
  <2>2. PICK m : Counted(Chunks, m)
    BY <2>1 DEF PaceInv, InStep
  <2>3. ~Due(v) /\ Settle(v, "not_due")
    BY <1>7 DEF NotDue
  <2>4. v < Coverage + Window + Batch
    BY <1>3, <2>3 DEF Due, Monus
  <2>5. v < Coverage + Window + Batch + m
    BY <1>3, <2>2, <2>4 DEF Counted
  <2> QED BY <1>4, <2>2, <2>3, <2>5 DEF InStep
<1>8. CASE Compressed(v)
  <2>1. PICK c \in Plans(v) : Compress(v, c)
    BY <1>8 DEF Compressed
  <2>2. /\ plan' = [stage |-> "compressing", base |-> Len(snapshots), chunks |-> c]
        /\ UNCHANGED <<version, outcome, snapshots, lost>>
    BY <2>1 DEF Compress
  <2>3. plan'.stage = "compressing" /\ plan'.chunks = c
    BY <2>2
  <2>4. Chunks' = Chunks /\ Coverage' = Coverage
    BY <2>2 DEF Chunks, Coverage
  <2>5. ASSUME NEW h \in Handlers', h.base = Len(snapshots')
        PROVE  OneMore(h.chunks)'
    <3>1. (h \in Handlers \/ h.chunks = c) /\ h.base = Len(snapshots)
      BY <2>2, <2>3, <2>5 DEF Handlers, InHand
    <3>2. OneMore(h.chunks)
      BY <1>1, <2>1, <3>1, PlansPace DEF PaceInv
    <3> QED BY <2>4, <3>2 DEF OneMore, Counted
  <2>6. InTurn' /\ \A p : (Smooth(p)' <=> Smooth(p)) /\ (InStep(p)' <=> InStep(p))
                          /\ (NextJob(p)' <=> NextJob(p)) /\ (Updated(p)' <=> Updated(p))
    BY <2>2, <2>4 DEF PaceInv, InTurn, Smooth, InStep, Counted, NextJob, Updated
  <2> QED BY <2>2, <2>3, <2>5, <2>6 DEF PaceInv
<1> QED BY <1>1, <1>5, <1>6, <1>7, <1>8

(* A snapshot is appended, in its turn or late: one more batch is covered, or  *)
(* one more merge has used up a job.                                           *)
LEMMA AppendPace ==
  ASSUME IInv, PaceInv, NEW h \in Handlers, AppendOnBase(h), UNCHANGED <<version, outcome>>,
         Handlers' \subseteq Handlers, plan'.stage = "appended" => Updated(job)'
  PROVE  PaceInv'
<1>1. /\ version \in Nat /\ Coverage \in Nat /\ Window \in Nat
      /\ Batch \in Nat /\ Batch > 1 /\ Len(snapshots) \in Nat
  BY StateFacts, WindowAssumption, BatchAssumption DEF IInv
<1>2. /\ Chunks' = h.chunks /\ Coverage' = CoveredBy(h.chunks)
      /\ DOMAIN snapshots' = 1..Len(snapshots) + 1 /\ DOMAIN snapshots = 1..Len(snapshots)
      /\ \A r \in 1..Len(snapshots) : snapshots'[r] = snapshots[r]
      /\ snapshots'[Len(snapshots) + 1].update = h.update
      /\ h.update \in 1..version /\ h.base = Len(snapshots)
      /\ \A u \in 1..(h.update - 1) : outcome[u] # "pending"
  BY <1>1, AppendFacts, LenProperties DEF IInv, TypeOK, HandlerSound
<1>3. OneMore(h.chunks)
  BY <1>2 DEF PaceInv
<1>4. ASSUME NEW p \in Nat, InStep(p)
      PROVE  InStep(p)' /\ InStep(p + 1)'
  <2>1. PICK m : Counted(Chunks, m) /\ p < Coverage + Window + Batch + m
    BY <1>4 DEF InStep
  <2>2. m \in Nat
    BY <2>1 DEF Counted
  <2>3. CASE Counted(h.chunks, m) /\ CoveredBy(h.chunks) = Coverage + Batch
    <3>1. p + 1 < Coverage' + Window + Batch + m /\ p < Coverage' + Window + Batch + m
      BY <1>1, <1>2, <2>1, <2>2, <2>3
    <3> QED BY <1>2, <2>3, <3>1 DEF InStep, Counted
  <2>4. CASE Counted(h.chunks, m + 1) /\ CoveredBy(h.chunks) = Coverage
    <3>1. p + 1 < Coverage' + Window + Batch + (m + 1)
          /\ p < Coverage' + Window + Batch + (m + 1)
      BY <1>1, <1>2, <2>1, <2>2, <2>4
    <3> QED BY <1>2, <2>4, <3>1 DEF InStep, Counted
  <2> QED BY <1>3, <2>1, <2>3, <2>4 DEF OneMore
<1>5. InTurn'
  <2> SUFFICES ASSUME NEW r \in 1..Len(snapshots) + 1
               PROVE  /\ snapshots'[r].update \in 1..version
                      /\ \A u \in 1..version : u < snapshots'[r].update => outcome[u] # "pending"
    BY <1>2 DEF InTurn
  <2>1. CASE r = Len(snapshots) + 1
    BY <1>1, <1>2, <2>1
  <2>2. CASE r # Len(snapshots) + 1
    <3>1. r \in 1..Len(snapshots)
      BY <1>1, <2>2
    <3> QED BY <1>2, <3>1 DEF PaceInv, InTurn
  <2> QED BY <2>1, <2>2
<1>6. \A p : (Smooth(p)' <=> Smooth(p)) /\ (NextJob(p)' <=> NextJob(p))
  BY DEF Smooth, NextJob
<1>7. \A p \in 0..version : Smooth(p)' => InStep(p)'
  BY <1>1, <1>4, <1>6 DEF PaceInv
<1>8. ASSUME NEW w \in 1..version, NextJob(w)', Updated(w)', Smooth(w - 1)'
      PROVE  InStep(w)'
  <2>1. CASE w = h.update
    <3>1. w - 1 \in 0..version /\ w - 1 \in Nat /\ (w - 1) + 1 = w
      BY <1>1
    <3>2. InStep(w - 1)
      BY <1>6, <1>8, <3>1 DEF PaceInv
    <3>3. InStep((w - 1) + 1)'
      BY <1>4, <3>1, <3>2
    <3> QED BY <3>1, <3>3
  <2>2. CASE w # h.update
    <3>1. PICK r \in 1..Len(snapshots) + 1 : snapshots'[r].update = w
      BY <1>2, <1>8 DEF Updated
    <3>2. r \in 1..Len(snapshots)
      BY <1>1, <1>2, <2>2, <3>1
    <3>3. Updated(w)
      BY <1>2, <3>1, <3>2 DEF Updated
    <3>4. InStep(w)
      BY <1>6, <1>8, <3>3 DEF PaceInv
    <3> QED BY <1>1, <1>4, <3>4
  <2> QED BY <2>1, <2>2
<1>9. ASSUME NEW g \in Handlers'
      PROVE  g.base # Len(snapshots')
  <2>1. g \in Handler /\ HandlerSound(g)
    BY <1>9, HandlerFacts DEF IInv, HandlersSound
  <2>2. g.base \in Nat /\ g.base <= Len(snapshots) /\ Len(snapshots') = Len(snapshots) + 1
    BY <2>1, AppendFacts DEF HandlerSound, Handler
  <2> QED BY <1>1, <2>2
<1> QED BY <1>5, <1>7, <1>8, <1>9 DEF PaceInv

(* What was appended is there.                                                 *)
LEMMA AppendedIsThere ==
  ASSUME IInv, NEW h \in Handlers, AppendOnBase(h)
  PROVE  /\ Updated(h.update)'
         /\ \A u : Updated(u) => Updated(u)'
<1>1. /\ DOMAIN snapshots' = 1..Len(snapshots) + 1 /\ DOMAIN snapshots = 1..Len(snapshots)
      /\ Len(snapshots) \in Nat
      /\ \A r \in 1..Len(snapshots) : snapshots'[r] = snapshots[r]
      /\ snapshots'[Len(snapshots) + 1].update = h.update
  BY StateFacts, AppendFacts, LenProperties DEF IInv, TypeOK
<1>2. Len(snapshots) + 1 \in 1..Len(snapshots) + 1
      /\ \A r \in 1..Len(snapshots) : r \in 1..Len(snapshots) + 1
  BY <1>1
<1> QED BY <1>1, <1>2 DEF Updated

(* The job in hand appends.                                                    *)
LEMMA AppendSnapshotPace ==
  ASSUME IInv, PaceInv, AppendSnapshot
  PROVE  PaceInv'
<1>1. /\ plan.stage = "compressing" /\ UNCHANGED <<version, outcome, job, lost>>
      /\ plan'.stage = "appended" /\ AppendOnBase(InHand)
  BY DEF AppendSnapshot, IInv, TypeOK, Plan
<1>2. InHand \in Handlers /\ InHand.update = job
  BY <1>1, HandlerFacts DEF IInv
<1>3. Handlers' \subseteq Handlers
  BY <1>1 DEF Handlers
<1>4. Updated(job)'
  <2>1. PICK h \in Handlers : h = InHand
    BY <1>2
  <2>2. AppendOnBase(h) /\ h.update = job /\ job' = job
    BY <1>1, <1>2, <2>1
  <2>3. Updated(h.update)'
    BY <2>2, AppendedIsThere
  <2> QED BY <2>2, <2>3 DEF Updated
<1> QED BY <1>1, <1>2, <1>3, <1>4, AppendPace

(* A handler that has lost its job appends.                                    *)
LEMMA LatePace ==
  ASSUME IInv, PaceInv, NEW h \in lost, AppendLate(h)
  PROVE  PaceInv'
<1>1. UNCHANGED <<version, outcome, job, plan>> /\ lost' = lost \ {h} /\ AppendOnBase(h)
  BY DEF AppendLate
<1>2. h \in Handlers /\ Handlers' \subseteq Handlers
  BY <1>1 DEF Handlers, InHand
<1>3. plan'.stage = "appended" => Updated(job)'
  <2> SUFFICES ASSUME plan'.stage = "appended" PROVE Updated(job)'
    OBVIOUS
  <2>1. Updated(job)
    BY <1>1 DEF PaceInv
  <2>2. \A u : Updated(u) => Updated(u)'
    BY <1>1, <1>2, AppendedIsThere
  <2> QED BY <1>1, <2>1, <2>2 DEF Updated
<1> QED BY <1>1, <1>2, <1>3, AppendPace

(* Handlers lose their job, begin without it, or end.                          *)
LEMMA LostPace ==
  ASSUME IInv, PaceInv, Recover \/ BeginLost \/ \E h \in lost : LostEnds(h)
  PROVE  PaceInv'
<1>1. UNCHANGED <<version, outcome, snapshots>>
      /\ (plan'.stage = "appended" => UNCHANGED <<plan, job>>)
  BY DEF Recover, BeginLost, LostEnds, NoPlan
<1>2. Chunks' = Chunks /\ Coverage' = Coverage
  BY <1>1 DEF Chunks, Coverage
<1>3. InTurn' /\ \A p : (Smooth(p)' <=> Smooth(p)) /\ (InStep(p)' <=> InStep(p))
                        /\ (NextJob(p)' <=> NextJob(p)) /\ (Updated(p)' <=> Updated(p))
  BY <1>1, <1>2 DEF PaceInv, InTurn, Smooth, InStep, Counted, NextJob, Updated
<1>4. ASSUME NEW h \in Handlers', h.base = Len(snapshots')
      PROVE  OneMore(h.chunks)
  <2>1. CASE h \in Handlers
    BY <1>1, <1>4, <2>1 DEF PaceInv
  <2>2. CASE h \notin Handlers
    <3>1. BeginLost
      BY <1>4, <2>2 DEF Recover, LostEnds, Handlers, InHand, NoPlan
    <3>2. PICK v \in 1..version :
            \E c \in Plans(v) :
              lost' = lost \union {[update |-> v, base |-> Len(snapshots), chunks |-> c]}
      BY <3>1 DEF BeginLost
    <3>3. PICK c \in Plans(v) :
            lost' = lost \union {[update |-> v, base |-> Len(snapshots), chunks |-> c]}
      BY <3>2
    <3>4. h.chunks = c
      BY <1>4, <2>2, <3>1, <3>3 DEF BeginLost, Handlers, InHand
    <3> QED BY <3>4, PlansPace
  <2> QED BY <2>1, <2>2
<1>5. \A h \in Handlers' : h.base = Len(snapshots') => OneMore(h.chunks)'
  BY <1>2, <1>4 DEF OneMore, Counted
<1>6. plan'.stage = "appended" => Updated(job)'
  BY <1>1, <1>3 DEF PaceInv, Updated
<1> QED BY <1>1, <1>3, <1>5, <1>6 DEF PaceInv

(* A job in hand ends, or is put back.                                         *)
LEMMA EndPace ==
  ASSUME IInv, PaceInv, Finish \/ FailJob \/ Abandon
  PROVE  PaceInv'
<1>1. job # None => job \in 1..version /\ NextJob(job)
  BY DEF IInv, JobsInOrder
<1>2. {"updated", "failed"} \subseteq Outcomes \ {"pending"}
  BY DEF Outcomes
<1>3. plan'.stage = "none" /\ UNCHANGED <<version, snapshots, lost>>
  BY DEF Finish, FailJob, Abandon, NoPlan
<1>4. CASE Finish
  <2>1. job # None /\ Updated(job) /\ outcome' = [outcome EXCEPT ![job] = "updated"]
    BY <1>4 DEF Finish, IInv, JobsInOrder, PaceInv
  <2>2. Smooth(job - 1) => InStep(job)
    BY <1>1, <2>1 DEF PaceInv
  <2> QED BY <1>1, <1>2, <1>3, <2>1, <2>2, SettlePace
<1>5. CASE FailJob
  <2>1. PICK v \in 1..version : NextJob(v) /\ outcome' = [outcome EXCEPT ![v] = "failed"]
    BY <1>1, <1>5 DEF FailJob
  <2> QED BY <1>2, <1>3, <2>1, SettlePace
<1>6. CASE Abandon
  <2>1. outcome' = outcome /\ Chunks' = Chunks /\ Coverage' = Coverage
    BY <1>3, <1>6 DEF Abandon, Chunks, Coverage
  <2>2. InTurn' /\ \A p : (Smooth(p)' <=> Smooth(p)) /\ (InStep(p)' <=> InStep(p))
                          /\ (NextJob(p)' <=> NextJob(p)) /\ (Updated(p)' <=> Updated(p))
    BY <1>3, <2>1 DEF PaceInv, InTurn, Smooth, InStep, Counted, NextJob, Updated
  <2>3. Handlers' \subseteq Handlers
    BY <1>3 DEF Handlers
  <2>4. \A h \in Handlers' : h.base = Len(snapshots') => OneMore(h.chunks)'
    BY <1>3, <2>1, <2>3 DEF PaceInv, OneMore, Counted
  <2> QED BY <1>3, <2>2, <2>4 DEF PaceInv
<1> QED BY <1>4, <1>5, <1>6

(* In a Party without turns nothing is covered and nothing is due.             *)
LEMMA InitPace == Init => PaceInv
<1> SUFFICES ASSUME Init PROVE PaceInv
  OBVIOUS
<1>1. /\ version = 0 /\ snapshots = <<>> /\ plan.stage = "none" /\ lost = {} /\ Len(<<>>) = 0
      /\ Chunks = <<>> /\ Coverage = 0 /\ CoveredBy(<<>>) = 0
  BY EmptySeq DEF Init, NoPlan, Chunks, Coverage, CoveredBy
<1>2. DOMAIN snapshots = {}
  BY <1>1
<1>3. Counted(<<>>, 0)
  BY <1>1, BatchAssumption DEF Counted
<1>4. InStep(0)
  BY <1>1, <1>3, WindowAssumption, BatchAssumption DEF InStep
<1>5. Handlers = {}
  BY <1>1 DEF Handlers
<1> QED BY <1>1, <1>2, <1>4, <1>5 DEF PaceInv, InTurn

(* Every step keeps pace.                                                      *)
LEMMA NextPace == IInv /\ PaceInv /\ [Next]_vars => PaceInv'
<1> SUFFICES ASSUME IInv, PaceInv, [Next]_vars PROVE PaceInv'
  OBVIOUS
<1>1. CASE UNCHANGED vars
  BY <1>1 DEF vars, PaceInv, InTurn, Smooth, InStep, OneMore, Counted, NextJob, Updated,
              Chunks, Coverage, Handlers, InHand
<1>2. CASE \E h \in lost : AppendLate(h)
  BY <1>2, LatePace
<1>3. CASE Recover \/ BeginLost \/ \E h \in lost : LostEnds(h)
  BY <1>3, LostPace
<1> QED BY <1>1, <1>2, <1>3, CommitPace, RunPace, AppendSnapshotPace, EndPace DEF Next

(* As long as every job does what it can, what lies uncovered beyond the       *)
(* window once they are over is less than a batch and one turn for each merge, *)
(* for any window and batch size.                                              *)
THEOREM Paced == Spec => []KeepsUp
<1>1. Spec => []PaceInv
  BY Invariant, InitPace, NextPace, PTL DEF Spec
<1>2. IInv /\ PaceInv => KeepsUp
  <2> SUFFICES ASSUME IInv, PaceInv, Smooth(version)
               PROVE  version - Coverage < Window + Batch + Merges(Chunks)
    BY DEF KeepsUp, Smooth
  <2>1. version \in Nat /\ Coverage \in Nat /\ Chunks \in Seq(Chunk)
    BY StateFacts DEF IInv
  <2>2. version \in 0..version
    BY <2>1
  <2>3. PICK m : Counted(Chunks, m) /\ version < Coverage + Window + Batch + m
    BY <2>2 DEF PaceInv, InStep
  <2>4. Merges(Chunks) = m /\ m \in Nat
    BY <2>1, <2>3, MergesCount DEF Counted
  <2> QED BY <2>1, <2>3, <2>4, WindowAssumption, BatchAssumption
<1> QED BY <1>1, <1>2, Invariant, PTL
-----------------------------------------------------------------------------
(* Refinement: the jobs do what JobOrder allows.                               *)

\* The abstract state.
Over == [k \in Memory |-> {v \in 1..version : outcome[v] # "pending"}]
Written == [k \in Memory |-> {snapshots[r].update : r \in DOMAIN snapshots}]

(* A job whose predecessors are over is free.                                  *)
LEMMA FreeInTurn ==
  ASSUME IInv, NEW v \in 1..version, \A u \in 1..(v - 1) : outcome[u] # "pending"
  PROVE  /\ Order!Free("story_memory", v)
         /\ \A u : u \in Over["story_memory"] <=> u \in 1..version /\ outcome[u] # "pending"
         /\ \A u : u \in Written["story_memory"] <=> Updated(u)
<1>1. version \in Nat
  BY StateFacts DEF IInv
<1>2. "story_memory" \in Memory
  BY DEF Memory
<1>3. 1..(v - 1) \subseteq {u \in 1..version : outcome[u] # "pending"}
  BY <1>1
<1> QED BY <1>2, <1>3 DEF Order!Free, Over, Written, Updated

(* A job ends.                                                                 *)
LEMMA EndsInOrder ==
  ASSUME IInv, NEW v \in 1..version, NextJob(v), NEW result \in Outcomes \ {"pending"},
         outcome' = [outcome EXCEPT ![v] = result], UNCHANGED <<version, snapshots>>
  PROVE  Order!Next
<1>1. /\ version \in Nat /\ Len(outcome) = version
      /\ \A u \in 1..version : outcome'[u] = IF u = v THEN result ELSE outcome[u]
  BY StateFacts, ExceptSeq DEF IInv
<1>2. Order!Free("story_memory", v) /\ v \notin Over["story_memory"]
  BY FreeInTurn DEF NextJob
<1>3. Over' = [Over EXCEPT !["story_memory"] = @ \union {v}]
  <2>1. {u \in 1..version : outcome'[u] # "pending"}
          = {u \in 1..version : outcome[u] # "pending"} \union {v}
    BY <1>1
  <2> QED BY <2>1 DEF Over, Memory
<1>4. Written' = Written
  BY DEF Written
<1>5. Order!End("story_memory", v)
  BY <1>2, <1>3, <1>4 DEF Order!End, Over, Written
<1> QED BY <1>5 DEF Order!Next, Memory

(* A snapshot is the write of its job, in its turn or late.                    *)
LEMMA WritesInOrder ==
  ASSUME IInv, NEW h \in Handlers, AppendOnBase(h), UNCHANGED <<version, outcome>>
  PROVE  Order!Next
<1>1. /\ DOMAIN snapshots' = 1..Len(snapshots) + 1 /\ DOMAIN snapshots = 1..Len(snapshots)
      /\ Len(snapshots) \in Nat
      /\ \A r \in 1..Len(snapshots) : snapshots'[r] = snapshots[r]
      /\ snapshots'[Len(snapshots) + 1].update = h.update
      /\ h.update \in 1..version /\ HandlerSound(h)
  BY StateFacts, AppendFacts, LenProperties DEF IInv, TypeOK
<1>2. Order!Free("story_memory", h.update) /\ h.update \notin Written["story_memory"]
  BY <1>1, FreeInTurn DEF HandlerSound, AppendOnBase
<1>3. Over' = Over
  BY DEF Over
<1>4. Written' = [Written EXCEPT !["story_memory"] = @ \union {h.update}]
  <2>1. 1..Len(snapshots) + 1 = (1..Len(snapshots)) \union {Len(snapshots) + 1}
    BY <1>1
  <2>2. {snapshots'[r].update : r \in DOMAIN snapshots'}
          = {snapshots[r].update : r \in DOMAIN snapshots} \union {h.update}
    BY <1>1, <2>1
  <2> QED BY <2>2 DEF Written, Memory
<1>5. Order!Write("story_memory", h.update)
  BY <1>2, <1>3, <1>4 DEF Order!Write, Over, Written
<1> QED BY <1>1, <1>5 DEF Order!Next, Memory

(* Every step is a step of JobOrder or none.                                   *)
LEMMA StepInOrder ==
  ASSUME IInv, [Next]_vars
  PROVE  [Order!Next]_(Order!orderVars)
<1>1. {"updated", "blocked", "not_due", "failed"} \subseteq Outcomes \ {"pending"}
  BY DEF Outcomes
<1>2. job # None => job \in 1..version /\ NextJob(job)
  BY DEF IInv, JobsInOrder
<1>3. ASSUME UNCHANGED <<version, outcome, snapshots>>
      PROVE  UNCHANGED Order!orderVars
  BY <1>3 DEF Order!orderVars
<1>4. CASE CommitTurn
  <2>1. /\ version \in Nat /\ version' = version + 1 /\ snapshots' = snapshots
        /\ \A u \in 1..version : outcome'[u] = outcome[u]
        /\ outcome'[version + 1] = "pending"
    <3>1. "pending" \in Outcomes
      BY DEF Outcomes
    <3> QED BY <1>4, <3>1, StateFacts, AppendProperties DEF CommitTurn, IInv
  <2>2. {v \in 1..version' : outcome'[v] # "pending"} = {v \in 1..version : outcome[v] # "pending"}
    BY <2>1
  <2>3. Over' = Over /\ Written' = Written
    BY <2>1, <2>2 DEF Over, Written
  <2> QED BY <2>1, <2>3 DEF Order!Next, Order!Commit, Over, Written
<1>5. CASE RunJob
  <2>1. PICK v \in 1..version :
          /\ NextJob(v)
          /\ AlreadyUpdated(v) \/ Blocked(v) \/ Compressed(v) \/ NotDue(v)
    BY <1>5 DEF RunJob
  <2>2. CASE Compressed(v)
    BY <1>3, <2>2 DEF Compressed, Compress
  <2>3. CASE AlreadyUpdated(v) \/ Blocked(v) \/ NotDue(v)
    <3>1. PICK result \in {"updated", "blocked", "not_due"} : Settle(v, result)
      BY <2>3 DEF AlreadyUpdated, Blocked, NotDue
    <3> QED BY <1>1, <2>1, <3>1, EndsInOrder DEF Settle
  <2> QED BY <2>1, <2>2, <2>3
<1>6. CASE AppendSnapshot
  BY <1>6, WritesInOrder, HandlerFacts DEF AppendSnapshot, IInv
<1>7. CASE \E h \in lost : AppendLate(h)
  BY <1>7, WritesInOrder DEF AppendLate, Handlers
<1>8. CASE Finish
  <2>1. job # None
    BY <1>8 DEF Finish, IInv, JobsInOrder
  <2> QED BY <1>1, <1>2, <1>8, <2>1, EndsInOrder DEF Finish
<1>9. CASE FailJob
  BY <1>1, <1>2, <1>9, EndsInOrder DEF FailJob
<1>10. CASE Abandon \/ Recover \/ BeginLost \/ (\E h \in lost : LostEnds(h)) \/ UNCHANGED vars
  BY <1>3, <1>10 DEF Abandon, Recover, BeginLost, LostEnds, vars
<1> QED BY <1>4, <1>5, <1>6, <1>7, <1>8, <1>9, <1>10 DEF Next

(* The jobs of story memory write once each and in the order of their turns,   *)
(* also when a handler has lost its job: what module ServiceJobs is shown to   *)
(* guarantee is all that this module takes for granted.                        *)
THEOREM MemoryInOrder == Spec => ImplementsOrder
<1>1. Init => Order!Init
  <2> SUFFICES ASSUME Init PROVE Order!Init
    OBVIOUS
  <2>1. version = 0 /\ DOMAIN snapshots = {}
    BY EmptySeq DEF Init
  <2>2. {v \in 1..version : outcome[v] # "pending"} = {}
        /\ {snapshots[r].update : r \in DOMAIN snapshots} = {}
    BY <2>1
  <2> QED BY <2>1, <2>2 DEF Order!Init
<1>2. IInv /\ [Next]_vars => [Order!Next]_(Order!orderVars)
  BY StepInOrder
<1> QED BY <1>1, <1>2, Invariant, PTL DEF Spec, ImplementsOrder, Order!Spec
=============================================================================
