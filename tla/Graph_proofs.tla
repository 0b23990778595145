----------------------------- MODULE Graph_proofs -----------------------------
(***************************************************************************)
(* Proofs about TopologyIndex, for every graph and every range of          *)
(* vertices; and about WorkPartition, whatever the sizes of the partitions *)
(* and however many processes and threads there are.                       *)
(*                                                                         *)
(* The two passes agree because both count the same set: the edges at a    *)
(* vertex.  The first pass makes room for as many blocks as the set has    *)
(* elements; in the second the block of an edge is the number of elements  *)
(* below it, so blocks do not meet and stay in the vertex's place.         *)
(***************************************************************************)
EXTENDS TopologyIndex, WorkPartition, FiniteSetTheorems, TLAPS

-----------------------------------------------------------------------------
(* The sharing of the vertices.                                            *)

USE PartitionAssumption


\* What has been read of the file, and the vertices in ranges so far.
ReadInv ==
  /\ PartitionType
  /\ Len(file) <= N + 1
  /\ step = "read" => m = 0
  /\ \A p \in Proc : p < lineNo => p < Len(file) /\ size[p] = file[p + 1]
  /\ step \in {"ranges", "work"} => lineNo = N

LEMMA InitRead == Init => ReadInv /\ RangesInRow
  BY DEF Init, ReadInv, PartitionType, RangesInRow, Files, Proc

LEMMA StepRead == ReadInv /\ [Next]_vars => ReadInv'
<1> SUFFICES ASSUME ReadInv, [Next]_vars PROVE ReadInv'
  OBVIOUS
<1> USE DEF ReadInv, PartitionType, rangeVars
<1>1. CASE ReadLine
  <2>1. lineNo \in Nat /\ lineNo < Len(file) /\ Len(file) \in Nat
    BY <1>1 DEF ReadLine, Readable
  <2>2. file[lineNo + 1] \in 0 .. MaxSize
    BY <2>1
  <2>3. CASE lineNo < N
    <3>1. lineNo \in Proc /\ lineNo + 1 \in 0 .. N
      BY <2>1, <2>3 DEF Proc
    <3>2. /\ size' = [size EXCEPT ![lineNo] = file[lineNo + 1]]
          /\ lineNo' = lineNo + 1 /\ step = "read" /\ step' = "read"
          /\ UNCHANGED <<file, ended, m, start, end>>
      BY <1>1, <2>3 DEF ReadLine, Expected
    <3>3. ASSUME NEW p \in Proc, p < lineNo + 1
          PROVE  p < Len(file) /\ size'[p] = file[p + 1]
      <4>1. CASE p = lineNo
        BY <2>1, <3>1, <3>2, <4>1
      <4>2. CASE p # lineNo
        <5>1. p < lineNo
          BY <2>1, <3>3, <4>2 DEF Proc
        <5> QED  BY <3>2, <4>2, <5>1
      <4> QED  BY <4>1, <4>2
    <3>4. size' \in [Proc -> 0 .. MaxSize]
      BY <2>2, <3>1, <3>2
    <3> QED  BY <3>1, <3>2, <3>3, <3>4
  <2>4. CASE ~ (lineNo < N)
    BY <1>1, <2>4 DEF ReadLine, Expected
  <2> QED  BY <2>3, <2>4
<1>2. CASE EndOfFile
  BY <1>2 DEF EndOfFile, Enough
<1>3. CASE SetRange
  <2>1. m \in Proc /\ m + 1 \in 0 .. N
    BY <1>3 DEF SetRange, Proc
  <2>2. StartOf(m) \in Nat /\ (IF m = 0 THEN 0 ELSE end[m - 1]) + size[m] \in Nat
    <3>1. m = 0 \/ m - 1 \in Proc
      BY <2>1 DEF Proc
    <3>2. size[m] \in Nat
      BY <2>1
    <3> QED  BY <3>1, <3>2 DEF StartOf
  <2> QED  BY <1>3, <2>1, <2>2 DEF SetRange
<1>4. CASE UNCHANGED vars
  BY <1>4 DEF vars
<1> QED  BY <1>1, <1>2, <1>3, <1>4 DEF Next

LEMMA StepRanges == ReadInv /\ RangesInRow /\ [Next]_vars => RangesInRow'
<1> SUFFICES ASSUME ReadInv, RangesInRow, [Next]_vars PROVE RangesInRow'
  OBVIOUS
<1> USE DEF ReadInv, PartitionType, RangesInRow, rangeVars
<1>1. CASE ReadLine
  BY <1>1 DEF ReadLine, Proc
<1>2. CASE EndOfFile
  BY <1>2 DEF EndOfFile
<1>3. CASE SetRange
  <2> DEFINE first == IF m = 0 THEN 0 ELSE end[m - 1]
  <2>1. m \in Proc /\ m < N
    BY <1>3 DEF SetRange, Proc
  <2>2. first \in Nat /\ size[m] \in Nat
    BY <2>1 DEF Proc
  <2>3. /\ start' = [start EXCEPT ![m] = first]
        /\ end' = [end EXCEPT ![m] = first + size[m]]
    BY <1>3 DEF SetRange, StartOf
  <2>4. step' = "work" <=> m' = N
    BY <1>3, <2>1 DEF SetRange
  <2>5. ASSUME NEW p \in Proc, p < m' PROVE end'[p] = start'[p] + size'[p]
    <3>1. size' = size /\ m' = m + 1
      BY <1>3 DEF SetRange
    <3>2. CASE p = m
      BY <2>1, <2>2, <2>3, <3>1, <3>2
    <3>3. CASE p # m
      <4>1. p < m
        BY <2>1, <2>5, <3>1, <3>3 DEF Proc
      <4> QED  BY <2>3, <3>1, <3>3, <4>1
    <3> QED  BY <3>2, <3>3
  <2>6. ASSUME NEW p \in Proc, NEW q \in Proc, p < q, q < m'
        PROVE  end'[p] <= start'[q]
    <3>1. p # m /\ end'[p] = end[p]
      BY <1>3, <2>1, <2>3, <2>6 DEF SetRange, Proc
    <3>2. CASE q # m
      BY <1>3, <2>1, <2>3, <2>6, <3>1, <3>2 DEF SetRange, Proc
    <3>3. CASE q = m
      <4>1. m - 1 \in Proc /\ p <= m - 1
        BY <2>1, <2>6, <3>3 DEF Proc
      <4>2. end[p] <= end[m - 1]
        <5>1. CASE p = m - 1
          BY <4>1, <5>1
        <5>2. CASE p < m - 1
          <6>1. end[p] <= start[m - 1] /\ end[m - 1] = start[m - 1] + size[m - 1]
            BY <4>1, <5>2 DEF Proc
          <6> QED  BY <4>1, <6>1
        <5> QED  BY <4>1, <5>1, <5>2 DEF Proc
      <4>3. start'[q] = end[m - 1]
        BY <2>1, <2>3, <2>6, <3>3 DEF Proc
      <4> QED  BY <3>1, <4>2, <4>3
    <3> QED  BY <3>2, <3>3
  <2> QED  BY <2>4, <2>5, <2>6
<1>4. CASE UNCHANGED vars
  BY <1>4 DEF vars
<1> QED  BY <1>1, <1>2, <1>3, <1>4 DEF Next

\* The ranges of the processes lie behind one another.
THEOREM RangesInvariance == Spec => [](ReadInv /\ RangesInRow)
<1>1. QED  BY InitRead, StepRead, StepRanges, PTL DEF Spec

-----------------------------------------------------------------------------
(***************************************************************************)
(* The parts of the workers                                                *)
(***************************************************************************)
LEMMA Divide ==
  ASSUME NEW a \in Nat, NEW b \in Nat \ {0}
  PROVE  a \div b \in Nat /\ b * (a \div b) <= a /\ a < b * (a \div b) + b
<1>1. a \div b \in Nat
  OBVIOUS
<1>2. b * (a \div b) <= a
  OBVIOUS
<1>3. a < b * (a \div b) + b
  OBVIOUS
<1> QED  BY <1>1, <1>2, <1>3

LEMMA LessTimes ==
  ASSUME NEW k \in Nat, NEW a \in Nat, NEW b \in Nat, a <= b
  PROVE  k * a \in Nat /\ k * b \in Nat /\ k * a <= k * b
  OBVIOUS

\* Only the last worker's index leaves no remainder.
LEMMA LastWorker ==
  ASSUME NEW w \in Worker PROVE (w + 1) % T = 0 <=> w = T - 1
<1>1. w \in Nat /\ w + 1 \in Nat \ {0} /\ w + 1 <= T /\ T \in Nat \ {0}
  BY DEF Worker
<1>2. CASE w + 1 = T
  <2>1. (w + 1) % T = 0
    BY <1>1, <1>2
  <2> QED  BY <1>1, <1>2, <2>1
<1>3. CASE w + 1 < T
  <2>1. (w + 1) % T = w + 1
    BY <1>1, <1>3
  <2> QED  BY <1>1, <1>3, <2>1
<1> QED  BY <1>1, <1>2, <1>3

\* The part of a worker lies in the range of its process, before the part of the
\* next worker.
LEMMA PartInRange ==
  ASSUME ReadInv, RangesInRow, step = "work", NEW p \in Proc, NEW w \in Worker
  PROVE  /\ start[p] \in Nat /\ end[p] \in Nat /\ size[p] \in Nat
         /\ WorkSize(p) \in Nat
         /\ WorkStart(p, w) \in Nat /\ WorkEnd(p, w) \in Nat
         /\ start[p] <= WorkStart(p, w) /\ WorkEnd(p, w) <= end[p]
         /\ \A x \in Worker : w < x => WorkEnd(p, w) <= WorkStart(p, x)
<1> DEFINE k == WorkSize(p)
<1>1. start[p] \in Nat /\ end[p] \in Nat /\ size[p] \in Nat /\ T \in Nat \ {0}
  BY DEF ReadInv, PartitionType
<1>2. k \in Nat /\ T * k <= size[p]
  BY <1>1, Divide DEF WorkSize
<1>3. end[p] = start[p] + size[p]
  BY DEF RangesInRow, Proc
<1>4. w \in Nat /\ w + 1 \in Nat /\ w + 1 <= T
  BY DEF Worker
<1>5. k * w \in Nat /\ k * (w + 1) = k * w + k
  BY <1>2, <1>4
<1>6. k * (w + 1) <= k * T
  BY <1>1, <1>2, <1>4, LessTimes
<1>7. k * (w + 1) <= size[p]
  <2>1. k * T = T * k /\ k * T \in Nat /\ k * (w + 1) \in Nat
    BY <1>1, <1>2, <1>4
  <2> QED  BY <1>1, <1>2, <1>6, <2>1
<1>8. WorkStart(p, w) = start[p] + k * w
  BY DEF WorkStart
<1>9. WorkEnd(p, w) = IF w = T - 1 THEN end[p] ELSE start[p] + k * w + k
  BY <1>8, LastWorker DEF WorkEnd
<1>10. ASSUME NEW x \in Worker, w < x PROVE WorkEnd(p, w) <= WorkStart(p, x)
  <2>1. x \in Nat /\ w + 1 <= x /\ w # T - 1
    BY <1>4, <1>10 DEF Worker
  <2>2. k * (w + 1) <= k * x /\ k * x \in Nat
    BY <1>2, <1>4, <2>1, LessTimes
  <2>3. WorkStart(p, x) = start[p] + k * x
    BY DEF WorkStart
  <2> QED  BY <1>1, <1>2, <1>5, <1>9, <2>1, <2>2, <2>3
<1>11. WorkStart(p, w) \in Nat /\ start[p] <= WorkStart(p, w)
  BY <1>1, <1>5, <1>8
<1>12. WorkEnd(p, w) \in Nat /\ WorkEnd(p, w) <= end[p]
  BY <1>1, <1>2, <1>3, <1>5, <1>7, <1>9
<1> QED  BY <1>1, <1>2, <1>10, <1>11, <1>12

LEMMA OneWorker ==
  ASSUME ReadInv, RangesInRow, step = "work", NEW v \in Nat,
         NEW p \in Proc, NEW q \in Proc, NEW w \in Worker, NEW x \in Worker,
         Works(p, w, v), Works(q, x, v)
  PROVE  p = q /\ w = x
<1>1. /\ start[p] <= v /\ v < end[p] /\ start[q] <= v /\ v < end[q]
      /\ start[p] \in Nat /\ end[p] \in Nat /\ start[q] \in Nat /\ end[q] \in Nat
  BY PartInRange DEF Works
<1>2. p = q
  <2>1. ~ (p < q) /\ ~ (q < p)
    BY <1>1 DEF RangesInRow, Proc
  <2> QED  BY <2>1 DEF Proc
<1>3. w = x
  <2>1. /\ WorkStart(p, w) \in Nat /\ WorkEnd(p, w) \in Nat
        /\ WorkStart(p, x) \in Nat /\ WorkEnd(p, x) \in Nat
        /\ w < x => WorkEnd(p, w) <= WorkStart(p, x)
        /\ x < w => WorkEnd(p, x) <= WorkStart(p, w)
    BY PartInRange
  <2>2. ~ (w < x) /\ ~ (x < w)
    BY <1>2, <2>1 DEF Works
  <2> QED  BY <2>2 DEF Worker
<1> QED  BY <1>2, <1>3

\* No vertex is sampled by two workers, of one process or of two.
THEOREM VerticesHaveOneWorker == Spec => []NoVertexTwice
<1>1. ReadInv /\ RangesInRow => NoVertexTwice
  BY OneWorker DEF NoVertexTwice, Vertex
<1> QED  BY <1>1, RangesInvariance, PTL

LEMMA SomeWorker ==
  ASSUME ReadInv, RangesInRow, step = "work", NEW p \in Proc, NEW v \in Nat,
         start[p] <= v, v < end[p]
  PROVE  \E w \in Worker : Works(p, w, v)
<1> DEFINE k == WorkSize(p)
           d == v - start[p]
<1>1. /\ start[p] \in Nat /\ end[p] \in Nat /\ k \in Nat /\ d \in Nat
      /\ T \in Nat \ {0} /\ T - 1 \in Worker
  <2>1. T - 1 \in Worker
    BY DEF Worker
  <2> QED  BY <2>1, PartInRange
<1>2. CASE k # 0 /\ d < k * (T - 1)
  <2> DEFINE w == d \div k
  <2>1. w \in Nat /\ k * w <= d /\ d < k * w + k
    BY <1>1, <1>2, Divide
  <2>2. w < T - 1
    <3>1. SUFFICES ASSUME T - 1 <= w PROVE FALSE
      BY <1>1, <2>1
    <3>2. k * (T - 1) <= k * w
      BY <1>1, <2>1, <3>1, LessTimes
    <3>3. T - 1 \in Nat /\ k * (T - 1) \in Nat /\ k * w \in Nat
      BY <1>1, <2>1, <3>1, LessTimes
    <3> QED  BY <1>1, <1>2, <2>1, <3>2, <3>3
  <2>3. w \in Worker /\ w # T - 1
    BY <1>1, <2>1, <2>2 DEF Worker
  <2>4. WorkStart(p, w) = start[p] + k * w /\ WorkEnd(p, w) = start[p] + k * w + k
    BY <2>3, LastWorker DEF WorkStart, WorkEnd
  <2>5. k * w \in Nat
    BY <1>1, <2>1
  <2>6. Works(p, w, v)
    BY <1>1, <2>1, <2>4, <2>5 DEF Works
  <2> QED  BY <2>3, <2>6
<1>3. CASE ~ (k # 0 /\ d < k * (T - 1))
  <2>1. k * (T - 1) \in Nat /\ k * (T - 1) <= d
    BY <1>1, <1>3
  <2>2. /\ WorkStart(p, T - 1) = start[p] + k * (T - 1)
        /\ WorkEnd(p, T - 1) = end[p]
    BY <1>1, LastWorker DEF WorkStart, WorkEnd
  <2>3. Works(p, T - 1, v)
    BY <1>1, <2>1, <2>2 DEF Works
  <2> QED  BY <1>1, <2>3
<1> QED  BY <1>2, <1>3

\* Every vertex of a partition is sampled by a worker of its process.
THEOREM VerticesHaveAWorker == Spec => []NoVertexForgotten
<1>1. ReadInv /\ RangesInRow => NoVertexForgotten
  BY SomeWorker DEF NoVertexForgotten, Vertex
<1> QED  BY <1>1, RangesInvariance, PTL

\* The sizes worked from are those of the file, one for every process.
THEOREM SizesAreRead == Spec => []SizesFromFile
<1>1. ReadInv => SizesFromFile
  BY DEF ReadInv, PartitionType, SizesFromFile, Proc
<1> QED  BY <1>1, RangesInvariance, PTL

\* Reading never gets ahead of the file, and a file as it should be has passed
\* every assert so far.
NoneRefused ==
  /\ lineNo <= Readable
  /\ FileAccepted

LEMMA ReadableLines ==
  ASSUME ReadInv
  PROVE  Readable \in Int /\ (ended => Readable = Len(file))
  BY DEF ReadInv, PartitionType, Readable

LEMMA InitRefused == Init => NoneRefused
<1> SUFFICES ASSUME Init PROVE NoneRefused
  OBVIOUS
<1>1. Len(file) \in Nat /\ (Len(file) = 0 => file = <<>>)
  BY InitRead DEF ReadInv, PartitionType
<1> QED  BY <1>1 DEF Init, NoneRefused, FileAccepted, Readable

LEMMA StepRefused == ReadInv /\ NoneRefused /\ [Next]_vars => NoneRefused'
<1> SUFFICES ASSUME ReadInv, NoneRefused, [Next]_vars PROVE NoneRefused'
  OBVIOUS
<1> USE DEF NoneRefused, FileAccepted, rangeVars
<1>1. lineNo \in Nat /\ N \in Nat
  BY DEF ReadInv, PartitionType
<1>2. CASE ReadLine
  <2>1. Readable' = Readable /\ lineNo < Readable
    BY <1>2 DEF ReadLine, Readable
  <2>2. CASE Expected
    BY <1>1, <1>2, <2>1, <2>2, ReadableLines DEF ReadLine
  <2>3. CASE ~ Expected
    \* The assert fails on a line behind the last expected one.
    <3>1. ~ (Len(file) = N /\ ended)
      BY <1>1, <2>1, <2>3, ReadableLines DEF Expected
    <3> QED  BY <1>2, <2>1, <2>3, <3>1 DEF ReadLine
  <2> QED  BY <2>2, <2>3
<1>3. CASE EndOfFile
  <2>1. Readable' = Readable /\ lineNo = Readable
    BY <1>3 DEF EndOfFile, Readable
  <2>2. Len(file) = N /\ ended => Enough
    BY <1>1, <2>1, ReadableLines DEF Enough
  <2> QED  BY <1>3, <2>1, <2>2 DEF EndOfFile
<1>4. CASE SetRange
  BY <1>4 DEF SetRange, Readable
<1>5. CASE UNCHANGED vars
  BY <1>5 DEF vars, Readable
<1> QED  BY <1>2, <1>3, <1>4, <1>5 DEF Next

\* A partition file is judged rightly: what is worked from is the file's sizes, one
\* line per process, and a file with a line per process, all ended, is not refused.
THEOREM FilesAreJudged == Spec => []FileJudged
<1>1. Spec => [](ReadInv /\ NoneRefused)
  <2>1. Init => ReadInv /\ NoneRefused
    BY InitRead, InitRefused
  <2>2. ReadInv /\ NoneRefused /\ [Next]_vars => (ReadInv /\ NoneRefused)'
    BY StepRead, StepRefused
  <2> QED  BY <2>1, <2>2, PTL DEF Spec
<1>2. SizesFromFile /\ NoneRefused => FileJudged
  BY DEF NoneRefused, FileJudged
<1> QED  BY <1>1, <1>2, SizesAreRead, PTL

\* Every vertex has exactly one worker.
THEOREM VerticesAreShared == Spec => []OneWorkerEach
<1>1. QED  BY VerticesHaveOneWorker, VerticesHaveAWorker, PTL DEF OneWorkerEach

-----------------------------------------------------------------------------
(* The index of the graph.                                                 *)

USE GraphAssumption

-----------------------------------------------------------------------------
(***************************************************************************)
(* The edges at a vertex                                                   *)
(***************************************************************************)
\* Those among the first n of the file.
Before(v, n) == {e \in 1 .. n : v \in Ends(e)}

LEMMA BeforeFinite ==
  ASSUME NEW v, NEW n \in Nat
  PROVE  IsFiniteSet(Before(v, n)) /\ Cardinality(Before(v, n)) \in Nat
<1>1. IsFiniteSet(1 .. n)
  BY FS_Interval
<1>2. IsFiniteSet(Before(v, n))
  BY <1>1, FS_Subset DEF Before
<1> QED  BY <1>2, FS_CardinalityType

LEMMA BeforeNext ==
  ASSUME NEW v, NEW n \in Nat
  PROVE  Cardinality(Before(v, n + 1)) =
           Cardinality(Before(v, n)) + (IF v \in Ends(n + 1) THEN 1 ELSE 0)
<1>1. CASE v \in Ends(n + 1)
  <2>1. Before(v, n + 1) = Before(v, n) \cup {n + 1} /\ n + 1 \notin Before(v, n)
    BY <1>1 DEF Before
  <2> QED  BY <1>1, <2>1, BeforeFinite, FS_AddElement
<1>2. CASE v \notin Ends(n + 1)
  <2>1. Before(v, n + 1) = Before(v, n)
    BY <1>2 DEF Before
  <2> QED  BY <1>2, <2>1, BeforeFinite
<1> QED  BY <1>1, <1>2

LEMMA IncidentBefore ==
  ASSUME GraphType, NEW v
  PROVE  /\ Incident(v) = Before(v, Len(edges))
         /\ IsFiniteSet(Incident(v)) /\ Cardinality(Incident(v)) \in Nat
<1>1. Len(edges) \in Nat
  BY DEF GraphType
<1> QED  BY <1>1, BeforeFinite DEF Incident, Before

\* Later edges have later blocks, and there are no more blocks than edges.
LEMMA RankOrder ==
  ASSUME GraphType, NEW v, NEW e \in Incident(v)
  PROVE  /\ Rank(v, e) \in Nat
         /\ Rank(v, e) < Cardinality(Incident(v))
         /\ \A d \in Incident(v) : d < e => Rank(v, d) < Rank(v, e)
<1> DEFINE Below(n) == {d \in Incident(v) : d < n}
<1>0. Incident(v) \subseteq Int
  BY DEF Incident
<1>1. IsFiniteSet(Incident(v)) /\ Cardinality(Incident(v)) \in Nat
  BY IncidentBefore
<1>2. ASSUME NEW n PROVE IsFiniteSet(Below(n)) /\ Cardinality(Below(n)) \in Nat
  BY <1>1, FS_Subset, FS_CardinalityType
<1>3. ASSUME NEW n \in Int, NEW S, IsFiniteSet(S), Below(n) \cup {n} \subseteq S
      PROVE  Cardinality(Below(n)) < Cardinality(S)
  <2>1. Cardinality(Below(n) \cup {n}) = Cardinality(Below(n)) + 1
    BY <1>2, FS_AddElement
  <2>2. Cardinality(Below(n) \cup {n}) <= Cardinality(S) /\ Cardinality(S) \in Nat
    BY <1>3, FS_Subset, FS_CardinalityType
  <2> QED  BY <1>2, <2>1, <2>2
<1>4. Rank(v, e) < Cardinality(Incident(v))
  BY <1>0, <1>1, <1>3 DEF Rank
<1>5. ASSUME NEW d \in Incident(v), d < e PROVE Rank(v, d) < Rank(v, e)
  <2>1. Below(d) \cup {d} \subseteq Below(e)
    BY <1>0, <1>5
  <2> QED  BY <1>0, <1>2, <1>3, <2>1 DEF Rank
<1> QED  BY <1>2, <1>4, <1>5 DEF Rank

-----------------------------------------------------------------------------
(***************************************************************************)
(* The invariant                                                           *)
(***************************************************************************)
\* The end of an edge that getNeigborns is at, and the other one.
At(e) == edges[e][side]
Beyond(e) == edges[e][3 - side]

\* A vertex's place has room for one block per edge.
Counted ==
  \A v \in Node : factorCount[v] = topologySizeByVertex *
    Cardinality(IF phase = "count" THEN Before(v, iEdge) ELSE Incident(v))

\* The places laid out so far lie behind one another.
PlacesInRow ==
  /\ phase = "count" => firstOffset = [v \in Node |-> 0] /\ localSize = 0
  /\ phase = "layout" => from <= iVertex /\ iVertex <= to
  /\ phase \in {"fill", "built"} => iVertex = to /\ DOMAIN topology = 0 .. localSize - 1
  /\ phase # "count" =>
       /\ \A v \in Own : v < iVertex => firstOffset[v] + Length(v) <= localSize
       /\ \A v, w \in Own : v < w /\ w < iVertex => firstOffset[v] + Length(v) <= firstOffset[w]

\* The edges whose block at v is filled.
Filled(v) ==
  IF phase = "built" THEN Incident(v)
  ELSE {e \in Incident(v) : 
         /\ phase = "fill"
         /\ e <= iEdge \/ (e = iEdge + 1 /\ side = 2 /\ edges[e][1] = v)}

\* The block of edge e at v, and the unary factors if it is the first, hold what
\* they should.
Holds(v, e, u) ==
  /\ NeighborRead(v, Rank(v, e)) = Id(u)
  /\ \A x, y \in States : FactorRead(v, Rank(v, e), x, y) =
       Factor(e, IF v < u THEN 2 * x + y ELSE 2 * y + x)
  /\ Rank(v, e) = 0 => \A x \in States : UnaryRead(v, x) = Unary(e, x)

BlocksHold ==
  \A v \in Own :
    /\ startIndexes[v] = Cardinality(Filled(v))
    /\ \A e \in Filled(v) : \A u \in Ends(e) \ {v} : Holds(v, e, u)

GraphInv == GraphType /\ Counted /\ PlacesInRow /\ BlocksHold
            /\ (side = 2 => phase = "fill" /\ iEdge < Len(edges))

-----------------------------------------------------------------------------
LEMMA EdgeType ==
  ASSUME GraphType, NEW e \in 1 .. Len(edges)
  PROVE  /\ edges[e] \in Edge
         /\ edges[e][1] \in Node /\ edges[e][2] \in Node /\ edges[e][1] # edges[e][2]
         /\ e \in 1 .. MaxEdges
<1>1. edges[e] \in Edge /\ Len(edges) \in Nat /\ Len(edges) <= MaxEdges
  BY DEF GraphType
<1>2. edges[e] \in Node \X Node /\ edges[e][1] # edges[e][2]
  BY <1>1 DEF Edge
<1>3. edges[e][1] \in Node /\ edges[e][2] \in Node
  BY <1>2
<1> QED  BY <1>1, <1>2, <1>3

\* Where an end of an edge is filled: behind the blocks of the edges before, and
\* within the place of the vertex.
LEMMA FillPlace ==
  ASSUME GraphInv, phase = "fill", iEdge < Len(edges), At(iEdge + 1) \in Own
  PROVE  LET e == iEdge + 1
             v == At(e)
         IN  /\ e \in Incident(v) /\ e \notin Filled(v)
             /\ Filled(v) = {d \in Incident(v) : d < e}
             /\ startIndexes[v] = Rank(v, e)
             /\ Block(v) = BlockRead(v, Rank(v, e))
             /\ firstOffset[v] + numVars <= Block(v)
             /\ Block(v) + topologySizeByVertex <= firstOffset[v] + Length(v)
<1> DEFINE e == iEdge + 1
           v == At(e)
<1> USE DEF GraphInv
<1>1. iEdge \in Nat /\ e \in 1 .. Len(edges) /\ side \in {1, 2}
  BY DEF GraphType
<1>2. v \in Ends(e) /\ v \in Node /\ edges[e][1] # edges[e][2]
  BY <1>1, EdgeType DEF At, Ends
<1>3. e \in Incident(v)
  BY <1>1, <1>2 DEF Incident
<1>4. Filled(v) = {d \in Incident(v) : d < e}
  <2>1. \A d \in Incident(v) : d \in Int
    BY DEF Incident
  <2>2. side = 2 => edges[e][1] # v
    BY <1>2 DEF At
  <2> QED  BY <1>1, <2>1, <2>2 DEF Filled
<1>5. startIndexes[v] = Rank(v, e)
  BY <1>4 DEF BlocksHold, Rank
<1>6. Rank(v, e) \in Nat /\ Rank(v, e) < Cardinality(Incident(v)) /\ Cardinality(Incident(v)) \in Nat
  BY <1>3, RankOrder, IncidentBefore
<1>7. Length(v) = topologySizeByVertex * Cardinality(Incident(v)) + numVars
  BY <1>2 DEF Counted, Length
<1>8. firstOffset[v] \in Nat
  BY <1>2 DEF GraphType
<1>9. Block(v) = BlockRead(v, Rank(v, e))
  BY <1>5 DEF Block, BlockRead
<1>10. /\ firstOffset[v] + numVars <= Block(v)
       /\ Block(v) + topologySizeByVertex <= firstOffset[v] + Length(v)
  <2> HIDE DEF v, e
  <2>1. Block(v) = firstOffset[v] + 2 + 5 * Rank(v, e)
    BY <1>6, <1>8, <1>9 DEF BlockRead, numVars, topologySizeByVertex, numEdgeFactors
  <2>2. Length(v) = 5 * Cardinality(Incident(v)) + 2
    BY <1>6, <1>7 DEF numVars, topologySizeByVertex, numEdgeFactors
  <2> QED  BY <1>6, <1>8, <2>1, <2>2 DEF numVars, topologySizeByVertex, numEdgeFactors
<1> QED  BY <1>1, <1>3, <1>4, <1>5, <1>9, <1>10

-----------------------------------------------------------------------------
(***************************************************************************)
(* What filling one end of an edge changes                                 *)
(***************************************************************************)
\* The slots get_sample reads for a vertex are in the vertex's place.
LEMMA ReadPlace ==
  ASSUME GraphInv, phase = "fill", NEW v \in Own, NEW e \in Incident(v)
  PROVE  /\ Rank(v, e) \in Nat /\ firstOffset[v] \in Nat
         /\ firstOffset[v] + 2 <= BlockRead(v, Rank(v, e))
         /\ BlockRead(v, Rank(v, e)) = firstOffset[v] + 2 + 5 * Rank(v, e)
         /\ BlockRead(v, Rank(v, e)) + 5 <= firstOffset[v] + Length(v)
         /\ firstOffset[v] + Length(v) <= localSize
         /\ Length(v) \in Nat
<1> USE DEF GraphInv
<1>1. v \in Node /\ v < iVertex
  BY DEF Own, PlacesInRow, GraphType
<1>2. Rank(v, e) \in Nat /\ Rank(v, e) < Cardinality(Incident(v)) /\ Cardinality(Incident(v)) \in Nat
  BY RankOrder, IncidentBefore
<1>3. Length(v) = 5 * Cardinality(Incident(v)) + 2
  BY <1>1 DEF Counted, Length, numVars, topologySizeByVertex, numEdgeFactors
<1>4. firstOffset[v] \in Nat
  BY <1>1 DEF GraphType
<1>5. firstOffset[v] + Length(v) <= localSize
  BY <1>1 DEF PlacesInRow
<1> QED
  BY <1>2, <1>3, <1>4, <1>5 DEF BlockRead, numVars, topologySizeByVertex, numEdgeFactors

\* What FillEnd writes.
LEMMA Written ==
  ASSUME GraphInv, FillEnd, At(iEdge + 1) \in Own
  PROVE  LET e == iEdge + 1
             v == At(e)
             u == Beyond(e)
         IN  /\ DOMAIN topology' = DOMAIN topology
             /\ topology'[Block(v) + 4] = Id(u)
             /\ \A f \in 0 .. 3 : topology'[Block(v) + f] = Factor(e, CopyFactors2(v, u, f))
             /\ startIndexes[v] = 0 =>
                  \A x \in States : topology'[firstOffset[v] + x] = Unary(e, x)
             /\ \A s \in DOMAIN topology :
                  \/ s < firstOffset[v] \/ s >= firstOffset[v] + Length(v)
                  \/ s < Block(v) /\ (s >= firstOffset[v] + 2 \/ startIndexes[v] # 0)
                  => topology'[s] = topology[s]
<1> DEFINE e == iEdge + 1
           v == At(e)
           u == Beyond(e)
           b == Block(v)
           first == firstOffset[v]
           unary == IF startIndexes[v] = 0 THEN first .. first + 1 ELSE {}
<1>1. phase = "fill" /\ iEdge < Len(edges) /\ topology' = Put(v, u, e)
  BY DEF FillEnd, At, Beyond
<1>2. v \in Own /\ e \in Incident(v) /\ b = BlockRead(v, Rank(v, e))
  BY <1>1, FillPlace
<1>3. /\ first \in Nat /\ b \in Nat /\ first + 2 <= b /\ Length(v) \in Nat
      /\ b + 5 <= first + Length(v) /\ first + Length(v) <= localSize
  <2> HIDE DEF e, v, b
  <2> QED  BY <1>1, <1>2, ReadPlace
<1>4. DOMAIN topology = 0 .. localSize - 1 /\ localSize \in Nat
  BY <1>1 DEF GraphInv, PlacesInRow, GraphType
<1>5. topology' = [s \in DOMAIN topology \cup unary \cup (b .. b + 4) |->
         CASE s \in unary -> Unary(e, s - first)
           [] s = b + 4 -> Id(u)
           [] s \in (b .. b + 4) \ {b + 4} -> Factor(e, CopyFactors2(v, u, s - b))
           [] OTHER -> topology[s]]
  BY <1>1 DEF Put, numVars, numEdgeFactors
<1> HIDE DEF e, v, u, b, first
<1>6. /\ \A s \in unary : s \in first .. first + 1 /\ s \in 0 .. localSize - 1 /\ s < b
      /\ startIndexes[v] # 0 => unary = {}
      /\ startIndexes[v] = 0 => first \in unary /\ first + 1 \in unary
  BY <1>3, <1>4
<1> HIDE DEF unary
<1>7. b .. b + 4 \subseteq 0 .. localSize - 1
  BY <1>3, <1>4
<1>8. DOMAIN topology' = DOMAIN topology
  BY <1>4, <1>5, <1>6, <1>7
<1>9. topology'[b + 4] = Id(u)
  BY <1>3, <1>5, <1>6
<1>10. ASSUME NEW f \in 0 .. 3 PROVE topology'[b + f] = Factor(e, CopyFactors2(v, u, f))
  <2>1. b + f \in b .. b + 4 /\ b + f # b + 4 /\ b + f \notin unary /\ b + f - b = f
    BY <1>3, <1>6
  <2>2. b + f \in DOMAIN topology \cup unary \cup (b .. b + 4)
    BY <2>1
  <2>3. topology'[b + f] = Factor(e, CopyFactors2(v, u, (b + f) - b))
    BY <1>5, <2>1, <2>2, Zenon
  <2> QED  BY <1>3, <2>3 DEF Factor
<1>11. ASSUME startIndexes[v] = 0, NEW x \in States PROVE topology'[first + x] = Unary(e, x)
  <2>1. /\ first + x \in unary /\ first + x - first = x
        /\ first + x \notin b .. b + 4 /\ first + x # b + 4
    BY <1>3, <1>6, <1>11 DEF States
  <2>2. first + x \in DOMAIN topology \cup unary \cup (b .. b + 4)
    BY <2>1
  <2>3. topology'[first + x] = Unary(e, (first + x) - first)
    BY <1>5, <2>1, <2>2, Zenon
  <2> QED  BY <1>3, <2>3 DEF Unary, States
<1>12. ASSUME NEW s \in DOMAIN topology,
              \/ s < first \/ s >= first + Length(v)
              \/ s < b /\ (s >= first + 2 \/ startIndexes[v] # 0)
       PROVE  topology'[s] = topology[s]
  <2>1. s \notin unary /\ s \notin b .. b + 4 /\ s # b + 4
    BY <1>3, <1>4, <1>6, <1>12
  <2> QED  BY <1>5, <2>1
<1>13. QED  BY <1>8, <1>9, <1>10, <1>11, <1>12 DEF e, v, u, b, first

-----------------------------------------------------------------------------
(***************************************************************************)
(* The invariant holds at the start and every step keeps it                *)
(***************************************************************************)
LEMMA InitInv == GraphInit => GraphInv
<1> SUFFICES ASSUME GraphInit PROVE GraphInv
  OBVIOUS
<1>1. edges \in Seq(Edge) /\ Len(edges) \in 0 .. MaxEdges
  BY DEF GraphInit
<1>2. GraphType
  BY <1>1 DEF GraphInit, GraphType, Node
<1>3. ASSUME NEW v \in Node PROVE Cardinality(Before(v, 0)) = 0
  <2>1. Before(v, 0) = {}
    BY DEF Before
  <2> QED  BY <2>1, FS_EmptySet
<1>4. Counted
  BY <1>3 DEF GraphInit, Counted, topologySizeByVertex, numEdgeFactors, numVars
<1>5. PlacesInRow
  BY DEF GraphInit, PlacesInRow
<1>6. ASSUME NEW v PROVE Filled(v) = {}
  BY DEF GraphInit, Filled
<1>7. BlocksHold
  BY <1>6, FS_EmptySet DEF GraphInit, BlocksHold, Own
<1> QED  BY <1>2, <1>4, <1>5, <1>7 DEF GraphInit, GraphInv

LEMMA PutType ==
  ASSUME GraphType, iEdge < Len(edges), At(iEdge + 1) \in Own, FillEnd
  PROVE  topology' \in [DOMAIN topology' -> Content] /\ DOMAIN topology' \subseteq Nat
<1> DEFINE e == iEdge + 1
           v == At(e)
           u == Beyond(e)
<1>1. /\ e \in 1 .. Len(edges) /\ side \in {1, 2} /\ topology' = Put(v, u, e)
      /\ topology \in [DOMAIN topology -> Content] /\ DOMAIN topology \subseteq Nat
  BY DEF GraphType, FillEnd, At, Beyond
<1>2. e \in 1 .. MaxEdges /\ v \in Node /\ u \in Node
  BY <1>1, EdgeType DEF At, Beyond
<1> HIDE DEF e, v, u
<1>3. firstOffset[v] \in Nat /\ Block(v) \in Nat
  <2>1. firstOffset[v] \in Nat /\ startIndexes[v] \in Nat
    BY <1>2 DEF GraphType
  <2> QED  BY <2>1 DEF Block, numVars, topologySizeByVertex, numEdgeFactors
<1>4. ASSUME NEW s \in Block(v) .. Block(v) + 3
      PROVE  Factor(e, CopyFactors2(v, u, s - Block(v))) \in Content
  <2>1. \A f \in 0 .. 3 : CopyFactors2(v, u, f) \in 0 .. 3
    BY <1>2 DEF CopyFactors2, numVars, Node
  <2>2. s - Block(v) \in 0 .. 3
    BY <1>3
  <2> QED  BY <1>2, <2>1, <2>2 DEF Content, numEdgeFactors, numVars
<1>5. ASSUME NEW s \in firstOffset[v] .. firstOffset[v] + 1
      PROVE  Unary(e, s - firstOffset[v]) \in Content
  <2>1. s - firstOffset[v] \in States
    BY <1>3 DEF States
  <2> QED  BY <1>2, <2>1 DEF Content
<1>6. Id(u) \in Content
  BY <1>2 DEF Content
<1> DEFINE unary == IF startIndexes[v] = 0 THEN firstOffset[v] .. firstOffset[v] + 1 ELSE {}
           block == Block(v) .. Block(v) + 4
<1>7. topology' = [s \in DOMAIN topology \cup unary \cup block |->
         CASE s \in unary -> Unary(e, s - firstOffset[v])
           [] s = Block(v) + 4 -> Id(u)
           [] s \in block \ {Block(v) + 4} -> Factor(e, CopyFactors2(v, u, s - Block(v)))
           [] OTHER -> topology[s]]
  BY <1>1 DEF Put, numVars, numEdgeFactors
<1>8. /\ unary \subseteq firstOffset[v] .. firstOffset[v] + 1 /\ unary \subseteq Nat
      /\ block \subseteq Nat /\ block \ {Block(v) + 4} \subseteq Block(v) .. Block(v) + 3
  BY <1>3
<1> HIDE DEF unary, block
<1>9. ASSUME NEW s \in DOMAIN topology \cup unary \cup block
      PROVE  topology'[s] \in Content
  <2>1. CASE s \notin unary /\ s \notin block /\ s # Block(v) + 4
    BY <1>1, <1>7, <2>1
  <2>2. CASE s \in unary \/ s \in block \/ s = Block(v) + 4
    BY <1>4, <1>5, <1>6, <1>7, <1>8, <2>2
  <2> QED  BY <2>1, <2>2
<1>10. DOMAIN topology' = DOMAIN topology \cup unary \cup block
  BY <1>7
<1>11. topology' = [s \in DOMAIN topology' |-> topology'[s]]
  BY <1>7, <1>10
<1> QED  BY <1>1, <1>8, <1>9, <1>10, <1>11

LEMMA TypeStep == GraphInv /\ [GraphNext]_graphVars => GraphType'
<1> SUFFICES ASSUME GraphInv, [GraphNext]_graphVars PROVE GraphType'
  OBVIOUS
<1> USE DEF fileVars, layoutVars
<1>0. /\ iEdge \in Nat /\ Len(edges) \in Nat /\ iEdge <= Len(edges) /\ side \in {1, 2}
      /\ factorCount \in [Node -> Nat] /\ firstOffset \in [Node -> Nat]
      /\ iVertex \in Nat /\ localSize \in Nat /\ from \in Nat /\ to \in from .. NumVertices
      /\ startIndexes \in [Node -> Nat]
  BY DEF GraphInv, GraphType
<1>1. CASE CountEdge
  <2>1. topologySizeByVertex \in Nat
    BY DEF topologySizeByVertex, numEdgeFactors, numVars
  <2>2. iEdge' \in 0 .. Len(edges)
    BY <1>0, <1>1 DEF CountEdge
  <2>3. factorCount' \in [Node -> Nat]
    BY <1>0, <1>1, <2>1 DEF CountEdge
  <2> QED  BY <1>1, <2>2, <2>3 DEF CountEdge, GraphInv, GraphType
<1>2. CASE EdgesCounted
  <2>1. iVertex' \in 0 .. NumVertices
    BY <1>0, <1>2 DEF EdgesCounted
  <2> QED  BY <1>2, <2>1 DEF EdgesCounted, GraphInv, GraphType
<1>3. CASE LayOut
  <2>1. iVertex \in Node /\ Length(iVertex) \in Nat
    <3>1. iVertex \in Node
      BY <1>0, <1>3 DEF LayOut, Node
    <3> QED  BY <1>0, <3>1 DEF Length, numVars
  <2>2. firstOffset' \in [Node -> Nat] /\ localSize' \in Nat /\ iVertex' \in 0 .. NumVertices
    BY <1>0, <1>3, <2>1 DEF LayOut
  <2> QED  BY <1>3, <2>2 DEF LayOut, GraphInv, GraphType
<1>4. CASE Allocate
  <2>1. topology' \in [0 .. localSize - 1 -> Content] /\ DOMAIN topology' = 0 .. localSize - 1
    BY <1>4 DEF Allocate, Content
  <2>2. DOMAIN topology' \subseteq Nat /\ iEdge' \in 0 .. Len(edges)
    BY <1>0, <1>4, <2>1 DEF Allocate
  <2> QED  BY <1>4, <2>1, <2>2 DEF Allocate, GraphInv, GraphType
<1>5. CASE FillEnd
  <2>0. /\ iEdge \in 0 .. Len(edges) /\ iEdge < Len(edges) /\ Len(edges) \in Nat
        /\ side \in {1, 2} /\ side' = 3 - side
        /\ iEdge' = iEdge + (IF side = 2 THEN 1 ELSE 0)
    BY <1>0, <1>5 DEF FillEnd
  <2>1. iEdge' \in 0 .. Len(edges) /\ side' \in {1, 2}
    BY <2>0
  <2>2. CASE At(iEdge + 1) \in Own
    <3>1. At(iEdge + 1) \in Node
      BY <2>2 DEF Own
    <3>2. startIndexes' \in [Node -> Nat]
      <4> DEFINE v == At(iEdge + 1)
      <4>1. startIndexes' = [startIndexes EXCEPT ![v] = @ + 1]
        BY <1>5, <2>2 DEF FillEnd, At
      <4>2. startIndexes \in [Node -> Nat] /\ v \in Node
        BY <1>0, <3>1
      <4> HIDE DEF v
      <4> QED  BY ONLY <4>1, <4>2
    <3>3. topology' \in [DOMAIN topology' -> Content] /\ DOMAIN topology' \subseteq Nat
      <4>1. iEdge < Len(edges)
        BY <1>5 DEF FillEnd
      <4> QED  BY <1>5, <2>2, <4>1, PutType DEF GraphInv
    <3> QED  BY <1>5, <2>1, <3>2, <3>3 DEF FillEnd, GraphInv, GraphType
  <2>3. CASE At(iEdge + 1) \notin Own
    BY <1>5, <2>1, <2>3 DEF FillEnd, At, GraphInv, GraphType
  <2> QED  BY <2>2, <2>3
<1>6. CASE EdgesFilled
  BY <1>6 DEF EdgesFilled, GraphInv, GraphType
<1>7. CASE UNCHANGED graphVars
  BY <1>7 DEF graphVars, GraphInv, GraphType
<1> QED  BY <1>1, <1>2, <1>3, <1>4, <1>5, <1>6, <1>7 DEF GraphNext

LEMMA CountedStep == GraphInv /\ [GraphNext]_graphVars => Counted'
<1> SUFFICES ASSUME GraphInv, [GraphNext]_graphVars, NEW v \in Node
             PROVE  factorCount'[v] = topologySizeByVertex *
                      Cardinality(IF phase' = "count" THEN Before(v, iEdge)' ELSE Incident(v)')
  BY DEF Counted
<1> USE DEF GraphInv, fileVars, layoutVars
<1>1. /\ iEdge \in Nat /\ factorCount \in [Node -> Nat]
      /\ edges' = edges
  BY DEF GraphType, GraphNext, graphVars, CountEdge, EdgesCounted, LayOut, Allocate, FillEnd, EdgesFilled
<1>2. \A n : Before(v, n)' = Before(v, n)
  BY <1>1 DEF Before, Ends
<1>3. Incident(v)' = Incident(v)
  BY <1>1 DEF Incident, Ends
<1>4. CASE CountEdge
  <2>1. Cardinality(Before(v, iEdge + 1)) =
          Cardinality(Before(v, iEdge)) + (IF v \in Ends(iEdge + 1) THEN 1 ELSE 0)
    BY <1>1, BeforeNext
  <2>2. Cardinality(Before(v, iEdge)) \in Nat
    BY <1>1, BeforeFinite
  <2>3. Before(v, iEdge)' = Before(v, iEdge + 1)
    BY <1>1, <1>4 DEF CountEdge, Before, Ends
  <2>4. factorCount'[v] = factorCount[v] + (IF v \in Ends(iEdge + 1) THEN 5 ELSE 0)
    BY <1>4 DEF CountEdge, topologySizeByVertex, numEdgeFactors, numVars
  <2>5. phase = "count" /\ phase' = "count" /\ factorCount[v] = 5 * Cardinality(Before(v, iEdge))
    BY <1>4 DEF CountEdge, Counted, topologySizeByVertex, numEdgeFactors, numVars
  <2> QED
    BY <2>1, <2>2, <2>3, <2>4, <2>5 DEF topologySizeByVertex, numEdgeFactors, numVars
<1>5. CASE EdgesCounted
  <2>1. Before(v, iEdge) = Incident(v)
    BY <1>5 DEF EdgesCounted, Before, Incident
  <2> QED  BY <1>3, <1>5, <2>1 DEF EdgesCounted, Counted
<1>6. CASE LayOut \/ Allocate \/ FillEnd \/ EdgesFilled
  <2>1. phase # "count" /\ phase' # "count" /\ factorCount' = factorCount
    BY <1>6 DEF LayOut, Allocate, FillEnd, EdgesFilled
  <2> QED  BY <1>3, <2>1 DEF Counted
<1>7. CASE UNCHANGED graphVars
  <2>1. phase' = phase /\ factorCount' = factorCount /\ iEdge' = iEdge
    BY <1>7 DEF graphVars
  <2>2. Before(v, iEdge)' = Before(v, iEdge)
    BY <1>1, <2>1 DEF Before, Ends
  <2> QED  BY <1>3, <2>1, <2>2 DEF Counted
<1> QED  BY <1>4, <1>5, <1>6, <1>7 DEF GraphNext

LEMMA PlacesStep == GraphInv /\ [GraphNext]_graphVars => PlacesInRow'
<1> SUFFICES ASSUME GraphInv, [GraphNext]_graphVars PROVE PlacesInRow'
  OBVIOUS
<1> USE DEF GraphInv, PlacesInRow, fileVars, layoutVars
<1>1. CASE CountEdge
  BY <1>1 DEF CountEdge
<1>2. CASE EdgesCounted
  <2>1. /\ phase' = "layout" /\ iVertex' = from /\ from' = from /\ to' = to
        /\ from \in Nat /\ to \in Nat /\ from <= to
    BY <1>2 DEF EdgesCounted, GraphType
  <2>2. \A v \in Own' : v \in Int /\ ~(v < iVertex')
    BY <2>1 DEF Own, Node
  <2> QED  BY <2>1, <2>2 DEF Own, Node
<1>3. CASE LayOut
  <2>0. /\ iVertex \in Nat /\ from \in Nat /\ to \in 0 .. NumVertices /\ localSize \in Nat
        /\ factorCount \in [Node -> Nat] /\ firstOffset \in [Node -> Nat]
    BY DEF GraphType
  <2>1. /\ iVertex \in Node /\ Length(iVertex) \in Nat /\ localSize \in Nat
        /\ firstOffset \in [Node -> Nat] /\ from \in Nat /\ to \in Nat
    <3>1. iVertex < to
      BY <1>3 DEF LayOut
    <3>2. iVertex \in Node
      BY <2>0, <3>1 DEF Node
    <3> QED  BY <2>0, <3>2 DEF Length, numVars
  <2>2. /\ firstOffset' = [firstOffset EXCEPT ![iVertex] = localSize]
        /\ localSize' = localSize + Length(iVertex) /\ iVertex' = iVertex + 1
        /\ phase = "layout" /\ phase' = "layout" /\ iVertex < to
        /\ from' = from /\ to' = to /\ factorCount' = factorCount
    BY <1>3 DEF LayOut
  <2>3. Own' = Own /\ \A v : Length(v)' = Length(v)
    BY <2>2 DEF Own, Length
  <2>4. \A v \in Own : Length(v) \in Nat /\ v \in Int /\ v \in Node
    BY <2>0 DEF Own, Length, Node, numVars
  <2>5. /\ \A v \in Own : v < iVertex => firstOffset[v] + Length(v) <= localSize
        /\ \A v, w \in Own : v < w /\ w < iVertex => firstOffset[v] + Length(v) <= firstOffset[w]
        /\ from <= iVertex
    BY <2>2
  <2> HIDE DEF GraphInv, PlacesInRow
  <2>6. ASSUME NEW v \in Own, v < iVertex + 1
        PROVE  firstOffset'[v] + Length(v) <= localSize'
    <3>1. CASE v = iVertex
      BY <2>1, <2>2, <2>4, <3>1
    <3>2. CASE v # iVertex
      <4>1. v < iVertex /\ firstOffset[v] + Length(v) <= localSize
        BY <2>1, <2>2, <2>4, <2>5, <2>6, <3>2 DEF Node
      <4>2. firstOffset'[v] = firstOffset[v] /\ firstOffset[v] \in Nat
        BY <2>1, <2>2, <2>4, <3>2
      <4> QED  BY <2>1, <2>2, <2>4, <4>1, <4>2
    <3> QED  BY <3>1, <3>2
  <2>7. ASSUME NEW v \in Own, NEW w \in Own, v < w, w < iVertex + 1
        PROVE  firstOffset'[v] + Length(v) <= firstOffset'[w]
    <3>1. v < iVertex /\ v # iVertex
      BY <2>1, <2>4, <2>7 DEF Node
    <3>2. CASE w = iVertex
      BY <2>1, <2>2, <2>4, <2>5, <3>1, <3>2
    <3>3. CASE w # iVertex
      BY <2>1, <2>2, <2>4, <2>5, <2>7, <3>1, <3>3 DEF Node
    <3> QED  BY <3>2, <3>3
  <2> QED  BY <2>1, <2>2, <2>3, <2>5, <2>6, <2>7 DEF Node, PlacesInRow
<1>4. CASE Allocate
  BY <1>4 DEF Allocate, Own, Length
<1>5. CASE FillEnd
  <2>1. DOMAIN topology' = DOMAIN topology
    <3>1. CASE At(iEdge + 1) \in Own
      BY <1>5, <3>1, Written
    <3>2. CASE At(iEdge + 1) \notin Own
      BY <1>5, <3>2 DEF FillEnd, At
    <3> QED  BY <3>1, <3>2
  <2> QED  BY <1>5, <2>1 DEF FillEnd, Own, Length
<1>6. CASE EdgesFilled
  BY <1>6 DEF EdgesFilled, Own, Length
<1>7. CASE UNCHANGED graphVars
  BY <1>7 DEF graphVars, Own, Length
<1> QED  BY <1>1, <1>2, <1>3, <1>4, <1>5, <1>6, <1>7 DEF GraphNext

\* A step that fills nothing new leaves what is filled as it was.
LEMMA HoldsStays ==
  ASSUME UNCHANGED <<edges, firstOffset, topology>>, NEW v, NEW e, NEW u, Holds(v, e, u)
  PROVE  Holds(v, e, u)'
<1>1. Rank(v, e)' = Rank(v, e)
  BY DEF Rank, Incident, Ends
<1> QED
  BY <1>1 DEF Holds, NeighborRead, FactorRead, UnaryRead, BlockRead

LEMMA BlocksStep ==
  ASSUME GraphInv, [GraphNext]_graphVars, ~FillEnd
  PROVE  BlocksHold'
<1> USE DEF GraphInv, fileVars, layoutVars
<1>1. UNCHANGED <<edges, from, to, startIndexes>>
  BY DEF GraphNext, graphVars, CountEdge, EdgesCounted, LayOut, Allocate, EdgesFilled
<1>2. Own' = Own /\ (\A e : Ends(e)' = Ends(e)) /\ (\A v : Incident(v)' = Incident(v))
  BY <1>1 DEF Own, Ends, Incident
<1>3. Len(edges) \in Nat /\ \A v : \A e \in Incident(v) : e \in 1 .. Len(edges)
  BY DEF GraphType, Incident
<1>4. CASE CountEdge \/ EdgesCounted \/ LayOut \/ Allocate
  <2>1. phase \notin {"fill", "built"} /\ (phase' \in {"fill", "built"} => phase' = "fill" /\ iEdge' = 0 /\ side' = 1)
    BY <1>4 DEF CountEdge, EdgesCounted, LayOut, Allocate, GraphType
  <2>2. \A v : Filled(v) = {} /\ Filled(v)' = {}
    BY <1>1, <1>2, <1>3, <2>1 DEF Filled
  <2> QED  BY <1>1, <1>2, <2>2 DEF BlocksHold
<1>5. CASE EdgesFilled \/ UNCHANGED graphVars
  <2>1. UNCHANGED <<edges, firstOffset, topology>>
    BY <1>5 DEF EdgesFilled, graphVars
  <2>2. ASSUME NEW v PROVE Filled(v)' = Filled(v)
    <3>1. CASE EdgesFilled
      BY <1>1, <1>2, <1>3, <3>1 DEF EdgesFilled, Filled
    <3>2. CASE UNCHANGED graphVars
      BY <1>2, <3>2 DEF graphVars, Filled
    <3> QED  BY <1>5, <3>1, <3>2
  <2>3. ASSUME NEW v \in Own, NEW e \in Filled(v), NEW u \in Ends(e) \ {v}
        PROVE  Holds(v, e, u)'
    BY <2>1, <2>3, HoldsStays DEF BlocksHold
  <2> QED  BY <1>1, <1>2, <2>2, <2>3 DEF BlocksHold
<1> QED  BY <1>4, <1>5 DEF GraphNext

\* Filling an end adds the edge to those filled at its vertex and no other.
LEMMA FilledNext ==
  ASSUME GraphInv, FillEnd, NEW v \in Own
  PROVE  Filled(v)' = Filled(v) \cup (IF v = At(iEdge + 1) THEN {iEdge + 1} ELSE {})
<1> DEFINE e == iEdge + 1
<1>0. side \in {1, 2} /\ iEdge \in Nat /\ Len(edges) \in Nat
  BY DEF GraphInv, GraphType
<1>1. /\ phase = "fill" /\ phase' = "fill" /\ edges' = edges /\ side \in {1, 2} /\ iEdge \in Nat
      /\ side' = 3 - side /\ iEdge' = iEdge + (IF side = 2 THEN 1 ELSE 0) /\ e \in 1 .. Len(edges)
  BY <1>0 DEF FillEnd, fileVars
<1>2. Incident(v)' = Incident(v) /\ \A d \in Incident(v) : d \in Nat
  BY <1>1 DEF Incident, Ends
<1>3. Filled(v) = {d \in Incident(v) : d < e \/ (d = e /\ side = 2 /\ edges[e][1] = v)}
  BY <1>1, <1>2 DEF Filled
<1>4. e \in Incident(v) <=> edges[e][1] = v \/ edges[e][2] = v
  BY <1>1 DEF Incident, Ends
<1>5. edges[e][1] # edges[e][2]
  BY <1>1, EdgeType DEF GraphInv
<1>6. CASE side = 1
  <2>1. Filled(v)' = {d \in Incident(v) : d < e \/ (d = e /\ edges[e][1] = v)}
    BY <1>1, <1>2, <1>6 DEF Filled
  <2> QED  BY <1>3, <1>4, <1>6, <2>1 DEF At
<1>7. CASE side = 2
  <2>1. Filled(v)' = {d \in Incident(v) : d < e \/ d = e}
    BY <1>1, <1>2, <1>7 DEF Filled
  <2> QED  BY <1>3, <1>4, <1>5, <1>7, <2>1 DEF At
<1> QED  BY <1>1, <1>6, <1>7

LEMMA FilledFinite ==
  ASSUME GraphType, NEW v
  PROVE  IsFiniteSet(Filled(v)) /\ Cardinality(Filled(v)) \in Nat
<1>1. Filled(v) \subseteq Incident(v)
  BY DEF Filled
<1> QED  BY <1>1, IncidentBefore, FS_Subset, FS_CardinalityType

LEMMA FillStep ==
  ASSUME GraphInv, FillEnd
  PROVE  BlocksHold'
<1> DEFINE e == iEdge + 1
           v == At(e)
<1>1. /\ phase = "fill" /\ iEdge < Len(edges)
      /\ UNCHANGED <<edges, from, to, firstOffset, localSize>>
  BY DEF FillEnd, fileVars, layoutVars
<1>2. /\ Own' = Own /\ \A w : Ends(w)' = Ends(w)
      /\ \A w, d : Rank(w, d)' = Rank(w, d)
  BY <1>1 DEF Own, Ends, Rank, Incident
<1>3. \A w \in Own : Filled(w)' = Filled(w) \cup (IF w = v THEN {e} ELSE {})
  BY FilledNext
<1>4. CASE v \notin Own
  <2>1. UNCHANGED <<topology, startIndexes>>
    BY <1>4 DEF FillEnd, At
  <2>2. \A w \in Own : Filled(w)' = Filled(w)
    BY <1>3, <1>4
  <2>3. ASSUME NEW w \in Own, NEW d \in Filled(w), NEW u \in Ends(d) \ {w}
        PROVE  Holds(w, d, u)'
    BY <1>1, <2>1, <2>3, HoldsStays DEF GraphInv, BlocksHold
  <2> QED  BY <1>2, <2>1, <2>2, <2>3, FilledNext DEF GraphInv, BlocksHold
<1>5. CASE v \in Own
  <2>1. /\ e \in Incident(v) /\ e \notin Filled(v)
        /\ Filled(v) = {d \in Incident(v) : d < e}
        /\ startIndexes[v] = Rank(v, e)
        /\ Block(v) = BlockRead(v, Rank(v, e))
    BY <1>1, <1>5, FillPlace
  <2>2. ASSUME NEW w \in Own
        PROVE  startIndexes'[w] = Cardinality(Filled(w)')
    <3>1. w \in Node /\ v \in Node
      BY <1>5 DEF Own
    <3>2. startIndexes' = [startIndexes EXCEPT ![v] = @ + 1] /\ startIndexes \in [Node -> Nat]
      BY <1>5 DEF GraphInv, FillEnd, At, GraphType
    <3>3. startIndexes[w] = Cardinality(Filled(w)) /\ IsFiniteSet(Filled(w))
      BY FilledFinite DEF GraphInv, BlocksHold
    <3>4. CASE w = v
      <4>1. Filled(w)' = Filled(w) \cup {e} /\ e \notin Filled(w)
        BY <1>3, <2>1, <3>4
      <4>2. Cardinality(Filled(w)') = Cardinality(Filled(w)) + 1
        BY <3>3, <4>1, FS_AddElement
      <4> HIDE DEF v
      <4> QED  BY <3>1, <3>2, <3>3, <3>4, <4>2
    <3>5. CASE w # v
      <4>1. Filled(w)' = Filled(w)
        BY <1>3, <3>5
      <4> HIDE DEF v
      <4> QED  BY <3>1, <3>2, <3>3, <3>5, <4>1
    <3> QED  BY <3>4, <3>5
  <2>3. ASSUME NEW w \in Own, NEW d \in Filled(w), NEW u \in Ends(d) \ {w}
        PROVE  Holds(w, d, u)'
    <3> DEFINE b == BlockRead(w, Rank(w, d))
               first == firstOffset[w]
    <3>1. Holds(w, d, u) /\ d \in Incident(w)
      BY <2>3 DEF GraphInv, BlocksHold, Filled
    <3>2. /\ Rank(w, d) \in Nat /\ first \in Nat /\ first + 2 <= b /\ b = first + 2 + 5 * Rank(w, d)
          /\ b + 5 <= first + Length(w) /\ first + Length(w) <= localSize /\ Length(w) \in Nat
      BY <1>1, <3>1, ReadPlace
    <3>3. DOMAIN topology = 0 .. localSize - 1 /\ localSize \in Nat
      BY <1>1 DEF GraphInv, PlacesInRow, GraphType
    <3>4. \A t \in DOMAIN topology :
            \/ t < firstOffset[v] \/ t >= firstOffset[v] + Length(v)
            \/ t < Block(v) /\ (t >= firstOffset[v] + 2 \/ startIndexes[v] # 0)
            => topology'[t] = topology[t]
      BY <1>1, <1>5, Written
    <3>5. ASSUME NEW s \in first .. b + 4 PROVE topology'[s] = topology[s]
      <4>1. s \in DOMAIN topology /\ s \in Int
        <5> HIDE DEF b, first, v, e
        <5> QED  BY <3>2, <3>3
      <4>2. CASE w = v
        <5>1. Rank(v, d) < Rank(v, e)
          BY <2>1, <2>3, <3>1, <4>2, RankOrder DEF GraphInv
        <5>2. Rank(v, e) \in Nat
          BY <2>1, RankOrder DEF GraphInv
        <5>3. Block(v) = first + 2 + 5 * Rank(v, e)
          BY <1>1, <1>5, <2>1, <4>2, ReadPlace
        <5> HIDE DEF v, e
        <5>4. s < Block(v) /\ startIndexes[v] # 0
          BY <2>1, <3>2, <4>1, <4>2, <5>1, <5>2, <5>3
        <5> QED  BY <3>4, <4>1, <5>4
      <4>3. CASE w # v
        <5>1. w \in Int /\ v \in Int /\ w < iVertex /\ v < iVertex
          BY <1>1, <1>5 DEF GraphInv, Own, PlacesInRow, GraphType, Node
        <5>2. \/ first + Length(w) <= firstOffset[v]
              \/ firstOffset[v] + Length(v) <= first
          <6>1. w < v \/ v < w
            BY <4>3, <5>1
          <6>2. CASE w < v
            BY <1>1, <1>5, <5>1, <6>2 DEF GraphInv, PlacesInRow
          <6>3. CASE v < w
            BY <1>1, <1>5, <5>1, <6>3 DEF GraphInv, PlacesInRow
          <6> QED  BY <6>1, <6>2, <6>3
        <5>3. firstOffset[v] \in Nat /\ Length(v) \in Nat
          BY <1>1, <1>5, <2>1, ReadPlace
        <5> HIDE DEF v, e
        <5>4. s < firstOffset[v] \/ s >= firstOffset[v] + Length(v)
          BY <3>2, <4>1, <5>2, <5>3
        <5> QED  BY <3>4, <4>1, <5>4
      <4> QED  BY <4>2, <4>3
    <3>6. BlockRead(w, Rank(w, d))' = b /\ firstOffset'[w] = first
      BY <1>1, <1>2 DEF BlockRead
    <3>7. \A i \in 0 .. 4 : topology'[b + i] = topology[b + i]
      BY <3>2, <3>5
    <3>8. \A x, y \in States : 2 * x + y \in 0 .. 3
      BY DEF States
    <3>9. NeighborRead(w, Rank(w, d))' = NeighborRead(w, Rank(w, d))
      BY <3>6, <3>7 DEF NeighborRead
    <3>10. \A x, y \in States : FactorRead(w, Rank(w, d), x, y)' = FactorRead(w, Rank(w, d), x, y)
      BY <3>2, <3>5, <3>6 DEF FactorRead, States
    <3>11. \A x \in States : UnaryRead(w, x)' = UnaryRead(w, x)
      BY <3>2, <3>5, <3>6 DEF UnaryRead, States
    <3> QED  BY <1>2, <3>1, <3>9, <3>10, <3>11 DEF Holds
  <2>4. ASSUME NEW w \in Own, w = v, NEW d, d = e, NEW u \in Ends(d) \ {w}
        PROVE  Holds(w, d, u)'
    <3> DEFINE b == Block(w)
    <3>1. u = Beyond(e) /\ u \in Int /\ w \in Int
      <4>1. side \in {1, 2} /\ e \in 1 .. Len(edges)
        BY <1>1 DEF GraphInv, GraphType
      <4>2. edges[e][1] \in Node /\ edges[e][2] \in Node
        BY <4>1, EdgeType DEF GraphInv
      <4> QED  BY <2>4, <4>1, <4>2 DEF Ends, At, Beyond, Node
    <3>2. /\ topology'[b + 4] = Id(u)
          /\ \A f \in 0 .. 3 : topology'[b + f] = Factor(d, CopyFactors2(w, u, f))
          /\ startIndexes[w] = 0 =>
               \A x \in States : topology'[firstOffset[w] + x] = Unary(d, x)
      BY <1>1, <1>5, <2>4, <3>1, Written
    <3>3. Rank(w, d)' = Rank(w, d) /\ BlockRead(w, Rank(w, d))' = b /\ firstOffset'[w] = firstOffset[w]
      BY <1>1, <1>2, <2>1, <2>4 DEF BlockRead
    <3>4. b \in Nat
      <4>1. d \in Incident(w) /\ b = BlockRead(w, Rank(w, d))
        BY <2>1, <2>4
      <4>2. /\ Rank(w, d) \in Nat /\ firstOffset[w] \in Nat
            /\ BlockRead(w, Rank(w, d)) = firstOffset[w] + 2 + 5 * Rank(w, d)
        BY <1>1, <4>1, ReadPlace
      <4> HIDE DEF b
      <4> QED  BY <4>1, <4>2
    <3> HIDE DEF b, v, e
    <3>5. NeighborRead(w, Rank(w, d))' = Id(u)
      BY <3>2, <3>3 DEF NeighborRead
    <3>6. ASSUME NEW x \in States, NEW y \in States
          PROVE  FactorRead(w, Rank(w, d), x, y)' = Factor(d, IF w < u THEN 2 * x + y ELSE 2 * y + x)
      <4>1. 2 * x + y \in 0 .. 3 /\ (b + 2 * x) + y = b + (2 * x + y)
        BY <3>4 DEF States
      <4>2. topology'[b + (2 * x + y)] = Factor(d, CopyFactors2(w, u, 2 * x + y))
        BY <3>2, <4>1
      <4>3. CopyFactors2(w, u, 2 * x + y) = IF w < u THEN 2 * x + y ELSE 2 * y + x
        BY DEF CopyFactors2, numVars, States
      <4>4. FactorRead(w, Rank(w, d), x, y)' = topology'[b + (2 * x + y)]
        BY <3>3, <4>1 DEF FactorRead
      <4> QED  BY <4>2, <4>3, <4>4
    <3>7. Rank(w, d) = 0 => \A x \in States : UnaryRead(w, x)' = Unary(d, x)
      BY <2>1, <2>4, <3>2, <3>3 DEF UnaryRead
    <3> QED  BY <3>3, <3>5, <3>6, <3>7 DEF Holds
  <2> QED
    BY <1>2, <1>3, <1>5, <2>2, <2>3, <2>4 DEF BlocksHold
<1> QED  BY <1>4, <1>5

\* The index of the loading of a graph keeps its invariant.
THEOREM GraphInvariance == GraphSpec => []GraphInv
<1>1. GraphInv /\ [GraphNext]_graphVars => GraphInv'
  <2> SUFFICES ASSUME GraphInv, [GraphNext]_graphVars PROVE GraphInv'
    OBVIOUS
  <2>1. GraphType' /\ Counted' /\ PlacesInRow'
    BY TypeStep, CountedStep, PlacesStep
  <2>2. BlocksHold'
    BY BlocksStep, FillStep
  <2>3. side' = 2 => phase' = "fill" /\ iEdge' < Len(edges)'
    <3>1. side \in {1, 2} /\ (side = 2 => phase = "fill" /\ iEdge < Len(edges))
      BY DEF GraphInv, GraphType
    <3>2. CASE FillEnd
      BY <3>1, <3>2 DEF FillEnd, GraphInv, GraphType, fileVars
    <3>3. CASE EdgesFilled
      BY <3>1, <3>3 DEF EdgesFilled, GraphInv, GraphType
    <3> QED
      BY <3>1, <3>2, <3>3 DEF GraphNext, graphVars, fileVars, CountEdge, EdgesCounted, LayOut, Allocate
  <2> QED  BY <2>1, <2>2, <2>3 DEF GraphInv
<1> QED  BY <1>1, InitInv, PTL DEF GraphSpec

\* The factors of a block, as the code's two branches put them.
LEMMA BlockFactors ==
  ASSUME GraphInv, phase = "built", NEW v \in Own, NEW e \in Incident(v), NEW u, u \in Ends(e), u # v
  PROVE  /\ NeighborRead(v, Rank(v, e)) = Id(u)
         /\ \A x, y \in States : FactorRead(v, Rank(v, e), x, y) =
              Factor(e, IF v < u THEN 2 * x + y ELSE 2 * y + x)
         /\ Rank(v, e) = 0 => \A x \in States : UnaryRead(v, x) = Unary(e, x)
<1>1. e \in 1 .. Len(edges) /\ v \in Ends(e)
  BY DEF Incident
<1>2. e \in Filled(v)
  BY DEF Filled
<1>3. Holds(v, e, u)
  BY <1>1, <1>2 DEF GraphInv, BlocksHold
<1> QED  BY <1>3 DEF Holds

\* The index of a process holds its part of the graph, for every graph and every
\* range of vertices: one block per edge of each vertex, none over another, with the
\* factors of the file where its ends are in the order of their numbers, and with the
\* same factors at both ends of every edge.
THEOREM IndexIsGraph == GraphSpec => []IndexHoldsGraph
<1>1. GraphInv => IndexHoldsGraph
  <2> SUFFICES ASSUME GraphInv, phase = "built"
               PROVE  /\ DOMAIN topology = 0 .. localSize - 1
                      /\ \A v \in Own :
                           /\ NumBlocks(v) = Cardinality(Incident(v))
                           /\ \A e \in Incident(v) : \A x \in States :
                                LET k == Rank(v, e)
                                    u == CHOOSE w \in Ends(e) : w # v
                                IN  /\ NeighborRead(v, k) = Id(u)
                                    /\ k = 0 => UnaryRead(v, x) = Unary(e, x)
                                    /\ edges[e][1] < edges[e][2] =>
                                         \A y \in States : FactorRead(v, k, x, y) = FactorOf(e, v, x, y)
                                    /\ u \in Own =>
                                         \A y \in States : FactorRead(v, k, x, y) =
                                                             FactorRead(u, Rank(u, e), y, x)
                                    /\ {FactorRead(v, k, z[1], z[2]) : z \in States \X States} =
                                         {Factor(e, f) : f \in 0 .. numEdgeFactors - 1}
    BY DEF IndexHoldsGraph
  <2>1. DOMAIN topology = 0 .. localSize - 1
    BY DEF GraphInv, PlacesInRow
  <2>2. ASSUME NEW v \in Own PROVE NumBlocks(v) = Cardinality(Incident(v))
    <3>1. Cardinality(Incident(v)) \in Nat
      BY IncidentBefore DEF GraphInv
    <3>2. Length(v) = 5 * Cardinality(Incident(v)) + 2
      BY <2>2, <3>1 DEF GraphInv, Counted, Length, Own, numVars, topologySizeByVertex, numEdgeFactors
    <3> QED
      BY <3>1, <3>2 DEF NumBlocks, numVars, topologySizeByVertex, numEdgeFactors
  <2>3. ASSUME NEW v \in Own, NEW e \in Incident(v), NEW x \in States
        PROVE  LET k == Rank(v, e)
                   u == CHOOSE w \in Ends(e) : w # v
               IN  /\ NeighborRead(v, k) = Id(u)
                   /\ k = 0 => UnaryRead(v, x) = Unary(e, x)
                   /\ edges[e][1] < edges[e][2] =>
                        \A y \in States : FactorRead(v, k, x, y) = FactorOf(e, v, x, y)
                   /\ u \in Own =>
                        \A y \in States : FactorRead(v, k, x, y) = FactorRead(u, Rank(u, e), y, x)
                   /\ {FactorRead(v, k, z[1], z[2]) : z \in States \X States} =
                        {Factor(e, f) : f \in 0 .. numEdgeFactors - 1}
    <3> DEFINE k == Rank(v, e)
               u == CHOOSE w \in Ends(e) : w # v
               S == {FactorRead(v, k, z[1], z[2]) : z \in States \X States}
    <3>1. e \in 1 .. Len(edges) /\ v \in Ends(e) /\ Ends(e) = {edges[e][1], edges[e][2]}
      BY DEF Incident, Ends
    <3>2. edges[e][1] \in Nat /\ edges[e][2] \in Nat /\ edges[e][1] # edges[e][2]
      BY <3>1, EdgeType, GraphAssumption DEF GraphInv, Node
    <3>3. \E w \in Ends(e) : w # v
      BY <3>1, <3>2
    <3>4. u \in Ends(e) /\ u # v
      BY <3>3
    <3> HIDE DEF u
    <3>5. /\ NeighborRead(v, k) = Id(u)
          /\ \A y, z \in States : FactorRead(v, k, y, z) = Factor(e, IF v < u THEN 2 * y + z ELSE 2 * z + y)
          /\ k = 0 => UnaryRead(v, x) = Unary(e, x)
      BY <3>4, BlockFactors
    <3> HIDE DEF k
    <3>6. ASSUME edges[e][1] < edges[e][2], NEW y \in States
          PROVE  FactorRead(v, k, x, y) = FactorOf(e, v, x, y)
      <4>1. v = edges[e][1] <=> v < u
        BY <3>1, <3>2, <3>4, <3>6
      <4> QED  BY <3>5, <4>1 DEF FactorOf
    <3>7. ASSUME u \in Own, NEW y \in States
          PROVE  FactorRead(v, k, x, y) = FactorRead(u, Rank(u, e), y, x)
      <4>1. e \in Incident(u) /\ v \in Ends(e) /\ v # u
        BY <3>1, <3>4 DEF Incident
      <4>2. FactorRead(u, Rank(u, e), y, x) = Factor(e, IF u < v THEN 2 * y + x ELSE 2 * x + y)
        BY <3>7, <4>1, BlockFactors
      <4>3. u < v <=> ~ (v < u)
        BY <3>1, <3>2, <3>4
      <4> QED  BY <3>5, <4>2, <4>3
    <3>8. S = {Factor(e, f) : f \in 0 .. numEdgeFactors - 1}
      <4>1. 0 .. numEdgeFactors - 1 = {0, 1, 2, 3} /\ States = {0, 1}
        BY DEF numEdgeFactors, numVars, States
      <4>2. S = {FactorRead(v, k, 0, 0), FactorRead(v, k, 0, 1), FactorRead(v, k, 1, 0), FactorRead(v, k, 1, 1)}
        <5>1. \A z \in States \X States : z \in {<<0, 0>>, <<0, 1>>, <<1, 0>>, <<1, 1>>}
          BY <4>1
        <5>2. {<<0, 0>>, <<0, 1>>, <<1, 0>>, <<1, 1>>} \subseteq States \X States
          BY <4>1
        <5> QED  BY <5>1, <5>2
      <4>3. \/ /\ FactorRead(v, k, 0, 0) = Factor(e, 0) /\ FactorRead(v, k, 0, 1) = Factor(e, 1)
               /\ FactorRead(v, k, 1, 0) = Factor(e, 2) /\ FactorRead(v, k, 1, 1) = Factor(e, 3)
            \/ /\ FactorRead(v, k, 0, 0) = Factor(e, 0) /\ FactorRead(v, k, 0, 1) = Factor(e, 2)
               /\ FactorRead(v, k, 1, 0) = Factor(e, 1) /\ FactorRead(v, k, 1, 1) = Factor(e, 3)
        <5>1. 0 \in States /\ 1 \in States
          BY <4>1
        <5>2. \A y, z \in {0, 1} : FactorRead(v, k, y, z) = Factor(e, IF v < u THEN 2 * y + z ELSE 2 * z + y)
          BY <3>5, <4>1
        <5>3. CASE v < u   BY <5>2, <5>3
        <5>4. CASE ~ (v < u)   BY <5>2, <5>4
        <5> QED  BY <5>3, <5>4
      <4>4. {Factor(e, f) : f \in {0, 1, 2, 3}} = {Factor(e, 0), Factor(e, 1), Factor(e, 2), Factor(e, 3)}
        OBVIOUS
      <4> HIDE DEF S
      <4> QED  BY <4>1, <4>2, <4>3, <4>4
    <3> QED  BY <3>5, <3>6, <3>7, <3>8 DEF u, k
  <2> QED  BY <2>1, <2>2, <2>3
<1> QED  BY <1>1, GraphInvariance, PTL

=============================================================================
