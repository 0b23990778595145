------------------------- MODULE QueryService_proofs -------------------------
(***************************************************************************)
(* Proofs about QueryService, for every number of partitions, vertices and *)
(* iterations and every course the probabilities may take.                 *)
(*                                                                         *)
(* The engine enters only through the promise of PublishedFiles: what it   *)
(* publishes does not go back, and the statistics are behind the rest.     *)
(* The cache enters only through what a query has had dropped from it.     *)
(*                                                                         *)
(* Behind them, proofs about QueryServer, whose connections the queries    *)
(* come by, for every number of connections.                               *)
(***************************************************************************)
EXTENDS QueryService, QueryServer, SequenceTheorems, TLAPS

-----------------------------------------------------------------------------
(***************************************************************************)
(* What may be loaded                                                      *)
(***************************************************************************)
\* To be cited instead of the number, which the provers need not see.
LEMMA LargeIterNat == LargeIter \in Nat
  BY SMT DEF LargeIter

LEMMA LoadType ==
  ASSUME QueryType, NEW p \in Proc, NEW i \in Index
  PROVE  LoadDist(p, i) \in Version /\ LoadMark(p) \in Version
  BY DEF QueryType, LoadDist, LoadMark, Load

\* From what is dropped from the cache and what FAM holds now, a load returns
\* nothing older than both.
LEMMA LoadFrom ==
  ASSUME QueryType, NEW p \in Proc, NEW i \in Index, NEW k \in Version \cup {LargeIter},
         CacheFrom(p, k), k <= stat[p], FilesKeepPromise
  PROVE  k <= LoadDist(p, i) /\ k <= LoadMark(p)
<1>1. k <= dist[p][i] /\ k <= mark[p]
  BY QueryAssumption, LargeIterNat
  DEF QueryType, FilesKeepPromise, Files!Promise, Version
<1>2. QED
  BY <1>1 DEF CacheFrom, LoadDist, LoadMark, Load

\* The two ways a load fills the cache.
Keeps(p, i) == KeepDist(p, i) \/ KeepMark(p)

LEMMA KeepType ==
  ASSUME QueryType, NEW p \in Proc, NEW i \in Index, Keeps(p, i)
  PROVE  /\ cachedDist' \in [Proc -> [Index -> Version \cup {None}]]
         /\ cachedMark' \in [Proc -> Version \cup {None}]
<1>1. LoadDist(p, i) \in Version /\ LoadMark(p) \in Version
  BY LoadType
<1>2. CASE KeepDist(p, i)
  BY <1>1, <1>2 DEF KeepDist, QueryType
<1>3. CASE KeepMark(p)
  BY <1>1, <1>3 DEF KeepMark, QueryType
<1>4. QED BY <1>2, <1>3 DEF Keeps

\* Loads leave the cache as fresh as it was, if FAM is as fresh.
LEMMA KeepFrom ==
  ASSUME QueryType, FilesKeepPromise, NEW p \in Proc, NEW i \in Index, Keeps(p, i),
         NEW q \in Proc, NEW k \in Version \cup {LargeIter},
         CacheFrom(q, k), k <= stat[q]
  PROVE  CacheFrom(q, k)'
<1>1. \A j \in Index : k <= LoadDist(q, j) /\ k <= LoadMark(q)
  BY LoadFrom
<1>2. CASE KeepDist(p, i)
  BY <1>1, <1>2 DEF KeepDist, CacheFrom, QueryType
<1>3. CASE KeepMark(p)
  BY <1>1, <1>3 DEF KeepMark, CacheFrom, QueryType
<1>4. QED BY <1>2, <1>3 DEF Keeps

\* ... and so they do for the vertex of findState.
LEMMA KeepVertex ==
  ASSUME QueryType, VertexIsFresh, NEW p \in Proc, NEW i \in Index, Keeps(p, i),
         pc \in VertexLoads
  PROVE  /\ cachedDist'[part][index] = None \/ cachedDist'[part][index] >= asOf.p_0
         /\ cachedMark'[part] = None \/ cachedMark'[part] >= asOf.iteration
         /\ LoadDist(part, index) >= asOf.p_0
         /\ LoadMark(part) >= asOf.iteration
<1>1. LoadDist(part, index) >= asOf.p_0 /\ LoadMark(part) >= asOf.iteration
  BY DEF VertexIsFresh, LoadDist, LoadMark, Load
<1>2. CASE KeepDist(p, i)
  BY <1>1, <1>2 DEF KeepDist, VertexIsFresh, QueryType
<1>3. CASE KeepMark(p)
  BY <1>1, <1>3 DEF KeepMark, VertexIsFresh, QueryType
<1>4. QED BY <1>1, <1>2, <1>3 DEF Keeps

\* Dropping the lines of a partition makes its cache as fresh as one likes.
LEMMA InvalidateFrom ==
  ASSUME QueryType, NEW p \in Proc, Invalidate(p)
  PROVE  /\ cachedDist' \in [Proc -> [Index -> Version \cup {None}]]
         /\ cachedMark' \in [Proc -> Version \cup {None}]
         /\ \A i \in Index : cachedDist'[p][i] = None
         /\ cachedMark'[p] = None
         /\ \A q \in Proc, k \in Version \cup {LargeIter} :
              q = p \/ CacheFrom(q, k) => CacheFrom(q, k)'
  BY DEF QueryType, Invalidate, DistAfterInvalidate, MarkAfterInvalidate, CacheFrom

\* What the engine publishes.
LEMMA PublishGrows ==
  ASSUME QueryType, FilesKeepPromise, Files!Next
  PROVE  /\ dist' \in [Proc -> [Index -> Version]]
         /\ mark' \in [Proc -> Version] /\ stat' \in [Proc -> Version]
         /\ FilesKeepPromise'
         /\ \A p \in Proc : /\ mark[p] <= mark'[p] /\ stat[p] <= stat'[p]
                            /\ \A i \in Index : dist[p][i] <= dist'[p][i]
<1>1. PICK q \in Proc : Files!Publish(q)
  BY DEF Files!Next
<1>2. PICK d \in [Index -> Version], m \in Version, s \in Version :
        /\ \A w \in Index : dist[q][w] <= d[w]
        /\ mark[q] <= m /\ stat[q] <= s
        /\ Files!Promise(d, m, s)
        /\ dist' = [dist EXCEPT ![q] = d]
        /\ mark' = [mark EXCEPT ![q] = m]
        /\ stat' = [stat EXCEPT ![q] = s]
  BY <1>1 DEF Files!Publish, Files!Version, Version
<1>3. /\ dist' \in [Proc -> [Index -> Version]]
      /\ mark' \in [Proc -> Version] /\ stat' \in [Proc -> Version]
  BY <1>2 DEF QueryType
<1>4. FilesKeepPromise'
  BY <1>2 DEF QueryType, FilesKeepPromise, Files!Promise
<1>5. ASSUME NEW p \in Proc
      PROVE  /\ mark[p] <= mark'[p] /\ stat[p] <= stat'[p]
             /\ \A i \in Index : dist[p][i] <= dist'[p][i]
  <2>1. CASE p = q
    BY <1>2, <2>1 DEF QueryType
  <2>2. CASE p # q
    BY <1>2, <2>2, QueryAssumption, LargeIterNat DEF QueryType, Version
  <2>3. QED BY <2>1, <2>2
<1>6. QED BY <1>3, <1>4, <1>5

-----------------------------------------------------------------------------
(***************************************************************************)
(* The numbers of the vertices                                             *)
(***************************************************************************)
LEMMA VertexNat ==
  ASSUME NEW p \in Nat, NEW i \in Nat
  PROVE  p * S + i \in Nat /\ (p + 1) * S = p * S + S
  BY QueryAssumption

\* No vertex is of two partitions.
LEMMA VertexOfOne ==
  ASSUME NEW p \in Proc, NEW i \in Index, NEW q \in Proc, p * S + i \in VerticesOf(q)
  PROVE  q = p
<1> USE QueryAssumption DEF Proc, Index
<1>1. ASSUME NEW a \in Proc, NEW b \in Proc, a < b PROVE a * S + S <= b * S
  <2>1. b = a + 1 + (b - a - 1) /\ b - a - 1 \in Nat /\ a \in Nat
    BY <1>1
  <2>2. PICK d \in Nat : b = a + 1 + d
    BY <2>1
  <2>3. b * S = a * S + S + d * S
    BY <2>1, <2>2
  <2>4. d * S \in Nat /\ a * S \in Nat
    BY <2>1, <2>2
  <2>5. QED BY <2>3, <2>4
<1>2. p * S \in Nat /\ q * S \in Nat /\ i \in 0 .. S - 1 /\ S \in Nat
  OBVIOUS
<1>3. q * S <= p * S + i /\ p * S + i <= q * S + S - 1
  BY <1>2 DEF VerticesOf
<1>4. ~ (p < q)
  BY <1>1, <1>2, <1>3
<1>5. ~ (q < p)
  BY <1>1, <1>2, <1>3
<1>6. QED BY <1>4, <1>5

\* No iteration is as late as the LargeIter a search for the least begins with.
LEMMA VersionsAreSmall ==
  /\ Version \subseteq Nat /\ 0 \in Version
  /\ \A k \in Version : k <= LargeIter
  BY QueryAssumption, LargeIterNat DEF Version

LEMMA SomeIndex == 0 \in Index /\ S \in Nat /\ N \in Nat
  BY QueryAssumption DEF Index

-----------------------------------------------------------------------------
(***************************************************************************)
(* The steps, one by one                                                   *)
(***************************************************************************)
LEMMA InitInv == Init => QueryInv
<1> SUFFICES ASSUME Init PROVE QueryInv
  OBVIOUS
<1>1. QueryType
  BY QueryAssumption, LargeIterNat
  DEF Init, Files!Init, QueryType, VertexState, NoState, NoAnswer, Version
<1>2. FilesKeepPromise
  BY QueryAssumption DEF Init, Files!Init, FilesKeepPromise, Files!Promise
<1>3. /\ StatisticsHold /\ VertexIsFresh /\ LoopsInStep
      /\ FreshAnswer /\ NothingOlder /\ ResultFits /\ EntryOfItsVertex
  BY LargeIterNat
  DEF Init, Counting, Finding, VertexLoads, StatisticsHold, VertexIsFresh,
    LoopsInStep, FreshAnswer, NothingOlder, CountNotOlder, ResultNotOlder,
    IterationSent, ResultFits, EntryOfItsVertex
<1>4. QED BY <1>1, <1>2, <1>3 DEF QueryInv

\* Steps of the query leave the files alone.
LEMMA FilesAsBefore ==
  ASSUME FilesKeepPromise, UNCHANGED fileVars
  PROVE  FilesKeepPromise'
  BY DEF FilesKeepPromise, Files!Promise, fileVars

\* What has been found of the statistics is left alone by all but readStatistics.
LEMMA IterationStays ==
  ASSUME UNCHANGED <<minIter, sure, overtaken>>
  PROVE  \A n : IterationOf(n)' <=> IterationOf(n)
  BY DEF IterationOf

LEMMA ReceiveThresholdInv == QueryInv /\ ReceiveThreshold => QueryInv'
<1> SUFFICES ASSUME QueryInv, ReceiveThreshold PROVE QueryInv'
  OBVIOUS
<1> USE LargeIterNat, SomeIndex, VersionsAreSmall DEF Proc, ReceiveThreshold,
    At, Fresh, NoState, NoAnswer, QueryInv, VertexLoads, Counting, Finding, fileVars,
    cacheVars, loopVars, resultVars, historyVars, statsHistory,
    queryVars, NothingOlder
<1>1. QueryType'
  BY DEF QueryType, VertexState
<1>2. FilesKeepPromise'
  BY FilesAsBefore
<1>3. StatisticsHold'
  BY DEF QueryType, StatisticsHold, CacheFrom
<1>4. VertexIsFresh'
  BY DEF QueryType, VertexIsFresh
<1>5. LoopsInStep'
  BY DEF QueryType, LoopsInStep
<1>6. FreshAnswer' /\ CountNotOlder' /\ IterationSent'
  BY DEF QueryType, FreshAnswer, CountNotOlder, IterationSent,
    StatisticsHold, VertexIsFresh
<1>7. ResultNotOlder' /\ ResultFits' /\ EntryOfItsVertex'
  BY DEF QueryType, ResultNotOlder, ResultFits, EntryOfItsVertex, LoopsInStep,
    StatisticsHold
<1>8. QED BY <1>1, <1>2, <1>3, <1>4, <1>5, <1>6, <1>7 DEF QueryInv

LEMMA CompareIterationInv == QueryInv /\ CompareIteration => QueryInv'
<1> SUFFICES ASSUME QueryInv, CompareIteration PROVE QueryInv'
  OBVIOUS
<1> USE LargeIterNat, SomeIndex, VersionsAreSmall DEF Proc, CompareIteration, At,
    QueryInv, VertexLoads, Counting, Finding, fileVars, cacheVars, loopVars,
    resultVars, historyVars, statsHistory, queryVars, NothingOlder
<1>a. /\ part \in Proc /\ stat[part] \in Version /\ minIter \in Version \cup {LargeIter}
      /\ sure' = [sure EXCEPT ![part] = stat[part]] /\ sure \in [Proc -> Version]
      /\ sure'[part] = stat[part]
      /\ \A p \in Proc : p # part => sure'[p] = sure[p]
  BY DEF QueryType
<1>b. /\ \A p \in Proc : p < part => sure[p] <= stat[p]
      /\ \/ part = 0 /\ minIter = LargeIter
         \/ part > 0 /\ IterationOf(part)
  BY DEF StatisticsHold
<1>d. \/ minIter > stat[part] /\ pc' = "statsMin" /\ part' = part
      \/ ~ (minIter > stat[part]) /\ pc' = "stats" /\ part' = part + 1
  OBVIOUS
<1>e. UNCHANGED <<minIter, stat, type, oldest, overtaken>> /\ pc = "stats"
  OBVIOUS
<1>c. part > 0 => IterationOf(part) /\ (\A n : n = part => IterationOf(n)')
  BY <1>a, <1>b DEF IterationOf
<1>f. oldest = LargeIter
  BY DEF StatisticsHold
<1>1. QueryType'
  BY <1>a DEF QueryType, VertexState
<1>2. FilesKeepPromise'
  BY FilesAsBefore
<1>3. StatisticsHold'
  <2>1. CASE minIter > stat[part] /\ pc' = "statsMin" /\ part' = part
    <3> HIDE DEF CompareIteration, QueryInv
    <3>1. \/ part' = 0 /\ minIter' = LargeIter
          \/ part' > 0 /\ IterationOf(part)'
      BY <1>b, <1>c, <1>e, <2>1
    <3>2. \A p \in Proc : p < part' => sure'[p] <= stat'[p]
      BY <1>a, <1>b, <1>e, <2>1
    <3>3. sure'[part] <= stat'[part] /\ sure'[part] < minIter'
      <4>1. minIter \in Nat /\ stat[part] \in Nat
        BY <1>a
      <4>2. sure'[part] = stat[part] /\ stat' = stat /\ minIter' = minIter
        BY <1>a, <1>e
      <4>3. QED BY <2>1, <4>1, <4>2
    <3>4. QED BY <1>a, <1>e, <1>f, <2>1, <3>1, <3>2, <3>3 DEF StatisticsHold
  <2>2. CASE ~ (minIter > stat[part]) /\ pc' = "stats" /\ part' = part + 1
    <3> HIDE DEF CompareIteration, QueryInv
    <3>0. minIter <= stat[part] /\ stat[part] <= LargeIter /\ minIter \in Nat /\ stat[part] \in Nat
      <4>1. stat[part] <= LargeIter /\ minIter \in Nat /\ stat[part] \in Nat
        BY <1>a
      <4>2. QED BY <2>2, <4>1
    <3>1. IterationOf(part)'
      <4>1. CASE part = 0
        BY <1>a, <1>b, <1>e, <2>2, <3>0, <4>1 DEF IterationOf
      <4>2. CASE part > 0
        BY <1>a, <1>c, <1>e, <2>2, <3>0, <4>2 DEF IterationOf
      <4>3. QED BY <1>a, <4>1, <4>2
    <3>2. \A p \in Proc : p < part' => sure'[p] <= stat'[p]
      BY <1>a, <1>b, <1>e, <2>2, <3>0
    <3>3. QED BY <1>a, <1>e, <1>f, <2>2, <3>1, <3>2 DEF StatisticsHold
  <2>3. QED BY <1>d, <2>1, <2>2
<1>4. VertexIsFresh'
  BY DEF QueryType, VertexIsFresh
<1>5. LoopsInStep'
  BY DEF QueryType, LoopsInStep
<1>6. FreshAnswer' /\ CountNotOlder' /\ IterationSent'
  BY DEF QueryType, FreshAnswer, CountNotOlder, IterationSent,
    StatisticsHold, VertexIsFresh
<1>7. ResultNotOlder' /\ ResultFits' /\ EntryOfItsVertex'
  BY DEF QueryType, ResultNotOlder, ResultFits, EntryOfItsVertex, LoopsInStep,
    StatisticsHold
<1>8. QED BY <1>1, <1>2, <1>3, <1>4, <1>5, <1>6, <1>7 DEF QueryInv

\* What has been kept is the iteration of this partition, which is the last so far.
\* If it is at most one on since it was compared, it is not later than those before.
LEMMA KeepIterationInv == QueryInv /\ KeepIteration => QueryInv'
<1> SUFFICES ASSUME QueryInv, KeepIteration PROVE QueryInv'
  OBVIOUS
<1> USE LargeIterNat, SomeIndex, VersionsAreSmall DEF Proc, KeepIteration, At,
    QueryInv, VertexLoads, Counting, Finding, fileVars, cacheVars, loopVars,
    resultVars, historyVars, statsHistory, queryVars, NothingOlder
<1>a. /\ part \in Proc /\ stat[part] \in Version /\ minIter \in Version \cup {LargeIter}
      /\ sure' = [sure EXCEPT ![part] = stat[part]] /\ sure \in [Proc -> Version]
      /\ sure'[part] = stat[part] /\ minIter' = stat[part]
      /\ \A p \in Proc : p # part => sure'[p] = sure[p]
      /\ sure[part] \in Nat /\ stat[part] \in Nat /\ minIter \in Nat
  BY DEF QueryType, StatisticsHold
<1>b. /\ \A p \in Proc : p < part => sure[p] <= stat[p]
      /\ \/ part = 0 /\ minIter = LargeIter
         \/ part > 0 /\ IterationOf(part)
      /\ sure[part] < minIter
  BY DEF StatisticsHold
<1>c. overtaken' = {} => overtaken = {} /\ stat[part] <= sure[part] + 1
  <2>1. overtaken' = {} => overtaken = {} /\ ~ (stat[part] > sure[part] + 1)
    BY Zenon
  <2>2. QED BY <1>a, <2>1
<1>d. pc' = "stats" /\ part' = part + 1 /\ UNCHANGED <<stat, type, oldest>> /\ pc = "statsMin"
  OBVIOUS
<1>e. oldest = LargeIter
  BY <1>d DEF StatisticsHold
<1>f. sure' \in [Proc -> Version] /\ minIter' \in Version /\ overtaken' \in SUBSET Proc
  <2>1. overtaken \in SUBSET Proc
    BY DEF QueryType
  <2>2. overtaken' \in SUBSET Proc
    BY <1>a, <2>1
  <2>3. QED BY <1>a, <2>2
<1>1. QueryType'
  <2>1. part' \in 0 .. N
    BY <1>a, <1>d
  <2>2. QED BY <1>f, <1>d, <2>1 DEF QueryType
<1>2. FilesKeepPromise'
  BY FilesAsBefore
<1>3. StatisticsHold'
  <2> HIDE DEF KeepIteration, QueryInv
  <2>1. IterationOf(part)'
    <3>1. /\ part \in 0 .. part' - 1 /\ minIter' = sure'[part]
          /\ \A q \in part .. part' - 1 : minIter' <= sure'[q]
      <4>1. \A q \in part .. part' - 1 : q = part
        BY <1>a, <1>d
      <4>2. QED BY <1>a, <1>d, <4>1
    <3>2. ASSUME overtaken' = {}, NEW q \in 0 .. part' - 1 PROVE minIter' <= sure'[q]
      <4>1. CASE q = part
        BY <1>a, <4>1
      <4>2. CASE q # part
        <5>1. q \in Proc /\ q < part /\ q \in 0 .. part - 1 /\ part > 0
          BY <1>a, <1>d, <3>2, <4>2
        <5>2. minIter <= sure[q]
          BY <1>b, <1>c, <3>2, <5>1 DEF IterationOf
        <5>3. stat[part] <= sure[part] + 1
          BY <1>c, <3>2
        <5>4. minIter \in Nat /\ sure[q] \in Nat /\ sure[part] \in Nat /\ stat[part] \in Nat
          BY <1>a, <5>1
        <5>5. sure'[q] = sure[q] /\ minIter' = stat[part] /\ sure[part] < minIter
          BY <1>a, <1>b, <4>2, <5>1
        <5>6. QED BY <5>2, <5>3, <5>4, <5>5
      <4>3. QED BY <4>1, <4>2
    <3>3. QED BY <3>1, <3>2 DEF IterationOf
  <2>2. \A p \in Proc : p < part' => sure'[p] <= stat'[p]
    BY <1>a, <1>b, <1>d
  <2>3. QED BY <1>a, <1>d, <1>e, <2>1, <2>2 DEF StatisticsHold
<1>4. VertexIsFresh'
  BY DEF QueryType, VertexIsFresh
<1>5. LoopsInStep'
  BY DEF QueryType, LoopsInStep
<1>6. FreshAnswer' /\ CountNotOlder' /\ IterationSent'
  BY DEF QueryType, FreshAnswer, CountNotOlder, IterationSent,
    StatisticsHold, VertexIsFresh
<1>7. ResultNotOlder' /\ ResultFits' /\ EntryOfItsVertex'
  BY DEF QueryType, ResultNotOlder, ResultFits, EntryOfItsVertex, LoopsInStep,
    StatisticsHold
<1>8. QED BY <1>1, <1>2, <1>3, <1>4, <1>5, <1>6, <1>7 DEF QueryInv

LEMMA EndOfStatisticsInv == QueryInv /\ EndOfStatistics => QueryInv'
<1> SUFFICES ASSUME QueryInv, EndOfStatistics PROVE QueryInv'
  OBVIOUS
<1> USE LargeIterNat, SomeIndex, VersionsAreSmall DEF Proc, EndOfStatistics, At,
    QueryInv, VertexLoads, Counting, Finding, fileVars, cacheVars, loopVars,
    resultVars, historyVars,
    statsHistory, queryVars, NothingOlder
<1>z. \A n : IterationOf(n)' <=> IterationOf(n)
  BY IterationStays
<1>1. QueryType'
  BY DEF QueryType, VertexState
<1>2. FilesKeepPromise'
  BY FilesAsBefore
<1>3. StatisticsHold'
  <2>1. IterationOf(N)'
    BY <1>z, QueryAssumption DEF StatisticsHold
  <2>2. \A p \in Proc : sure[p] <= stat[p]
    BY QueryAssumption DEF StatisticsHold
  <2>3. QED BY <2>1, <2>2 DEF QueryType, StatisticsHold, CacheFrom
<1>4. VertexIsFresh'
  BY DEF QueryType, VertexIsFresh
<1>5. LoopsInStep'
  BY DEF QueryType, LoopsInStep
<1>6. FreshAnswer' /\ CountNotOlder' /\ IterationSent'
  BY <1>z, QueryAssumption DEF QueryType, FreshAnswer, CountNotOlder, IterationSent,
    StatisticsHold, VertexIsFresh
<1>7. ResultNotOlder' /\ ResultFits' /\ EntryOfItsVertex'
  BY DEF QueryType, ResultNotOlder, ResultFits, EntryOfItsVertex, LoopsInStep,
    StatisticsHold
<1>8. QED BY <1>1, <1>2, <1>3, <1>4, <1>5, <1>6, <1>7 DEF QueryInv

LEMMA EndOfPartitionInv == QueryInv /\ EndOfPartition => QueryInv'
<1> SUFFICES ASSUME QueryInv, EndOfPartition PROVE QueryInv'
  OBVIOUS
<1> USE LargeIterNat, SomeIndex, VersionsAreSmall DEF Proc, EndOfPartition, At,
    QueryInv, VertexLoads, Counting, Finding, fileVars, cacheVars, loopVars,
    resultVars, historyVars,
    statsHistory, queryVars, NothingOlder
<1>z. \A n : IterationOf(n)' <=> IterationOf(n)
  BY IterationStays
<1>1. QueryType'
  <2>1. part + 1 \in 0 .. N
    BY DEF LoopsInStep
  <2>2. QED BY <2>1 DEF QueryType
<1>2. FilesKeepPromise'
  BY FilesAsBefore
<1>3. StatisticsHold'
  BY <1>z DEF QueryType, StatisticsHold, CacheFrom
<1>4. VertexIsFresh'
  BY DEF QueryType, VertexIsFresh
<1>5. LoopsInStep'
  BY DEF QueryType, LoopsInStep
<1>6. FreshAnswer' /\ CountNotOlder' /\ IterationSent'
  BY <1>z DEF QueryType, FreshAnswer, CountNotOlder, IterationSent,
    StatisticsHold, VertexIsFresh
<1>7. ResultNotOlder' /\ ResultFits' /\ EntryOfItsVertex'
  BY DEF QueryType, ResultNotOlder, ResultFits, EntryOfItsVertex, LoopsInStep,
    StatisticsHold
<1>8. QED BY <1>1, <1>2, <1>3, <1>4, <1>5, <1>6, <1>7 DEF QueryInv

LEMMA EndOfCountInv == QueryInv /\ EndOfCount => QueryInv'
<1> SUFFICES ASSUME QueryInv, EndOfCount PROVE QueryInv'
  OBVIOUS
<1> USE LargeIterNat, SomeIndex, VersionsAreSmall DEF Proc, EndOfCount, At,
    QueryInv, VertexLoads, Counting, Finding, fileVars, cacheVars, loopVars,
    resultVars, historyVars,
    statsHistory, queryVars, NothingOlder
<1>z. \A n : IterationOf(n)' <=> IterationOf(n)
  BY IterationStays
<1>1. QueryType'
  BY DEF QueryType, VertexState
<1>2. FilesKeepPromise'
  BY FilesAsBefore
<1>3. StatisticsHold'
  BY <1>z DEF QueryType, StatisticsHold, CacheFrom
<1>4. VertexIsFresh'
  BY DEF QueryType, VertexIsFresh
<1>5. LoopsInStep'
  BY DEF QueryType, LoopsInStep
<1>6. FreshAnswer' /\ CountNotOlder' /\ IterationSent'
  BY <1>z DEF QueryType, FreshAnswer, CountNotOlder, IterationSent,
    StatisticsHold, VertexIsFresh
<1>7. ResultNotOlder' /\ ResultFits' /\ EntryOfItsVertex'
  BY DEF QueryType, ResultNotOlder, ResultFits, EntryOfItsVertex, LoopsInStep,
    StatisticsHold
<1>8. QED BY <1>1, <1>2, <1>3, <1>4, <1>5, <1>6, <1>7 DEF QueryInv

LEMMA EndOfFindInv == QueryInv /\ EndOfFind => QueryInv'
<1> SUFFICES ASSUME QueryInv, EndOfFind PROVE QueryInv'
  OBVIOUS
<1> USE LargeIterNat, SomeIndex, VersionsAreSmall DEF Proc, EndOfFind, At, Full,
    QueryInv, VertexLoads, Counting, Finding, fileVars, cacheVars, loopVars,
    resultVars, historyVars,
    statsHistory, queryVars, NothingOlder
<1>z. \A n : IterationOf(n)' <=> IterationOf(n)
  BY IterationStays
<1>1. QueryType'
  BY DEF QueryType, VertexState, LoopsInStep
<1>2. FilesKeepPromise'
  BY FilesAsBefore
<1>3. StatisticsHold'
  BY <1>z DEF QueryType, StatisticsHold, CacheFrom
<1>4. VertexIsFresh'
  BY DEF QueryType, VertexIsFresh
<1>5. LoopsInStep'
  BY VertexNat DEF QueryType, LoopsInStep
<1>6. FreshAnswer' /\ CountNotOlder' /\ IterationSent'
  BY <1>z DEF QueryType, FreshAnswer, CountNotOlder, IterationSent,
    StatisticsHold, VertexIsFresh
<1>7. ResultNotOlder' /\ ResultFits' /\ EntryOfItsVertex'
  BY DEF QueryType, ResultNotOlder, ResultFits, EntryOfItsVertex, LoopsInStep,
    StatisticsHold
<1>8. QED BY <1>1, <1>2, <1>3, <1>4, <1>5, <1>6, <1>7 DEF QueryInv

LEMMA SendResultInv == QueryInv /\ SendResult => QueryInv'
<1> SUFFICES ASSUME QueryInv, SendResult PROVE QueryInv'
  OBVIOUS
<1> USE LargeIterNat, SomeIndex, VersionsAreSmall DEF Proc, SendResult, At,
    QueryInv, VertexLoads, Counting, Finding, fileVars, cacheVars, loopVars,
    resultVars, historyVars,
    statsHistory, queryVars, NothingOlder
<1>z. \A n : IterationOf(n)' <=> IterationOf(n)
  BY IterationStays
<1>1. QueryType'
  BY DEF QueryType, VertexState
<1>2. FilesKeepPromise'
  BY FilesAsBefore
<1>3. StatisticsHold'
  BY <1>z DEF QueryType, StatisticsHold, CacheFrom
<1>4. VertexIsFresh'
  BY DEF QueryType, VertexIsFresh
<1>5. LoopsInStep'
  BY DEF QueryType, LoopsInStep
<1>6. FreshAnswer' /\ CountNotOlder' /\ IterationSent'
  BY <1>z DEF QueryType, FreshAnswer, CountNotOlder, IterationSent,
    StatisticsHold, VertexIsFresh
<1>7. ResultNotOlder' /\ ResultFits' /\ EntryOfItsVertex'
  BY DEF QueryType, ResultNotOlder, ResultFits, EntryOfItsVertex, LoopsInStep,
    StatisticsHold
<1>8. QED BY <1>1, <1>2, <1>3, <1>4, <1>5, <1>6, <1>7 DEF QueryInv

LEMMA ReceiveVidInv == QueryInv /\ ReceiveVid => QueryInv'
<1> SUFFICES ASSUME QueryInv, ReceiveVid PROVE QueryInv'
  OBVIOUS
<1> USE LargeIterNat, SomeIndex, VersionsAreSmall DEF Proc, ReceiveVid, At,
    Fresh, NoState, Index, QueryInv, VertexLoads, Counting, Finding, fileVars,
    cacheVars, loopVars, resultVars, historyVars, statsHistory,
    queryVars, NothingOlder
<1>a. PICK p \in Proc, i \in Index :
        /\ part' = p /\ index' = i
        /\ entry' = [NoState EXCEPT !.vid = p * S + i]
        /\ asOf' = [p_0 |-> dist[p][i], iteration |-> mark[p]]
        /\ Invalidate(p)
  OBVIOUS
<1>b. /\ cachedDist' \in [Proc -> [Index -> Version \cup {None}]]
      /\ cachedMark' \in [Proc -> Version \cup {None}]
      /\ cachedDist'[part'][index'] = None /\ cachedMark'[part'] = None
  BY <1>a, InvalidateFrom
<1>c. p * S + i \in Nat
  BY <1>a, VertexNat DEF Index
<1>d. dist[p][i] \in Version /\ mark[p] \in Version
  <2>1. dist[p] \in [Index -> Version]
    BY DEF QueryType
  <2>2. QED BY <2>1 DEF QueryType
<1>e. asOf'.p_0 = dist[p][i] /\ asOf'.iteration = mark[p]
  BY <1>a
<1>1. QueryType'
  <2>1. entry' \in VertexState
    BY <1>a, <1>c DEF VertexState
  <2>2. asOf' \in [p_0 : Version, iteration : Version]
    BY <1>a, <1>d
  <2>3. part' \in 0 .. N /\ index' \in 0 .. S
    BY <1>a
  <2>4. /\ pc' = "vidProb" /\ type' = "vid"
        /\ counter' = 0 /\ size' = 0 /\ vid' = 0 /\ result' = <<>>
        /\ minIter' = LargeIter /\ oldest' = LargeIter
        /\ dist' = dist /\ mark' = mark /\ stat' = stat
    OBVIOUS
  <2>5. /\ counter' \in Nat /\ size' \in Nat /\ vid' \in Nat
        /\ result' \in Seq(VertexState)
        /\ minIter' \in Version \cup {LargeIter} /\ oldest' \in Version \cup {LargeIter}
    BY <2>4
  <2>6. /\ dist' \in [Proc -> [Index -> Version]]
        /\ mark' \in [Proc -> Version] /\ stat' \in [Proc -> Version]
    BY <2>4 DEF QueryType
  <2>7. QED BY <1>b, <2>1, <2>2, <2>3, <2>4, <2>5, <2>6 DEF QueryType
<1>2. FilesKeepPromise'
  BY FilesAsBefore
<1>3. StatisticsHold'
  BY <1>a DEF QueryType, StatisticsHold, LoopsInStep
<1>4. VertexIsFresh'
  <2>1. /\ dist'[part'][index'] >= asOf'.p_0
        /\ mark'[part'] >= asOf'.iteration
    BY <1>a, <1>d, <1>e
  <2>2. QED BY <1>a, <1>b, <2>1 DEF VertexIsFresh
<1>5. LoopsInStep'
  BY <1>a DEF QueryType, LoopsInStep
<1>6. FreshAnswer' /\ CountNotOlder' /\ IterationSent'
  BY <1>a DEF QueryType, FreshAnswer, CountNotOlder, IterationSent,
    StatisticsHold, VertexIsFresh
<1>7. ResultNotOlder' /\ ResultFits' /\ EntryOfItsVertex'
  BY <1>a DEF QueryType, ResultNotOlder, ResultFits, EntryOfItsVertex, LoopsInStep,
    StatisticsHold
<1>8. QED BY <1>1, <1>2, <1>3, <1>4, <1>5, <1>6, <1>7

LEMMA ReadVidProbInv == QueryInv /\ ReadVidProb => QueryInv'
<1> SUFFICES ASSUME QueryInv, ReadVidProb PROVE QueryInv'
  OBVIOUS
<1> USE LargeIterNat, SomeIndex, VersionsAreSmall DEF Proc, ReadVidProb, At,
    QueryInv, VertexLoads, Counting, Finding, fileVars, cacheVars, loopVars,
    resultVars, historyVars,
    statsHistory, queryVars, NothingOlder
<1>a. part \in Proc /\ index \in Index
  BY DEF VertexIsFresh
<1>b. Keeps(part, index)
  BY DEF Keeps
<1>c. /\ cachedDist' \in [Proc -> [Index -> Version \cup {None}]]
      /\ cachedMark' \in [Proc -> Version \cup {None}]
      /\ LoadDist(part, index) \in Version /\ LoadMark(part) \in Version
  BY <1>a, <1>b, KeepType, LoadType
<1>d. /\ cachedDist'[part][index] = None \/ cachedDist'[part][index] >= asOf.p_0
      /\ cachedMark'[part] = None \/ cachedMark'[part] >= asOf.iteration
      /\ LoadDist(part, index) >= asOf.p_0
      /\ LoadMark(part) >= asOf.iteration
  BY <1>a, <1>b, KeepVertex
<1>z. \A n : IterationOf(n)' <=> IterationOf(n)
  BY IterationStays
<1>1. QueryType'
  BY <1>c DEF QueryType, VertexState, LoopsInStep
<1>2. FilesKeepPromise'
  BY FilesAsBefore
<1>3. StatisticsHold'
  BY <1>z, <1>a DEF QueryType, StatisticsHold, LoopsInStep
<1>4. VertexIsFresh'
  BY <1>a, <1>c, <1>d DEF QueryType, VertexIsFresh
<1>5. LoopsInStep'
  BY <1>a DEF QueryType, LoopsInStep
<1>6. FreshAnswer' /\ CountNotOlder' /\ IterationSent'
  BY <1>z, <1>a, <1>c, <1>d DEF QueryType, FreshAnswer, CountNotOlder, IterationSent,
    StatisticsHold, VertexIsFresh
<1>7. ResultNotOlder' /\ ResultFits' /\ EntryOfItsVertex'
  BY <1>a DEF QueryType, ResultNotOlder, ResultFits, EntryOfItsVertex, LoopsInStep,
    StatisticsHold
<1>8. QED BY <1>1, <1>2, <1>3, <1>4, <1>5, <1>6, <1>7

LEMMA ReadVidMarkInv == QueryInv /\ ReadVidMark => QueryInv'
<1> SUFFICES ASSUME QueryInv, ReadVidMark PROVE QueryInv'
  OBVIOUS
<1> USE LargeIterNat, SomeIndex, VersionsAreSmall DEF Proc, ReadVidMark, At,
    QueryInv, VertexLoads, Counting, Finding, fileVars, cacheVars, loopVars,
    resultVars, historyVars,
    statsHistory, queryVars, NothingOlder
<1>a. part \in Proc /\ index \in Index
  BY DEF VertexIsFresh
<1>b. Keeps(part, index)
  BY DEF Keeps
<1>c. /\ cachedDist' \in [Proc -> [Index -> Version \cup {None}]]
      /\ cachedMark' \in [Proc -> Version \cup {None}]
      /\ LoadDist(part, index) \in Version /\ LoadMark(part) \in Version
  BY <1>a, <1>b, KeepType, LoadType
<1>d. /\ cachedDist'[part][index] = None \/ cachedDist'[part][index] >= asOf.p_0
      /\ cachedMark'[part] = None \/ cachedMark'[part] >= asOf.iteration
      /\ LoadDist(part, index) >= asOf.p_0
      /\ LoadMark(part) >= asOf.iteration
  BY <1>a, <1>b, KeepVertex
<1>z. \A n : IterationOf(n)' <=> IterationOf(n)
  BY IterationStays
<1>1. QueryType'
  BY <1>c DEF QueryType, VertexState, LoopsInStep
<1>2. FilesKeepPromise'
  BY FilesAsBefore
<1>3. StatisticsHold'
  BY <1>z, <1>a DEF QueryType, StatisticsHold, LoopsInStep
<1>4. VertexIsFresh'
  BY <1>a, <1>c, <1>d DEF QueryType, VertexIsFresh
<1>5. LoopsInStep'
  BY <1>a DEF QueryType, LoopsInStep
<1>6. FreshAnswer' /\ CountNotOlder' /\ IterationSent'
  BY <1>z, <1>a, <1>c, <1>d DEF QueryType, FreshAnswer, CountNotOlder, IterationSent,
    StatisticsHold, VertexIsFresh
<1>7. ResultNotOlder' /\ ResultFits' /\ EntryOfItsVertex'
  BY <1>a DEF QueryType, ResultNotOlder, ResultFits, EntryOfItsVertex, LoopsInStep,
    StatisticsHold
<1>8. QED BY <1>1, <1>2, <1>3, <1>4, <1>5, <1>6, <1>7

LEMMA ReadVidStateInv == QueryInv /\ ReadVidState => QueryInv'
<1> SUFFICES ASSUME QueryInv, ReadVidState PROVE QueryInv'
  OBVIOUS
<1> USE LargeIterNat, SomeIndex, VersionsAreSmall DEF Proc, ReadVidState, At,
    QueryInv, VertexLoads, Counting, Finding, fileVars, cacheVars, loopVars,
    resultVars, historyVars,
    statsHistory, queryVars, NothingOlder
<1>a. part \in Proc /\ index \in Index
  BY DEF VertexIsFresh
<1>b. Keeps(part, index)
  BY DEF Keeps
<1>c. /\ cachedDist' \in [Proc -> [Index -> Version \cup {None}]]
      /\ cachedMark' \in [Proc -> Version \cup {None}]
      /\ LoadDist(part, index) \in Version /\ LoadMark(part) \in Version
  BY <1>a, <1>b, KeepType, LoadType
<1>d. /\ cachedDist'[part][index] = None \/ cachedDist'[part][index] >= asOf.p_0
      /\ cachedMark'[part] = None \/ cachedMark'[part] >= asOf.iteration
      /\ LoadDist(part, index) >= asOf.p_0
      /\ LoadMark(part) >= asOf.iteration
  BY <1>a, <1>b, KeepVertex
<1>z. \A n : IterationOf(n)' <=> IterationOf(n)
  BY IterationStays
<1>1. QueryType'
  <2>1. entry' \in VertexState
    BY <1>c DEF QueryType, VertexState
  <2>2. part' \in 0 .. N /\ index' \in 0 .. S
    OBVIOUS
  <2>3. QED BY <1>c, <2>1, <2>2 DEF QueryType
<1>2. FilesKeepPromise'
  BY FilesAsBefore
<1>3. StatisticsHold'
  BY <1>z, <1>a DEF QueryType, StatisticsHold, LoopsInStep
<1>4. VertexIsFresh'
  BY <1>a, <1>c, <1>d DEF QueryType, VertexIsFresh
<1>5. LoopsInStep'
  BY <1>a DEF QueryType, LoopsInStep
<1>6. FreshAnswer' /\ CountNotOlder' /\ IterationSent'
  BY <1>z, <1>a, <1>c, <1>d DEF QueryType, FreshAnswer, CountNotOlder, IterationSent,
    StatisticsHold, VertexIsFresh
<1>7. ResultNotOlder' /\ ResultFits' /\ EntryOfItsVertex'
  BY <1>a DEF QueryType, ResultNotOlder, ResultFits, EntryOfItsVertex, LoopsInStep,
    StatisticsHold
<1>8. QED BY <1>1, <1>2, <1>3, <1>4, <1>5, <1>6, <1>7

LEMMA CountPartitionInv == QueryInv /\ CountPartition => QueryInv'
<1> SUFFICES ASSUME QueryInv, CountPartition PROVE QueryInv'
  OBVIOUS
<1> USE LargeIterNat, SomeIndex, VersionsAreSmall DEF Proc, CountPartition, At,
    QueryInv, VertexLoads, Counting, Finding, fileVars, cacheVars, loopVars,
    resultVars, historyVars,
    statsHistory, queryVars, NothingOlder
<1>a. part \in Proc /\ Invalidate(part)
  BY DEF QueryType
<1>b. /\ cachedDist' \in [Proc -> [Index -> Version \cup {None}]]
      /\ cachedMark' \in [Proc -> Version \cup {None}]
  BY <1>a, InvalidateFrom
<1>c. /\ \A i \in Index : cachedDist'[part][i] = None
      /\ cachedMark'[part] = None
  BY <1>a, InvalidateFrom
<1>d. \A q \in Proc : q <= part => CacheFrom(q, sure[q])'
  <2>1. CacheFrom(part, sure[part])'
    BY <1>c DEF CacheFrom
  <2>2. ASSUME NEW q \in Proc, q < part PROVE CacheFrom(q, sure[q])'
    <3>1. CacheFrom(q, sure[q])
      BY <2>2 DEF StatisticsHold
    <3>2. cachedDist'[q] = cachedDist[q] /\ cachedMark'[q] = cachedMark[q]
      BY <1>a, <2>2
      DEF QueryType, Invalidate, DistAfterInvalidate, MarkAfterInvalidate
    <3>3. QED BY <3>1, <3>2 DEF CacheFrom
  <2>3. QED BY <1>a, <2>1, <2>2
<1>z. \A n : IterationOf(n)' <=> IterationOf(n)
  BY IterationStays
<1>1. QueryType'
  BY <1>b DEF QueryType, VertexState, LoopsInStep
<1>2. FilesKeepPromise'
  BY FilesAsBefore
<1>3. StatisticsHold'
  BY <1>z, <1>a, <1>d DEF QueryType, StatisticsHold, LoopsInStep
<1>4. VertexIsFresh'
  BY <1>a DEF QueryType, VertexIsFresh
<1>5. LoopsInStep'
  BY <1>a DEF QueryType, LoopsInStep
<1>6. FreshAnswer' /\ CountNotOlder' /\ IterationSent'
  <2>1. FreshAnswer'
    BY DEF FreshAnswer
  <2>2. CountNotOlder'
    <3>1. sure[part] <= oldest
      <4>1. oldest = LargeIter
        BY DEF StatisticsHold
      <4>2. sure[part] \in Version
        BY <1>a DEF QueryType
      <4>3. QED BY <4>1, <4>2, VersionsAreSmall
    <3>2. UNCHANGED <<sure, part, oldest>>
      OBVIOUS
    <3>3. QED BY <3>1, <3>2 DEF CountNotOlder
  <2>3. IterationSent'
    BY <1>z DEF IterationSent, StatisticsHold
  <2>4. QED BY <2>1, <2>2, <2>3
<1>7. ResultNotOlder' /\ ResultFits' /\ EntryOfItsVertex'
  BY <1>a DEF QueryType, ResultNotOlder, ResultFits, EntryOfItsVertex, LoopsInStep,
    StatisticsHold
<1>8. QED BY <1>1, <1>2, <1>3, <1>4, <1>5, <1>6, <1>7

LEMMA CountNextInv == QueryInv /\ CountNext => QueryInv'
<1> SUFFICES ASSUME QueryInv, CountNext PROVE QueryInv'
  OBVIOUS
<1> USE LargeIterNat, SomeIndex, VersionsAreSmall DEF Proc, CountNext, At,
    QueryInv, VertexLoads, Counting, Finding, fileVars, cacheVars, loopVars,
    resultVars, historyVars,
    statsHistory, queryVars, NothingOlder
<1>a. part \in Proc /\ index \in Index
  BY DEF LoopsInStep, QueryType, Index
<1>b. Keeps(part, index)
  BY DEF Keeps
<1>c. /\ cachedDist' \in [Proc -> [Index -> Version \cup {None}]]
      /\ cachedMark' \in [Proc -> Version \cup {None}]
      /\ LoadDist(part, index) \in Version /\ LoadMark(part) \in Version
  BY <1>a, <1>b, KeepType, LoadType
<1>d. \A q \in Proc : sure[q] <= stat[q] /\ CacheFrom(q, sure[q]) => CacheFrom(q, sure[q])'
  <2>1. \A q \in Proc : sure[q] \in Version
    BY DEF QueryType
  <2>2. QED BY <1>a, <1>b, <2>1, KeepFrom
<1>e. sure[part] <= LoadDist(part, index) /\ sure[part] <= LoadMark(part)
  <2>1. /\ sure[part] \in Version
        /\ CacheFrom(part, sure[part]) /\ sure[part] <= stat[part]
    BY <1>a DEF QueryType, StatisticsHold
  <2>2. QED BY <1>a, <2>1, LoadFrom
<1>z. \A n : IterationOf(n)' <=> IterationOf(n)
  BY IterationStays
<1>1. QueryType'
  <2>1. counter' \in Nat /\ index' \in 0 .. S
    BY DEF QueryType
  <2>2. oldest' \in Version \cup {LargeIter}
    BY <1>c DEF QueryType
  <2>3. QED BY <1>c, <2>1, <2>2 DEF QueryType
<1>2. FilesKeepPromise'
  BY FilesAsBefore
<1>3. StatisticsHold'
  BY <1>z, <1>a, <1>c, <1>d, <1>e DEF QueryType, StatisticsHold, LoopsInStep
<1>4. VertexIsFresh'
  BY <1>a DEF QueryType, VertexIsFresh
<1>5. LoopsInStep'
  BY <1>a DEF QueryType, LoopsInStep
<1>6. FreshAnswer' /\ CountNotOlder' /\ IterationSent'
  BY <1>z, <1>a, <1>c, <1>e DEF QueryType, FreshAnswer, CountNotOlder, IterationSent,
    StatisticsHold, VertexIsFresh
<1>7. ResultNotOlder' /\ ResultFits' /\ EntryOfItsVertex'
  BY <1>a DEF QueryType, ResultNotOlder, ResultFits, EntryOfItsVertex, LoopsInStep,
    StatisticsHold
<1>8. QED BY <1>1, <1>2, <1>3, <1>4, <1>5, <1>6, <1>7

LEMMA FindPartitionInv == QueryInv /\ FindPartition => QueryInv'
<1> SUFFICES ASSUME QueryInv, FindPartition PROVE QueryInv'
  OBVIOUS
<1> USE LargeIterNat, SomeIndex, VersionsAreSmall DEF Proc, FindPartition, At,
    QueryInv, VertexLoads, Counting, Finding, fileVars, cacheVars, loopVars,
    resultVars, historyVars,
    statsHistory, queryVars, NothingOlder
<1>a. part \in Proc /\ 0 \in Index
  BY DEF LoopsInStep, QueryType, Index
<1>b. Keeps(part, 0)
  BY DEF Keeps
<1>c. /\ cachedDist' \in [Proc -> [Index -> Version \cup {None}]]
      /\ cachedMark' \in [Proc -> Version \cup {None}]
      /\ LoadDist(part, 0) \in Version /\ LoadMark(part) \in Version
  BY <1>a, <1>b, KeepType, LoadType
<1>d. \A q \in Proc : sure[q] <= stat[q] /\ CacheFrom(q, sure[q]) => CacheFrom(q, sure[q])'
  <2>1. \A q \in Proc : sure[q] \in Version
    BY DEF QueryType
  <2>2. QED BY <1>a, <1>b, <2>1, KeepFrom
<1>e. sure[part] <= LoadDist(part, 0) /\ sure[part] <= LoadMark(part)
  <2>1. /\ sure[part] \in Version
        /\ CacheFrom(part, sure[part]) /\ sure[part] <= stat[part]
    BY <1>a DEF QueryType, StatisticsHold
  <2>2. QED BY <1>a, <2>1, LoadFrom
<1>z. \A n : IterationOf(n)' <=> IterationOf(n)
  BY IterationStays
<1>1. QueryType'
  BY <1>a, <1>c DEF QueryType, VertexState, LoopsInStep
<1>2. FilesKeepPromise'
  BY FilesAsBefore
<1>3. StatisticsHold'
  BY <1>z, <1>a, <1>c, <1>d, <1>e DEF QueryType, StatisticsHold, LoopsInStep
<1>4. VertexIsFresh'
  BY <1>a DEF QueryType, VertexIsFresh
<1>5. LoopsInStep'
  BY <1>a DEF QueryType, LoopsInStep
<1>6. FreshAnswer' /\ CountNotOlder' /\ IterationSent'
  BY <1>z, <1>a DEF QueryType, FreshAnswer, CountNotOlder, IterationSent,
    StatisticsHold, VertexIsFresh
<1>7. ResultNotOlder' /\ ResultFits' /\ EntryOfItsVertex'
  BY <1>a DEF QueryType, ResultNotOlder, ResultFits, EntryOfItsVertex, LoopsInStep,
    StatisticsHold
<1>8. QED BY <1>1, <1>2, <1>3, <1>4, <1>5, <1>6, <1>7

LEMMA FindNextInv == QueryInv /\ FindNext => QueryInv'
<1> SUFFICES ASSUME QueryInv, FindNext PROVE QueryInv'
  OBVIOUS
<1> USE LargeIterNat, SomeIndex, VersionsAreSmall DEF Proc, FindNext, At, Full,
    QueryInv, VertexLoads, Counting, Finding, fileVars, cacheVars, loopVars,
    resultVars, historyVars,
    statsHistory, queryVars, NothingOlder
<1>a. part \in Proc /\ index \in Index
  BY DEF LoopsInStep, QueryType, Index
<1>b. Keeps(part, index)
  BY DEF Keeps
<1>c. /\ cachedDist' \in [Proc -> [Index -> Version \cup {None}]]
      /\ cachedMark' \in [Proc -> Version \cup {None}]
      /\ LoadDist(part, index) \in Version /\ LoadMark(part) \in Version
  BY <1>a, <1>b, KeepType, LoadType
<1>d. \A q \in Proc : sure[q] <= stat[q] /\ CacheFrom(q, sure[q]) => CacheFrom(q, sure[q])'
  <2>1. \A q \in Proc : sure[q] \in Version
    BY DEF QueryType
  <2>2. QED BY <1>a, <1>b, <2>1, KeepFrom
<1>e. sure[part] <= LoadDist(part, index) /\ sure[part] <= LoadMark(part)
  <2>1. /\ sure[part] \in Version
        /\ CacheFrom(part, sure[part]) /\ sure[part] <= stat[part]
    BY <1>a DEF QueryType, StatisticsHold
  <2>2. QED BY <1>a, <2>1, LoadFrom
<1>z. \A n : IterationOf(n)' <=> IterationOf(n)
  BY IterationStays
<1>1. QueryType'
  <2>1. index' \in 0 .. S /\ vid' \in Nat
    BY DEF QueryType
  <2>2. pc' \in {"findNext", "findProb"}
    OBVIOUS
  <2>3. QED BY <1>c, <2>1, <2>2 DEF QueryType
<1>2. FilesKeepPromise'
  BY FilesAsBefore
<1>3. StatisticsHold'
  BY <1>z, <1>a, <1>c, <1>d, <1>e DEF QueryType, StatisticsHold, LoopsInStep
<1>4. VertexIsFresh'
  BY <1>a DEF QueryType, VertexIsFresh
<1>5. LoopsInStep'
  <2>1. CASE pc' = "findProb" /\ UNCHANGED <<index, vid>>
    <3>1. counter < size /\ part' = part /\ index' = index /\ UNCHANGED resultVars
      BY <2>1 DEF QueryType
    <3>2. Len(result) = counter /\ counter <= size
      BY DEF LoopsInStep
    <3>3. \A j \in 1 .. Len(result) : result[j].vid < vid
      BY DEF LoopsInStep
    <3>4. QED BY <1>a, <2>1, <3>1, <3>2, <3>3 DEF LoopsInStep
  <2>2. CASE index' = index + 1 /\ vid' = vid + 1 /\ UNCHANGED pc
    <3>1. counter < size /\ vid = part * S + index
      BY DEF QueryType, LoopsInStep
    <3>2. part * S \in Nat /\ index \in Nat
      BY <1>a, VertexNat DEF Index
    <3>3. vid' = part' * S + index'
      BY <2>2, <3>1, <3>2
    <3>4. \A k \in 1 .. Len(result') : result'[k].vid < vid'
      <4>1. vid \in Nat /\ result' = result /\ result \in Seq(VertexState)
        BY DEF QueryType
      <4>2. ASSUME NEW k \in 1 .. Len(result) PROVE result[k].vid < vid + 1
        <5>1. result[k] \in VertexState
          BY <4>1
        <5>2. result[k].vid \in Nat
          BY <5>1 DEF VertexState
        <5>3. result[k].vid < vid
          BY DEF LoopsInStep
        <5>4. QED BY <4>1, <5>2, <5>3
      <4>3. QED BY <2>2, <4>1, <4>2
    <3>5. QED BY <1>a, <2>2, <3>3, <3>4 DEF QueryType, LoopsInStep
  <2>3. QED BY <2>1, <2>2
<1>6. FreshAnswer' /\ CountNotOlder' /\ IterationSent'
  BY <1>z, <1>a DEF QueryType, FreshAnswer, CountNotOlder, IterationSent,
    StatisticsHold, VertexIsFresh
<1>7. ResultNotOlder' /\ ResultFits' /\ EntryOfItsVertex'
  <2>1. CASE pc' = "findProb" /\ UNCHANGED <<index, vid>>
    <3>1. ResultNotOlder'
      BY <2>1 DEF ResultNotOlder
    <3>2. ResultFits'
      BY <2>1 DEF ResultFits
    <3>3. EntryOfItsVertex'
      BY <1>a, <2>1 DEF QueryType, EntryOfItsVertex, LoopsInStep
    <3>4. QED BY <3>1, <3>2, <3>3
  <2>2. CASE index' = index + 1 /\ vid' = vid + 1 /\ UNCHANGED pc
    <3>1. ResultNotOlder'
      BY <2>2 DEF ResultNotOlder
    <3>2. ResultFits'
      BY <2>2 DEF ResultFits
    <3>3. EntryOfItsVertex'
      BY <1>a, <2>2 DEF QueryType, EntryOfItsVertex, LoopsInStep
    <3>4. QED BY <3>1, <3>2, <3>3
  <2>3. QED BY <2>1, <2>2
<1>8. QED BY <1>1, <1>2, <1>3, <1>4, <1>5, <1>6, <1>7

LEMMA FindProbInv == QueryInv /\ FindProb => QueryInv'
<1> SUFFICES ASSUME QueryInv, FindProb PROVE QueryInv'
  OBVIOUS
<1> USE LargeIterNat, SomeIndex, VersionsAreSmall DEF Proc, FindProb, At,
    QueryInv, VertexLoads, Counting, Finding, fileVars, cacheVars, loopVars,
    resultVars, historyVars,
    statsHistory, queryVars, NothingOlder
<1>a. part \in Proc /\ index \in Index
  BY DEF LoopsInStep, QueryType
<1>b. Keeps(part, index)
  BY DEF Keeps
<1>c. /\ cachedDist' \in [Proc -> [Index -> Version \cup {None}]]
      /\ cachedMark' \in [Proc -> Version \cup {None}]
      /\ LoadDist(part, index) \in Version /\ LoadMark(part) \in Version
  BY <1>a, <1>b, KeepType, LoadType
<1>d. \A q \in Proc : sure[q] <= stat[q] /\ CacheFrom(q, sure[q]) => CacheFrom(q, sure[q])'
  <2>1. \A q \in Proc : sure[q] \in Version
    BY DEF QueryType
  <2>2. QED BY <1>a, <1>b, <2>1, KeepFrom
<1>e. sure[part] <= LoadDist(part, index) /\ sure[part] <= LoadMark(part)
  <2>1. /\ sure[part] \in Version
        /\ CacheFrom(part, sure[part]) /\ sure[part] <= stat[part]
    BY <1>a DEF QueryType, StatisticsHold
  <2>2. QED BY <1>a, <2>1, LoadFrom
<1>z. \A n : IterationOf(n)' <=> IterationOf(n)
  BY IterationStays
<1>1. QueryType'
  <2>1. entry' \in VertexState
    BY <1>c DEF QueryType, VertexState
  <2>2. QED BY <1>c, <2>1 DEF QueryType
<1>2. FilesKeepPromise'
  BY FilesAsBefore
<1>3. StatisticsHold'
  <2>1. entry'.p_0 = LoadDist(part, index) /\ entry'.iteration = entry.iteration
    BY DEF QueryType, VertexState
  <2>2. QED
    BY <1>z, <1>a, <1>c, <1>d, <1>e, <2>1 DEF QueryType, StatisticsHold, LoopsInStep
<1>4. VertexIsFresh'
  BY <1>a DEF QueryType, VertexIsFresh
<1>5. LoopsInStep'
  BY <1>a DEF QueryType, LoopsInStep
<1>6. FreshAnswer' /\ CountNotOlder' /\ IterationSent'
  BY <1>z, <1>a DEF QueryType, FreshAnswer, CountNotOlder, IterationSent,
    StatisticsHold, VertexIsFresh
<1>7. ResultNotOlder' /\ ResultFits' /\ EntryOfItsVertex'
  BY <1>a DEF QueryType, VertexState, ResultNotOlder, ResultFits, EntryOfItsVertex
<1>8. QED BY <1>1, <1>2, <1>3, <1>4, <1>5, <1>6, <1>7

LEMMA FindStateInv == QueryInv /\ FindState => QueryInv'
<1> SUFFICES ASSUME QueryInv, FindState PROVE QueryInv'
  OBVIOUS
<1> USE LargeIterNat, SomeIndex, VersionsAreSmall DEF Proc, FindState, At,
    NextVid, QueryInv, VertexLoads, Counting, Finding, fileVars, cacheVars,
    loopVars, resultVars, historyVars,
    statsHistory, queryVars, NothingOlder
<1>a. part \in Proc /\ index \in Index
  BY DEF LoopsInStep, QueryType
<1>b. Keeps(part, index)
  BY DEF Keeps
<1>c. /\ cachedDist' \in [Proc -> [Index -> Version \cup {None}]]
      /\ cachedMark' \in [Proc -> Version \cup {None}]
      /\ LoadDist(part, index) \in Version /\ LoadMark(part) \in Version
  BY <1>a, <1>b, KeepType, LoadType
<1>d. \A q \in Proc : sure[q] <= stat[q] /\ CacheFrom(q, sure[q]) => CacheFrom(q, sure[q])'
  <2>1. \A q \in Proc : sure[q] \in Version
    BY DEF QueryType
  <2>2. QED BY <1>a, <1>b, <2>1, KeepFrom
<1>e. sure[part] <= LoadDist(part, index) /\ sure[part] <= LoadMark(part)
  <2>1. /\ sure[part] \in Version
        /\ CacheFrom(part, sure[part]) /\ sure[part] <= stat[part]
    BY <1>a DEF QueryType, StatisticsHold
  <2>2. QED BY <1>a, <2>1, LoadFrom
<1> DEFINE e == [entry EXCEPT !.state = LoadDist(part, index)]
<1>g. /\ e \in VertexState /\ result' = Append(result, e)
      /\ e.vid = vid /\ e.state = LoadDist(part, index)
      /\ e.p_0 = entry.p_0 /\ e.iteration = entry.iteration
  BY <1>c DEF QueryType, VertexState, EntryOfItsVertex
<1> HIDE DEF e
<1>h. /\ Len(result') = Len(result) + 1 /\ Len(result) \in Nat
      /\ result'[Len(result) + 1] = e
      /\ \A j \in 1 .. Len(result) : result'[j] = result[j]
      /\ \A j \in 1 .. Len(result) : result[j] \in VertexState
  BY <1>g DEF QueryType
<1>i. vid = part * S + index /\ vid \in Nat /\ counter < size /\ Len(result) = counter
  BY DEF QueryType, LoopsInStep, EntryOfItsVertex
<1>j. \A j \in 1 .. Len(result) : result[j].vid < vid
  BY DEF LoopsInStep
<1>z. \A n : IterationOf(n)' <=> IterationOf(n)
  BY IterationStays
<1>1. QueryType'
  <2>1. index' \in 0 .. S /\ vid' \in Nat /\ counter' \in Nat
    BY <1>a DEF QueryType, Index
  <2>2. result' \in Seq(VertexState)
    BY <1>g DEF QueryType
  <2>3. QED BY <1>c, <2>1, <2>2 DEF QueryType
<1>2. FilesKeepPromise'
  BY FilesAsBefore
<1>3. StatisticsHold'
  BY <1>z, <1>a, <1>c, <1>d, <1>e DEF QueryType, StatisticsHold, LoopsInStep
<1>4. VertexIsFresh'
  BY <1>a DEF QueryType, VertexIsFresh
<1>5. LoopsInStep'
  <2>1. \A j \in 1 .. Len(result') : result'[j].vid < vid'
    BY <1>g, <1>h, <1>i, <1>j DEF VertexState
  <2>2. index < S /\ vid' = part * S + (index + 1) /\ index \in Nat
    BY <1>a, <1>i, VertexNat DEF Index
  <2>3. counter' = counter + 1 /\ counter \in Nat /\ size \in Nat /\ size' = size
    BY DEF QueryType
  <2>4. Len(result') = counter' /\ counter' <= size'
    BY <1>h, <1>i, <2>3
  <2>5. pc' = "findNext" /\ part' = part /\ index' = index + 1
    OBVIOUS
  <2>6. QED BY <1>a, <2>1, <2>2, <2>4, <2>5 DEF LoopsInStep
<1>6. FreshAnswer' /\ CountNotOlder' /\ IterationSent'
  BY <1>z, <1>a DEF QueryType, FreshAnswer, CountNotOlder, IterationSent,
    StatisticsHold, VertexIsFresh
<1>7. ResultNotOlder' /\ ResultFits' /\ EntryOfItsVertex'
  <2>1. sure[part] <= e.p_0 /\ sure[part] <= e.state /\ sure[part] <= e.iteration
    BY <1>c, <1>e, <1>g DEF QueryType, StatisticsHold
  <2>2. ASSUME NEW j \in 1 .. Len(result'), NEW p \in Proc,
               result'[j].vid \in VerticesOf(p)
        PROVE  /\ sure'[p] <= result'[j].p_0 /\ sure'[p] <= result'[j].state
               /\ sure'[p] <= result'[j].iteration
    <3>1. CASE j = Len(result) + 1
      <4>1. p = part
        BY <1>a, <1>g, <1>h, <1>i, <2>2, <3>1, VertexOfOne
      <4>2. QED BY <1>h, <2>1, <3>1, <4>1
    <3>2. CASE j \in 1 .. Len(result)
      BY <1>h, <2>2, <3>2 DEF ResultNotOlder
    <3>3. QED BY <1>h, <3>1, <3>2
  <2>3. EntryOfItsVertex'
    <3>1. ASSUME NEW j \in 1 .. Len(result'), NEW k \in 1 .. Len(result'), j < k
          PROVE  result'[j].vid < result'[k].vid
      <4>1. j \in 1 .. Len(result) /\ (k = Len(result) + 1 \/ k \in 1 .. Len(result))
        BY <1>h, <3>1
      <4>2. result[j].vid < vid /\ result'[j] = result[j]
        BY <1>h, <1>j, <4>1
      <4>3. CASE k = Len(result) + 1
        BY <1>g, <1>h, <4>2, <4>3
      <4>4. CASE k \in 1 .. Len(result)
        BY <1>h, <3>1, <4>1, <4>2, <4>4 DEF EntryOfItsVertex
      <4>5. QED BY <4>1, <4>3, <4>4
    <3>2. QED BY <3>1 DEF EntryOfItsVertex
  <2>4. ResultFits'
    BY <1>h, <1>i DEF QueryType, ResultFits
  <2>5. QED BY <2>2, <2>3, <2>4 DEF ResultNotOlder
<1>8. QED BY <1>1, <1>2, <1>3, <1>4, <1>5, <1>6, <1>7

LEMMA FetchInv == QueryInv /\ Fetch => QueryInv'
<1> SUFFICES ASSUME QueryInv, Fetch PROVE QueryInv'
  OBVIOUS
<1> USE LargeIterNat, SomeIndex, VersionsAreSmall DEF Fetch, QueryInv,
    VertexLoads, Counting, Finding, fileVars, cacheVars, loopVars, resultVars,
    historyVars,
    statsHistory, queryVars, NothingOlder
<1>a. PICK p \in Proc, i \in Index : Keeps(p, i)
  BY DEF Keeps
<1>b. \A q \in Proc : sure[q] <= stat[q] /\ CacheFrom(q, sure[q]) => CacheFrom(q, sure[q])'
  <2>1. \A q \in Proc : sure[q] \in Version
    BY DEF QueryType
  <2>2. QED BY <1>a, <2>1, KeepFrom
<1>c. pc \in VertexLoads =>
        /\ cachedDist'[part][index] = None \/ cachedDist'[part][index] >= asOf.p_0
        /\ cachedMark'[part] = None \/ cachedMark'[part] >= asOf.iteration
  BY <1>a, KeepVertex
<1>z. \A n : IterationOf(n)' <=> IterationOf(n)
  BY IterationStays
<1>1. QueryType'
  BY <1>a, KeepType DEF QueryType
<1>2. FilesKeepPromise'
  BY FilesAsBefore
<1>3. StatisticsHold'
  BY <1>z, <1>b DEF QueryType, StatisticsHold, LoopsInStep
<1>4. VertexIsFresh'
  BY <1>c DEF QueryType, VertexIsFresh
<1>5. LoopsInStep' /\ FreshAnswer' /\ CountNotOlder' /\ IterationSent'
  BY <1>z DEF LoopsInStep, FreshAnswer, CountNotOlder, IterationSent
<1>6. ResultNotOlder' /\ ResultFits' /\ EntryOfItsVertex'
  BY DEF ResultNotOlder, ResultFits, EntryOfItsVertex
<1>7. QED BY <1>1, <1>2, <1>3, <1>4, <1>5, <1>6

LEMMA EvictInv == QueryInv /\ Evict => QueryInv'
<1> SUFFICES ASSUME QueryInv, Evict PROVE QueryInv'
  OBVIOUS
<1> USE LargeIterNat, SomeIndex, VersionsAreSmall DEF Evict, QueryInv,
    VertexLoads, Counting, Finding, fileVars, cacheVars, loopVars, resultVars,
    historyVars,
    statsHistory, queryVars, NothingOlder
<1>a. /\ cachedDist' \in [Proc -> [Index -> Version \cup {None}]]
      /\ cachedMark' \in [Proc -> Version \cup {None}]
  <2>1. ASSUME NEW p \in Proc, NEW i \in Index,
               cachedDist' = [cachedDist EXCEPT ![p][i] = None]
        PROVE  cachedDist' \in [Proc -> [Index -> Version \cup {None}]]
    BY <2>1 DEF QueryType
  <2>2. ASSUME NEW p \in Proc, cachedMark' = [cachedMark EXCEPT ![p] = None]
        PROVE  cachedMark' \in [Proc -> Version \cup {None}]
    BY <2>2 DEF QueryType
  <2>3. QED BY <2>1, <2>2 DEF QueryType
<1>b. \A q \in Proc : /\ cachedMark'[q] \in {cachedMark[q], None}
                      /\ \A i \in Index : cachedDist'[q][i] \in {cachedDist[q][i], None}
  BY DEF QueryType
<1>c. \A q \in Proc : CacheFrom(q, sure[q]) => CacheFrom(q, sure[q])'
  BY <1>b DEF CacheFrom
<1>z. \A n : IterationOf(n)' <=> IterationOf(n)
  BY IterationStays
<1>1. QueryType'
  BY <1>a DEF QueryType
<1>2. FilesKeepPromise'
  BY FilesAsBefore
<1>3. StatisticsHold'
  BY <1>z, <1>c DEF QueryType, StatisticsHold, LoopsInStep
<1>4. VertexIsFresh'
  BY <1>b DEF QueryType, VertexIsFresh
<1>5. LoopsInStep' /\ FreshAnswer' /\ CountNotOlder' /\ IterationSent'
  BY <1>z DEF LoopsInStep, FreshAnswer, CountNotOlder, IterationSent
<1>6. ResultNotOlder' /\ ResultFits' /\ EntryOfItsVertex'
  BY DEF ResultNotOlder, ResultFits, EntryOfItsVertex
<1>7. QED BY <1>1, <1>2, <1>3, <1>4, <1>5, <1>6

LEMMA PublishInv == QueryInv /\ Publish => QueryInv'
<1> SUFFICES ASSUME QueryInv, Publish PROVE QueryInv'
  OBVIOUS
<1> USE LargeIterNat, SomeIndex, VersionsAreSmall DEF Publish, QueryInv,
    VertexLoads, Counting, Finding, fileVars, cacheVars, loopVars, resultVars,
    historyVars,
    statsHistory, queryVars, NothingOlder
<1>a. /\ dist' \in [Proc -> [Index -> Version]]
      /\ mark' \in [Proc -> Version] /\ stat' \in [Proc -> Version]
  BY PublishGrows
<1>b. \A q \in Proc : /\ mark[q] <= mark'[q] /\ stat[q] <= stat'[q]
                      /\ \A i \in Index : dist[q][i] <= dist'[q][i]
  BY PublishGrows
<1>c. \A q \in Proc : sure[q] <= stat[q] => sure[q] <= stat'[q]
  <2>1. \A q \in Proc : stat[q] \in Nat /\ stat'[q] \in Nat /\ sure[q] \in Nat
    BY <1>a DEF QueryType
  <2>2. QED BY <1>b, <2>1
<1>d. \A q \in Proc : CacheFrom(q, sure[q]) => CacheFrom(q, sure[q])'
  BY DEF CacheFrom
<1>e. \A q \in Proc, i \in Index, k \in Nat :
        /\ dist[q][i] >= k => dist'[q][i] >= k
        /\ mark[q] >= k => mark'[q] >= k
  <2>1. ASSUME NEW q \in Proc, NEW i \in Index
        PROVE  /\ mark[q] \in Nat /\ mark'[q] \in Nat
               /\ dist[q][i] \in Nat /\ dist'[q][i] \in Nat
    <3>1. dist[q] \in [Index -> Version] /\ dist'[q] \in [Index -> Version]
      BY <1>a DEF QueryType
    <3>2. QED BY <1>a, <3>1 DEF QueryType
  <2>2. QED BY <1>b, <2>1
<1>z. \A n : IterationOf(n)' <=> IterationOf(n)
  BY IterationStays
<1>1. QueryType'
  BY <1>a DEF QueryType
<1>2. FilesKeepPromise'
  BY PublishGrows
<1>3. StatisticsHold'
  BY <1>z, <1>c, <1>d DEF QueryType, StatisticsHold, LoopsInStep
<1>4. VertexIsFresh'
  BY <1>e DEF QueryType, VertexIsFresh
<1>5. LoopsInStep' /\ FreshAnswer' /\ CountNotOlder' /\ IterationSent'
  BY <1>z DEF LoopsInStep, FreshAnswer, CountNotOlder, IterationSent
<1>6. ResultNotOlder' /\ ResultFits' /\ EntryOfItsVertex'
  BY DEF ResultNotOlder, ResultFits, EntryOfItsVertex
<1>7. QED BY <1>1, <1>2, <1>3, <1>4, <1>5, <1>6

-----------------------------------------------------------------------------
(***************************************************************************)
(* The theorems                                                            *)
(***************************************************************************)
LEMMA StutterInv == QueryInv /\ UNCHANGED vars => QueryInv'
  BY DEF vars, fileVars, cacheVars, queryVars, loopVars, resultVars, historyVars,
    statsHistory, QueryInv, QueryType, FilesKeepPromise, Files!Promise,
    StatisticsHold, CacheFrom,
    VertexIsFresh, LoopsInStep, FreshAnswer, NothingOlder, CountNotOlder,
    ResultNotOlder, IterationSent, IterationOf, ResultFits, EntryOfItsVertex

\* The invariant of a query holds whatever the engine publishes and the cache
\* fetches and drops: the types of its variables, where its loops are, and
\* from which iteration on everything is that it can still load.
THEOREM QueryInvariance == Spec => []QueryInv
<1>1. QueryInv /\ [Next]_vars => QueryInv'
  <2> SUFFICES ASSUME QueryInv, [Next]_vars PROVE QueryInv'
    OBVIOUS
  <2>1. CASE QueryStep
    BY <2>1, ReceiveThresholdInv, ReceiveVidInv, ReadVidProbInv, ReadVidMarkInv,
      ReadVidStateInv,
       CompareIterationInv, KeepIterationInv, EndOfStatisticsInv, CountPartitionInv, CountNextInv,
       EndOfPartitionInv, EndOfCountInv, FindPartitionInv, FindNextInv,
       FindProbInv, FindStateInv, EndOfFindInv, SendResultInv
    DEF QueryStep
  <2>2. CASE Fetch \/ Evict \/ Publish
    BY <2>2, FetchInv, EvictInv, PublishInv
  <2>3. CASE UNCHANGED vars
    BY <2>3, StutterInv
  <2>4. QED BY <2>1, <2>2, <2>3 DEF Next
<1>2. QED BY InitInv, <1>1, PTL DEF Spec

\* The answer to a query for a vertex is never from before the query, although
\* the cache of the node does not follow what other nodes store: findState
\* has the lines of the partition dropped first.
THEOREM AnswersAreFresh == Spec => []FreshAnswer
  BY QueryInvariance, PTL DEF QueryInv

\* What doQueryThreshold counts and returns of a partition is not older than the
\* iteration readStatistics found it at.  The iteration that is sent along may be
\* later than that of a partition only if this one was read before the one it is
\* from, and that was published twice between the two loads of search.h:206-207.
THEOREM NothingOlderThanStatistics == Spec => []NothingOlder
  BY QueryInvariance, PTL DEF QueryInv

\* findNElements stays within vidResult, although the probabilities change
\* between the count and the search, and labels its entries rightly.
THEOREM SearchStaysInResult == Spec => []ResultIsRight
  BY QueryInvariance, PTL DEF QueryInv, ResultIsRight

-----------------------------------------------------------------------------
(***************************************************************************)
(* The connections                                                         *)
(***************************************************************************)
Piece == {"state", "stats", "zero", "counter", "entries", Nothing}

ServerType ==
  /\ at \in {"loop", "accept", "ended"}
  /\ runningFlag \in BOOLEAN /\ lost \in BOOLEAN
  /\ newsockfd \in Conn /\ backlog \in Seq(Conn)
  /\ thread \in [Conn -> {"none", "started", "read", "write"}]
  /\ socketFd = [c \in Conn |-> c]
  /\ open \in [Conn -> BOOLEAN]
  /\ inbox \in [Conn -> Types \cup {NoRequest}]
  /\ asked \in [Conn -> Types]
  /\ client \in [Conn -> {"connected", "asking", "done", "dead", "reset"}]
  /\ todo \in [Conn -> Seq(Piece)]
  /\ outbox \in [Conn -> Seq(Piece)]
  /\ took \in [Conn -> Seq(Piece)]

\* Who waits to be accepted is connected, once, and has no thread yet.
BacklogIsConnected ==
  /\ \A i \in DOMAIN backlog : open[backlog[i]] /\ thread[backlog[i]] = "none"
  /\ \A i, j \in DOMAIN backlog : backlog[i] = backlog[j] => i = j

\* What the client has read, what is on its way and what is still to be written.
Pieces(c) == took[c] \o (outbox[c] \o todo[c])

\* A connection that is open is about one request: it is in the inbox until the
\* thread reads it, and from then on Pieces is one answer to it.  So a client that has
\* finished has the whole of it, and nobody writes to one that has gone, or reads from
\* a reset connection, unless a client has died.
ConnectionInv(c) ==
  /\ ~open[c] => thread[c] = "none"
  /\ thread[c] # "write" => todo[c] = << >>
  /\ client[c] = "connected" => took[c] = << >>
  /\ client[c] = "asking" =>
       asked[c] \in {"vid", "stats", "threshold"} /\ ~Finished(asked[c], took[c])
  /\ open[c] =>
       /\ client[c] \in {"dead", "reset"} => lost
       /\ client[c] = "connected" => thread[c] # "write" /\ inbox[c] = NoRequest
       /\ client[c] = "done" => Finished(asked[c], took[c])
       /\ thread[c] # "write" =>
            /\ outbox[c] = << >> /\ took[c] = << >>
            /\ client[c] \in {"asking", "done"} => inbox[c] = asked[c]
       /\ thread[c] = "write" /\ client[c] \in {"asking", "done"} =>
            Pieces(c) \in Replies(asked[c])

\* The service only ends because it was told to or a client died.
EndsForACause ==
  at = "ended" => (~runningFlag \/ lost) /\ backlog = << >> /\ \A c \in Conn : ~open[c]

ServerInv ==
  /\ ServerType /\ BacklogIsConnected /\ EndsForACause
  /\ \A c \in Conn : ConnectionInv(c)

\* An answer is owed to who has asked: the request is in the inbox, or what is read,
\* on its way and still to be written is one.
Owed(c) ==
  /\ client[c] = "asking"
  /\ \/ open[c] /\ thread[c] # "write" /\ inbox[c] = asked[c]
     \/ Pieces(c) \in Replies(asked[c])

\* An answer that is owed is owed until it is given: only the client's own death and
\* an end of the service that has a cause are in its way (the safety half of
\* AskedIsAnswered; doQuery and StartServer of ServerSocket.h).
OwedUntilAnswered ==
  [][\A c \in Conn : Owed(c) =>
       \/ Owed(c)' \/ Answered(c)' \/ client'[c] \in {"dead", "reset"}
       \/ at' = "ended" /\ (~runningFlag' \/ lost')]_serverVars

AskedIsOwed == \A c \in Conn : client[c] = "asking" /\ open[c] => Owed(c)

LEMMA MoveHead ==
  ASSUME NEW X, NEW s \in Seq(X), NEW t \in Seq(X), t # << >>
  PROVE  /\ Head(t) \in X /\ Tail(t) \in Seq(X) /\ Append(s, Head(t)) \in Seq(X)
         /\ Append(s, Head(t)) \o Tail(t) = s \o t
<1>1. Head(t) \in X /\ Tail(t) \in Seq(X) /\ Append(s, Head(t)) \in Seq(X)
  OBVIOUS
<1>2. Append(s, Head(t)) \o Tail(t) = s \o t
  BY <1>1, SeqEqual
<1> QED  BY <1>1, <1>2

LEMMA MoveHeadBefore ==
  ASSUME NEW X, NEW s \in Seq(X), NEW t \in Seq(X), NEW u \in Seq(X), t # << >>
  PROVE  Append(s, Head(t)) \o (Tail(t) \o u) = s \o (t \o u)
<1>1. Append(s, Head(t)) \in Seq(X) /\ Tail(t) \in Seq(X)
  OBVIOUS
<1>2. Append(s, Head(t)) \o (Tail(t) \o u) = (Append(s, Head(t)) \o Tail(t)) \o u
  BY <1>1, ConcatAssociative
<1>3. s \o (t \o u) = (s \o t) \o u   BY ConcatAssociative
<1> QED  BY <1>2, <1>3, MoveHead

LEMMA EmptyParts ==
  ASSUME NEW X, NEW s \in Seq(X)
  PROVE  s \o (<< >> \o << >>) = s /\ << >> \o (<< >> \o s) = s
  OBVIOUS

\* Of an answer that begins with what has been read, nothing is left exactly when the
\* client has finished.
LEMMA WholeAnswer ==
  ASSUME NEW q \in Types, NEW s \in Seq(Piece), NEW t \in Seq(Piece), NEW u \in Seq(Piece),
         s \o (t \o u) \in Replies(q)
  PROVE  Finished(q, s) <=> t = << >> /\ u = << >>
<1> DEFINE all == s \o (t \o u)
<1>1. /\ Len(all) = Len(s) + (Len(t) + Len(u))
      /\ Len(s) \in Nat /\ Len(t) \in Nat /\ Len(u) \in Nat
      /\ t = << >> <=> Len(t) = 0
      /\ u = << >> <=> Len(u) = 0
  OBVIOUS
<1>6. \A i \in 1 .. Len(s) : all[i] = s[i]
  BY ConcatProperties
<1> HIDE DEF all
<1>7. ASSUME Len(s) = 2 PROVE all[2] = s[2]
  <2>1. 2 \in 1 .. Len(s)
    BY <1>7
  <2> QED  BY <1>6, <2>1
<1>2. CASE q = "vid"
  <2>1. all = <<"state", "stats">>
    BY <1>2 DEF Replies, all
  <2>2. Len(all) = 2
    BY <2>1
  <2> QED  BY <1>1, <1>2, <2>2 DEF Finished
<1>3. CASE q = "stats"
  <2>1. all = <<"stats">>
    BY <1>3 DEF Replies, all
  <2>2. Len(all) = 1
    BY <2>1
  <2> QED  BY <1>1, <1>3, <2>2 DEF Finished
<1>4. CASE q = "threshold"
  <2>1. all = <<"stats", "zero">> \/ all = <<"stats", "counter", "entries">>
    BY <1>4 DEF Replies, all
  <2>2. Finished(q, s) <=> Len(s) = 3 \/ (Len(s) = 2 /\ s[2] \in {"zero", Nothing})
    BY <1>4 DEF Finished
  <2>3. CASE all = <<"stats", "zero">>
    <3>1. Len(all) = 2 /\ all[2] = "zero"
      BY <2>3
    <3>2. Len(s) # 3 /\ (Len(s) = 2 <=> Len(t) = 0 /\ Len(u) = 0)
      <4>1. \A a, b, c \in Nat : a + (b + c) = 2 => a # 3 /\ (a = 2 <=> b = 0 /\ c = 0)
        OBVIOUS
      <4> QED  BY <1>1, <3>1, <4>1
    <3> QED  BY <1>1, <1>7, <2>2, <3>1, <3>2
  <2>4. CASE all = <<"stats", "counter", "entries">>
    <3>1. Len(all) = 3 /\ all[2] = "counter"
      BY <2>4
    <3> QED  BY <1>1, <1>7, <2>2, <3>1 DEF Nothing
  <2> QED  BY <2>1, <2>3, <2>4
<1>5. CASE q \in {"stop", "other"}
  <2>1. all = << >> /\ Finished(q, s)
    BY <1>5 DEF Replies, Finished, all
  <2>2. Len(all) = 0
    BY <2>1
  <2> QED  BY <1>1, <2>1, <2>2
<1> QED  BY <1>2, <1>3, <1>4, <1>5 DEF Types

\* A connection no step is about.
LEMMA Untouched ==
  ASSUME NEW d \in Conn, ConnectionInv(d), lost => lost',
         open'[d] = open[d], thread'[d] = thread[d], todo'[d] = todo[d],
         client'[d] = client[d], asked'[d] = asked[d], took'[d] = took[d],
         inbox'[d] = inbox[d], outbox'[d] = outbox[d]
  PROVE  ConnectionInv(d)'
  BY DEF ConnectionInv, Pieces, Finished, Replies

LEMMA RepliesArePieces ==
  ASSUME NEW q PROVE Replies(q) \subseteq Seq(Piece)
<1>1. <<"state", "stats">> \in Seq(Piece)
  BY DEF Piece
<1>2. <<"stats">> \in Seq(Piece) /\ << >> \in Seq(Piece)
  BY DEF Piece
<1>3. <<"stats", "zero">> \in Seq(Piece)
  BY DEF Piece
<1>4. <<"stats", "counter", "entries">> \in Seq(Piece)
  BY DEF Piece
<1> QED  BY <1>1, <1>2, <1>3, <1>4 DEF Replies

LEMMA InitServer == ServerInit => ServerInv
<1> SUFFICES ASSUME ServerInit PROVE ServerInv
  OBVIOUS
<1> USE DEF ServerInit
<1>1. ServerType
  <2>1. << >> \in Seq(Piece) /\ << >> \in Seq(Conn)
    OBVIOUS
  <2>2. todo \in [Conn -> Seq(Piece)] /\ outbox \in [Conn -> Seq(Piece)]
        /\ took \in [Conn -> Seq(Piece)] /\ backlog \in Seq(Conn)
    BY <2>1
  <2>3. /\ inbox \in [Conn -> Types \cup {NoRequest}] /\ asked \in [Conn -> Types]
        /\ socketFd = [c \in Conn |-> c] /\ open \in [Conn -> BOOLEAN]
    BY DEF Types
  <2>4. /\ thread \in [Conn -> {"none", "started", "read", "write"}]
        /\ client \in [Conn -> {"connected", "asking", "done", "dead", "reset"}]
    OBVIOUS
  <2> QED  BY <2>2, <2>3, <2>4 DEF ServerType
<1>2. BacklogIsConnected /\ EndsForACause
  BY DEF BacklogIsConnected, EndsForACause
<1>3. ASSUME NEW c \in Conn PROVE ConnectionInv(c)
  BY DEF ConnectionInv
<1> QED  BY <1>1, <1>2, <1>3 DEF ServerInv

LEMMA EndKeeps == ASSUME ServerInv, EndService, ~runningFlag \/ lost PROVE ServerInv'
<1>1. ServerType'
  BY DEF ServerInv, ServerType, EndService, clientVars
<1>2. BacklogIsConnected' /\ EndsForACause'
  BY DEF BacklogIsConnected, EndsForACause, EndService
<1>3. ASSUME NEW c \in Conn PROVE ConnectionInv(c)'
  BY DEF ServerInv, ServerType, ConnectionInv, EndService, clientVars, Finished
<1> QED  BY <1>1, <1>2, <1>3 DEF ServerInv

LEMMA MainKeeps == ASSUME ServerInv, MainStep \/ Restart PROVE ServerInv'
<1> USE DEF ServerInv
<1>1. CASE TestFlag
  <2>1. CASE ~runningFlag /\ EndService
    BY <2>1, EndKeeps
  <2>2. CASE runningFlag /\ ~EndService
    <3>1. /\ at' = "accept"
          /\ UNCHANGED <<runningFlag, newsockfd, backlog, threadVars, wireVars, clientVars, lost>>
      BY <1>1, <2>2 DEF TestFlag
    <3>2. \A c \in Conn : ConnectionInv(c)'
      BY <3>1, Untouched DEF threadVars, wireVars, clientVars
    <3> QED  BY <3>1, <3>2 DEF ServerType, BacklogIsConnected, EndsForACause,
                               threadVars, wireVars, clientVars
  <2>3. CASE runningFlag /\ EndService
    <3>1. at' = "accept" \/ FALSE
      BY <1>1, <2>3 DEF TestFlag
    <3> QED  BY <2>3, <3>1 DEF EndService
  <2> QED  BY <1>1, <2>1, <2>2, <2>3 DEF TestFlag
<1>2. CASE Accept
  <2> DEFINE c == Head(backlog)
  <2>1. /\ backlog \in Seq(Conn) /\ backlog # << >> /\ backlog' = Tail(backlog)
        /\ newsockfd' = c /\ thread' = [thread EXCEPT ![c] = "started"]
        /\ at' = "loop"
        /\ UNCHANGED <<runningFlag, socketFd, todo, wireVars, clientVars, lost>>
    BY <1>2 DEF Accept, ServerType
  <2>2. /\ c \in Conn /\ backlog' \in Seq(Conn) /\ c = backlog[1] /\ 1 \in DOMAIN backlog
        /\ \A i \in DOMAIN backlog' : i + 1 \in DOMAIN backlog /\ backlog'[i] = backlog[i + 1]
                                      /\ i \in Nat /\ i # 0
    BY <2>1
  <2>3. open[c] /\ thread[c] = "none"
    BY <2>2 DEF BacklogIsConnected
  <2>4. ServerType'
    BY <2>1, <2>2 DEF ServerType, wireVars, clientVars
  <2>5. BacklogIsConnected'
    <3>1. ASSUME NEW i \in DOMAIN backlog'
          PROVE  open'[backlog'[i]] /\ thread'[backlog'[i]] = "none"
      <4>1. i + 1 \in DOMAIN backlog /\ backlog'[i] = backlog[i + 1] /\ i + 1 # 1
        BY <2>2
      <4>2. backlog[i + 1] # c /\ backlog[i + 1] \in Conn
        BY <2>1, <2>2, <4>1 DEF BacklogIsConnected
      <4> QED  BY <2>1, <4>1, <4>2 DEF BacklogIsConnected, ServerType, wireVars
    <3>2. ASSUME NEW i \in DOMAIN backlog', NEW j \in DOMAIN backlog', backlog'[i] = backlog'[j]
          PROVE  i = j
      <4>1. i + 1 = j + 1
        BY <2>2, <3>2 DEF BacklogIsConnected
      <4> QED  BY <2>2, <4>1
    <3> QED  BY <3>1, <3>2 DEF BacklogIsConnected
  <2>6. EndsForACause'
    BY <2>1 DEF EndsForACause
  <2>7. ASSUME NEW d \in Conn PROVE ConnectionInv(d)'
    <3>1. CASE d = c
      BY <2>1, <2>2, <2>3, <3>1 DEF ServerType, ConnectionInv, wireVars, clientVars, Finished
    <3>2. CASE d # c
      BY <2>1, <2>2, <3>2, Untouched DEF ServerType, wireVars, clientVars
    <3> QED  BY <3>1, <3>2
  <2> QED  BY <2>4, <2>5, <2>6, <2>7
<1>3. CASE Restart
  <2>1. /\ at' = "loop" /\ runningFlag' = TRUE /\ lost' = FALSE
        /\ UNCHANGED <<newsockfd, backlog, threadVars, wireVars, clientVars>>
        /\ \A c \in Conn : ~open[c]
    BY <1>3 DEF Restart, EndsForACause
  <2>2. ServerType' /\ BacklogIsConnected' /\ EndsForACause'
    BY <2>1 DEF ServerType, BacklogIsConnected, EndsForACause, threadVars, wireVars, clientVars
  <2>3. ASSUME NEW c \in Conn PROVE ConnectionInv(c)'
    BY <2>1 DEF ConnectionInv, Finished, threadVars, wireVars, clientVars
  <2> QED  BY <2>2, <2>3
<1> QED  BY <1>1, <1>2, <1>3 DEF MainStep

LEMMA ThreadIsConnected ==
  ASSUME ServerInv, NEW c \in Conn, thread[c] # "none"
  PROVE  /\ open[c] /\ socketFd[c] = c
         /\ client[c] \in {"dead", "reset"} => lost
         /\ at # "ended"
         /\ \A i \in DOMAIN backlog : backlog[i] # c
  BY DEF ServerInv, ServerType, ConnectionInv, BacklogIsConnected, EndsForACause

\* Where a thread takes its socket, reads, writes or closes, others wait as before.
LEMMA ThreadKeeps == ASSUME ServerInv, NEW c \in Conn, ThreadStep(c) PROVE ServerInv'
<1> USE DEF ServerInv
<1>1. CASE TakeSocket(c)
  <2>1. /\ thread[c] = "started" /\ thread' = [thread EXCEPT ![c] = "read"]
        /\ socketFd' = socketFd
        /\ UNCHANGED <<mainVars, todo, wireVars, clientVars, lost>>
    BY <1>1 DEF TakeSocket, SocketOf, ServerType
  <2>2. ServerType' /\ EndsForACause'
    BY <2>1 DEF ServerType, EndsForACause, mainVars, wireVars, clientVars
  <2>3. BacklogIsConnected'
    BY <2>1, ThreadIsConnected DEF ServerType, BacklogIsConnected, mainVars, wireVars
  <2>4. ASSUME NEW d \in Conn PROVE ConnectionInv(d)'
    <3>1. CASE d = c
      BY <2>1, <3>1 DEF ServerType, ConnectionInv, wireVars, clientVars, Finished
    <3>2. CASE d # c
      BY <2>1, <3>2, Untouched DEF ServerType, wireVars, clientVars
    <3> QED  BY <3>1, <3>2
  <2> QED  BY <2>2, <2>3, <2>4
<1>2. CASE ReadRequest(c)
  <2>1. PICK r \in Replies(inbox[c]) :
          /\ todo' = [todo EXCEPT ![c] = r]
          /\ thread[c] = "read" /\ thread' = [thread EXCEPT ![c] = "write"]
          /\ inbox[c] # NoRequest \/ client[c] \in {"done", "dead"}
          /\ inbox' = [inbox EXCEPT ![c] = NoRequest]
          /\ runningFlag' = (runningFlag /\ inbox[c] # "stop")
          /\ UNCHANGED <<at, newsockfd, backlog, socketFd, open, outbox, clientVars, lost>>
    BY <1>2, ThreadIsConnected DEF ReadRequest
  <2>2. r \in Seq(Piece)
    BY RepliesArePieces
  <2>3. ServerType'
    BY <2>1, <2>2 DEF ServerType, clientVars
  <2>4. EndsForACause'
    BY <2>1, ThreadIsConnected DEF EndsForACause
  <2>5. BacklogIsConnected'
    BY <2>1, ThreadIsConnected DEF ServerType, BacklogIsConnected
  <2>6. ASSUME NEW d \in Conn PROVE ConnectionInv(d)'
    <3>1. CASE d = c
      <4>1. /\ open[c] /\ took[c] = << >> /\ outbox[c] = << >> /\ client[c] # "connected"
            /\ client[c] \in {"asking", "done"} => r \in Replies(asked[c])
        BY <2>1, ThreadIsConnected DEF ConnectionInv
      <4>2. /\ took'[c] = << >> /\ outbox'[c] = << >> /\ todo'[c] = r /\ thread'[c] = "write"
            /\ open'[c] = open[c] /\ client' = client /\ asked' = asked /\ lost' = lost
        BY <2>1, <4>1 DEF ServerType, clientVars
      <4>3. Pieces(c)' = r
        BY <2>2, <4>2, EmptyParts DEF Pieces
      <4>4. Finished(asked[c], took[c])' = Finished(asked[c], took[c])
        BY <2>1 DEF clientVars, Finished
      <4>5. Replies(asked[c])' = Replies(asked[c])
        BY <2>1 DEF clientVars, Replies
      <4> QED  BY <3>1, <4>1, <4>2, <4>3, <4>4, <4>5 DEF ConnectionInv
    <3>2. CASE d # c
      BY <2>1, <3>2, Untouched DEF ServerType, clientVars
    <3> QED  BY <3>1, <3>2
  <2> QED  BY <2>3, <2>4, <2>5, <2>6
<1>3. CASE FailToRead(c)
  BY <1>3, ThreadIsConnected, EndKeeps DEF FailToRead
<1>4. CASE WritePiece(c)
  <2>1. /\ thread[c] = "write" /\ todo[c] # << >>
        /\ todo' = [todo EXCEPT ![c] = Tail(@)]
        /\ \/ /\ client[c] \in {"connected", "asking"}
              /\ outbox' = [outbox EXCEPT ![c] = Append(@, Head(todo[c]))]
              /\ UNCHANGED client
           \/ /\ client[c] \in {"done", "dead", "reset"}
              /\ client' = [client EXCEPT ![c] = "reset"]
              /\ UNCHANGED outbox
        /\ UNCHANGED <<mainVars, thread, socketFd, open, inbox, asked, took, lost>>
    BY <1>4, ThreadIsConnected DEF WritePiece, Writing
  <2>2. /\ open[c] /\ todo[c] \in Seq(Piece) /\ outbox[c] \in Seq(Piece)
        /\ took[c] \in Seq(Piece) /\ asked[c] \in Types
    BY <2>1, ThreadIsConnected DEF ServerType
  <2>3. /\ Head(todo[c]) \in Piece /\ Tail(todo[c]) \in Seq(Piece)
        /\ Append(outbox[c], Head(todo[c])) \in Seq(Piece)
        /\ Append(outbox[c], Head(todo[c])) \o Tail(todo[c]) = outbox[c] \o todo[c]
    <3> DEFINE o == outbox[c]
               t == todo[c]
    <3>1. o \in Seq(Piece) /\ t \in Seq(Piece) /\ t # << >>
      BY <2>1, <2>2
    <3> HIDE DEF o, t
    <3>2. /\ Head(t) \in Piece /\ Tail(t) \in Seq(Piece) /\ Append(o, Head(t)) \in Seq(Piece)
          /\ Append(o, Head(t)) \o Tail(t) = o \o t
      BY <3>1, MoveHead
    <3> QED  BY <3>2 DEF o, t
  <2>4. ServerType'
    BY <2>1, <2>3 DEF ServerType, mainVars
  <2>5. EndsForACause' /\ BacklogIsConnected'
    BY <2>1 DEF EndsForACause, BacklogIsConnected, mainVars
  <2>6. ASSUME NEW d \in Conn PROVE ConnectionInv(d)'
    <3>1. CASE d = c /\ client[c] \in {"connected", "asking"}
      <4>1. /\ client[c] = "asking" /\ client' = client
            /\ outbox'[c] = Append(outbox[c], Head(todo[c])) /\ todo'[c] = Tail(todo[c])
        BY <2>1, <2>2, <3>1 DEF ConnectionInv, ServerType
      <4>2. Pieces(c)' = Pieces(c)
        BY <2>1, <2>3, <4>1 DEF Pieces
      <4>3. Finished(asked[c], took[c])' = Finished(asked[c], took[c])
        BY <2>1 DEF Finished
      <4>4. Replies(asked[c])' = Replies(asked[c])
        BY <2>1 DEF Replies
      <4> QED  BY <2>1, <2>2, <3>1, <4>1, <4>2, <4>3, <4>4 DEF ConnectionInv
    <3>2. CASE d = c /\ client[c] \in {"done", "dead", "reset"}
      \* One that is done has the whole answer, so that nothing is left to write.
      <4>1. client[c] # "done"
        BY <2>1, <2>2, WholeAnswer DEF ConnectionInv, Pieces
      <4>2. lost /\ client'[c] = "reset"
        BY <2>1, <3>2, <4>1, ThreadIsConnected DEF ServerType
      <4> QED  BY <2>1, <2>2, <3>2, <4>2 DEF ConnectionInv
    <3>3. CASE d # c
      BY <2>1, <3>3, Untouched DEF ServerType
    <3> QED  BY <2>1, <3>1, <3>2, <3>3
  <2> QED  BY <2>4, <2>5, <2>6
<1>5. CASE WriteToReset(c)
  BY <1>5, ThreadIsConnected, EndKeeps DEF WriteToReset, Writing
<1>6. CASE CloseSocket(c)
  <2>1. /\ thread[c] = "write" /\ todo[c] = << >>
        /\ open' = [open EXCEPT ![c] = FALSE] /\ thread' = [thread EXCEPT ![c] = "none"]
        /\ UNCHANGED <<mainVars, socketFd, todo, inbox, outbox, clientVars, lost>>
    BY <1>6, ThreadIsConnected DEF CloseSocket
  <2>2. ServerType' /\ EndsForACause'
    BY <2>1, ThreadIsConnected DEF ServerType, EndsForACause, mainVars, clientVars
  <2>3. BacklogIsConnected'
    BY <2>1, ThreadIsConnected DEF ServerType, BacklogIsConnected, mainVars
  <2>4. ASSUME NEW d \in Conn PROVE ConnectionInv(d)'
    <3>1. CASE d = c
      BY <2>1, <3>1 DEF ServerType, ConnectionInv, clientVars, Finished
    <3>2. CASE d # c
      BY <2>1, <3>2, Untouched DEF ServerType, clientVars
    <3> QED  BY <3>1, <3>2
  <2> QED  BY <2>2, <2>3, <2>4
<1> QED  BY <1>1, <1>2, <1>3, <1>4, <1>5, <1>6 DEF ThreadStep

LEMMA ClientKeeps ==
  ASSUME ServerInv, NEW c \in Conn, ClientRead(c) \/ Connect(c) \/ Send(c) \/ Die(c)
  PROVE  ServerInv'
<1> USE DEF ServerInv
<1>1. CASE ReadAnswer(c)
  <2> DEFINE piece == Head(outbox[c])
  <2>1. /\ client[c] = "asking" /\ outbox[c] # << >>
        /\ took' = [took EXCEPT ![c] = Append(@, piece)]
        /\ client' = [client EXCEPT ![c] = IF Finished(asked[c], took'[c]) THEN "done" ELSE "asking"]
        /\ outbox' = [outbox EXCEPT ![c] = Tail(@)]
        /\ UNCHANGED <<mainVars, threadVars, open, inbox, asked, lost>>
    BY <1>1 DEF ReadAnswer, Take, Proceed
  <2>2. outbox[c] \in Seq(Piece) /\ took[c] \in Seq(Piece) /\ todo[c] \in Seq(Piece)
    BY DEF ServerType
  <2>3. /\ piece \in Piece /\ Tail(outbox[c]) \in Seq(Piece)
        /\ Append(took[c], piece) \in Seq(Piece)
    BY <2>1, <2>2
  <2>4. ServerType'
    BY <2>1, <2>3 DEF ServerType, mainVars, threadVars
  <2>5. EndsForACause' /\ BacklogIsConnected'
    BY <2>1 DEF EndsForACause, BacklogIsConnected, mainVars, threadVars
  <2>6. ASSUME NEW d \in Conn PROVE ConnectionInv(d)'
    <3>1. CASE d = c
      <4>1. Pieces(c)' = Pieces(c)
        <5> DEFINE s == took[c]
                   t == outbox[c]
                   u == todo[c]
        <5>1. took'[c] = Append(s, Head(t)) /\ outbox'[c] = Tail(t) /\ todo'[c] = u
          BY <2>1, <2>2 DEF ServerType, threadVars
        <5>2. s \in Seq(Piece) /\ t \in Seq(Piece) /\ u \in Seq(Piece) /\ t # << >>
          BY <2>1, <2>2
        <5> HIDE DEF s, t, u
        <5>3. Append(s, Head(t)) \o (Tail(t) \o u) = s \o (t \o u)
          BY <5>2, MoveHeadBefore
        <5> QED  BY <5>1, <5>3 DEF Pieces, s, t, u
      <4>2. /\ open[c] => thread[c] = "write"
            /\ client'[c] = IF Finished(asked[c], took'[c]) THEN "done" ELSE "asking"
        BY <2>1 DEF ServerType, ConnectionInv
      <4>3. Replies(asked[c])' = Replies(asked[c])
        BY <2>1 DEF Replies
      <4>4. Finished(asked[c], took[c])' = Finished(asked[c], took'[c])
        BY <2>1 DEF Finished
      <4> QED  BY <2>1, <3>1, <4>1, <4>2, <4>3, <4>4 DEF ConnectionInv, threadVars
    <3>2. CASE d # c
      BY <2>1, <3>2, Untouched DEF ServerType, threadVars
    <3> QED  BY <3>1, <3>2
  <2> QED  BY <2>4, <2>5, <2>6
<1>2. CASE ReadEnd(c)
  <2>1. /\ client[c] = "asking" /\ ~open[c]
        /\ took' = [took EXCEPT ![c] = Append(@, Nothing)]
        /\ client' = [client EXCEPT ![c] = IF Finished(asked[c], took'[c]) THEN "done" ELSE "asking"]
        /\ UNCHANGED <<mainVars, threadVars, open, inbox, asked, lost, outbox>>
    BY <1>2 DEF ReadEnd, Take, Proceed
  <2>2. Append(took[c], Nothing) \in Seq(Piece)
    BY DEF ServerType, Piece
  <2>3. ServerType'
    BY <2>1, <2>2 DEF ServerType, mainVars, threadVars
  <2>4. EndsForACause' /\ BacklogIsConnected'
    BY <2>1 DEF EndsForACause, BacklogIsConnected, mainVars, threadVars
  <2>5. ASSUME NEW d \in Conn PROVE ConnectionInv(d)'
    <3>1. CASE d = c
      <4>1. client'[c] = IF Finished(asked[c], took'[c]) THEN "done" ELSE "asking"
        BY <2>1 DEF ServerType
      <4>2. Finished(asked[c], took[c])' = Finished(asked[c], took'[c])
        BY <2>1 DEF Finished
      <4> QED  BY <2>1, <3>1, <4>1, <4>2 DEF ConnectionInv, threadVars
    <3>2. CASE d # c
      BY <2>1, <3>2, Untouched DEF ServerType, threadVars
    <3> QED  BY <3>1, <3>2
  <2> QED  BY <2>3, <2>4, <2>5
<1>3. CASE Connect(c)
  <2>1. /\ at # "ended" /\ ~open[c] /\ thread[c] = "none"
        /\ client' = [client EXCEPT ![c] = "connected"]
        /\ open' = [open EXCEPT ![c] = TRUE]
        /\ inbox' = [inbox EXCEPT ![c] = NoRequest] /\ outbox' = [outbox EXCEPT ![c] = << >>]
        /\ asked' = [asked EXCEPT ![c] = "other"] /\ took' = [took EXCEPT ![c] = << >>]
        /\ backlog' = Append(backlog, c)
        /\ UNCHANGED <<at, runningFlag, newsockfd, threadVars, lost>>
    BY <1>3 DEF Connect
  <2>2. << >> \in Seq(Piece) /\ "other" \in Types
    BY DEF Types
  <2>3. /\ backlog \in Seq(Conn) /\ backlog' \in Seq(Conn)
        /\ Len(backlog) \in Nat /\ DOMAIN backlog = 1 .. Len(backlog)
        /\ \A i \in DOMAIN backlog' :
             \/ i \in DOMAIN backlog /\ backlog'[i] = backlog[i]
             \/ i = Len(backlog) + 1 /\ backlog'[i] = c
    <3>1. backlog \in Seq(Conn)
      BY DEF ServerType
    <3>2. /\ backlog' \in Seq(Conn) /\ Len(backlog') = Len(backlog) + 1
          /\ \A i \in 1 .. Len(backlog) : backlog'[i] = backlog[i]
          /\ backlog'[Len(backlog) + 1] = c
      BY <2>1, <3>1, AppendProperties
    <3>3. /\ Len(backlog) \in Nat /\ DOMAIN backlog = 1 .. Len(backlog)
          /\ DOMAIN backlog' = 1 .. Len(backlog) + 1
      BY <3>1, <3>2
    <3> QED  BY <3>1, <3>2, <3>3
  <2>4. ServerType'
    BY <2>1, <2>2, <2>3 DEF ServerType, threadVars
  <2>5. EndsForACause'
    BY <2>1 DEF EndsForACause
  <2>6. \A i \in DOMAIN backlog : backlog[i] \in Conn /\ backlog[i] # c
    BY <2>1 DEF BacklogIsConnected, ServerType
  <2>7. BacklogIsConnected'
    <3>1. ASSUME NEW i \in DOMAIN backlog'
          PROVE  open'[backlog'[i]] /\ thread'[backlog'[i]] = "none"
      BY <2>1, <2>3, <2>6 DEF BacklogIsConnected, ServerType, threadVars
    <3>2. ASSUME NEW i \in DOMAIN backlog', NEW j \in DOMAIN backlog', backlog'[i] = backlog'[j]
          PROVE  i = j
      BY <2>3, <2>6, <3>2 DEF BacklogIsConnected
    <3> QED  BY <3>1, <3>2 DEF BacklogIsConnected
  <2>8. ASSUME NEW d \in Conn PROVE ConnectionInv(d)'
    <3>1. CASE d = c
      BY <2>1, <3>1 DEF ServerType, ConnectionInv, threadVars, NoRequest
    <3>2. CASE d # c
      BY <2>1, <3>2, Untouched DEF ServerType, threadVars
    <3> QED  BY <3>1, <3>2
  <2> QED  BY <2>4, <2>5, <2>7, <2>8
<1>4. CASE Send(c)
  <2>1. PICK t \in Types :
          /\ client[c] = "connected"
          /\ asked' = [asked EXCEPT ![c] = t]
          /\ inbox' = [inbox EXCEPT ![c] = IF open[c] THEN t ELSE NoRequest]
          /\ client' = [client EXCEPT ![c] = IF Finished(t, << >>) THEN "done" ELSE "asking"]
          /\ UNCHANGED <<mainVars, threadVars, open, outbox, took, lost>>
    BY <1>4 DEF Send, Proceed
  <2>2. ServerType'
    BY <2>1 DEF ServerType, mainVars, threadVars
  <2>3. EndsForACause' /\ BacklogIsConnected'
    BY <2>1 DEF EndsForACause, BacklogIsConnected, mainVars, threadVars
  <2>4. Finished(t, << >>) <=> t \in {"stop", "other"}
    BY DEF Finished, Types
  <2>5. ASSUME NEW d \in Conn PROVE ConnectionInv(d)'
    <3>1. CASE d = c
      <4>1. /\ asked'[c] = t /\ inbox'[c] = (IF open[c] THEN t ELSE NoRequest)
            /\ client'[c] = IF t \in {"stop", "other"} THEN "done" ELSE "asking"
            /\ thread[c] # "write" \/ ~open[c]
        BY <2>1, <2>4 DEF ServerType, ConnectionInv
      <4>2. t \in {"stop", "other"} => Finished(t, took'[c])
        BY DEF Finished
      <4>3. took'[c] = << >> /\ (t \notin {"stop", "other"} => ~Finished(t, << >>))
        BY <2>1, <2>4 DEF ConnectionInv
      <4>4. Finished(asked[c], took[c])' = Finished(t, took'[c])
        BY <4>1 DEF Finished
      <4>5. t \in {"stop", "other"} \/ t \in {"vid", "stats", "threshold"}
        BY DEF Types
      <4> QED  BY <2>1, <3>1, <4>1, <4>2, <4>3, <4>4, <4>5 DEF ConnectionInv, threadVars
    <3>2. CASE d # c
      BY <2>1, <3>2, Untouched DEF ServerType, threadVars
    <3> QED  BY <3>1, <3>2
  <2> QED  BY <2>2, <2>3, <2>5
<1>5. CASE Die(c)
  <2>1. PICK how \in {"dead", "reset"} :
          /\ client' = [client EXCEPT ![c] = how]
          /\ client[c] \in {"connected", "asking"}
          /\ outbox' = [outbox EXCEPT ![c] = << >>]
          /\ asked' = [asked EXCEPT ![c] = "other"] /\ took' = [took EXCEPT ![c] = << >>]
          /\ lost' = TRUE
          /\ UNCHANGED <<mainVars, threadVars, open, inbox>>
    BY <1>5 DEF Die
  <2>2. << >> \in Seq(Piece) /\ "other" \in Types
    BY DEF Types
  <2>3. ServerType'
    BY <2>1, <2>2 DEF ServerType, mainVars, threadVars
  <2>4. EndsForACause' /\ BacklogIsConnected'
    BY <2>1 DEF EndsForACause, BacklogIsConnected, mainVars, threadVars
  <2>5. ASSUME NEW d \in Conn PROVE ConnectionInv(d)'
    <3>1. CASE d = c
      <4>1. client'[c] \in {"dead", "reset"} /\ outbox'[c] = << >> /\ took'[c] = << >>
        BY <2>1, <3>1 DEF ServerType
      <4> QED  BY <2>1, <3>1, <4>1 DEF ConnectionInv, threadVars
    <3>2. CASE d # c
      BY <2>1, <3>2, Untouched DEF ServerType, threadVars
    <3> QED  BY <3>1, <3>2
  <2> QED  BY <2>3, <2>4, <2>5
<1> QED  BY <1>1, <1>2, <1>3, <1>4, <1>5 DEF ClientRead

LEMMA UnmovedKeeps == ASSUME ServerInv, UNCHANGED serverVars PROVE ServerInv'
<1> USE DEF serverVars, mainVars, threadVars, wireVars, clientVars
<1>1. ServerType' /\ EndsForACause' /\ BacklogIsConnected'
  BY DEF ServerInv, ServerType, EndsForACause, BacklogIsConnected
<1>2. \A c \in Conn : ConnectionInv(c)'
  BY Untouched DEF ServerInv
<1> QED  BY <1>1, <1>2 DEF ServerInv

\* For any number of connections: each is about one request and its one answer, and the
\* service has not ended without a cause.
THEOREM ServerInvariance == ServerSpec => []ServerInv
<1>1. ServerInv /\ [ServerNext]_serverVars => ServerInv'
  BY MainKeeps, ThreadKeeps, ClientKeeps, UnmovedKeeps DEF ServerNext
<1> QED  BY InitServer, <1>1, PTL DEF ServerSpec

\* To whoever asks on an open connection the answer is owed.
THEOREM AskersAreOwed == ServerSpec => []AskedIsOwed
<1>1. ServerInv => AskedIsOwed
  BY DEF ServerInv, ConnectionInv, AskedIsOwed, Owed
<1> QED  BY <1>1, ServerInvariance, PTL

\* Every step keeps the promise of an answer.
LEMMA OwedStep ==
  ASSUME ServerInv, [ServerNext]_serverVars, NEW c \in Conn, Owed(c)
  PROVE  \/ Owed(c)' \/ Answered(c)' \/ client'[c] \in {"dead", "reset"}
         \/ at' = "ended" /\ (~runningFlag' \/ lost')
<1> USE DEF ServerInv
<1>1. ServerInv' /\ client[c] = "asking"
  BY MainKeeps, ThreadKeeps, ClientKeeps, UnmovedKeeps DEF ServerNext, Owed
<1>2. CASE EndService
  BY <1>1, <1>2 DEF EndService, EndsForACause
<1>3. ASSUME client'[c] = client[c], asked'[c] = asked[c], Pieces(c)' = Pieces(c),
             open'[c] = open[c], thread'[c] = "write" <=> thread[c] = "write",
             inbox'[c] = inbox[c]
      PROVE  Owed(c)'
  <2>1. Replies(asked[c])' = Replies(asked[c])
    BY <1>3 DEF Replies
  <2> QED  BY <1>3, <2>1 DEF Owed
<1>4. ASSUME client'[c] = client[c], asked'[c] = asked[c], open'[c] = open[c],
             took'[c] = took[c], outbox'[c] = outbox[c], todo'[c] = todo[c],
             thread'[c] = "write" <=> thread[c] = "write", inbox'[c] = inbox[c]
      PROVE  Owed(c)'
  BY <1>3, <1>4 DEF Pieces
<1>5. CASE UNCHANGED serverVars
  BY <1>4, <1>5 DEF serverVars, mainVars, threadVars, wireVars, clientVars
<1>6. CASE (MainStep \/ Restart) /\ ~EndService
  <2>1. CASE Accept
    <3>1. Head(backlog) \in Conn /\ thread[Head(backlog)] = "none"
      BY <2>1 DEF Accept, ServerType, BacklogIsConnected
    <3> QED  BY <1>4, <2>1, <3>1 DEF Accept, ServerType, wireVars, clientVars
  <2>2. CASE TestFlag
    BY <1>4, <1>6, <2>2 DEF TestFlag, threadVars, wireVars, clientVars
  <2>3. CASE Restart
    BY <1>4, <2>3 DEF Restart, threadVars, wireVars, clientVars
  <2> QED  BY <1>6, <2>1, <2>2, <2>3 DEF MainStep
<1>7. ASSUME NEW d \in Conn, ThreadStep(d), ~EndService
      PROVE  Owed(c)' \/ client'[c] \in {"dead", "reset"}
  <2>1. thread[d] # "none" => socketFd[d] = d
    BY ThreadIsConnected
  <2>2. CASE d # c
    BY <1>4, <1>7, <2>1, <2>2 DEF ThreadStep, TakeSocket, ReadRequest, FailToRead, WritePiece,
         Writing, WriteToReset, CloseSocket, ServerType, mainVars, wireVars, clientVars
  <2>3. CASE d = c /\ TakeSocket(c)
    BY <1>4, <2>3 DEF TakeSocket, ServerType, wireVars, clientVars
  <2>4. CASE d = c /\ ReadRequest(c)
    <3>1. PICK r \in Replies(inbox[c]) :
            /\ todo' = [todo EXCEPT ![c] = r]
            /\ UNCHANGED <<outbox, clientVars>>
      BY <2>1, <2>4 DEF ReadRequest
    <3>2. open[c] /\ took[c] = << >> /\ outbox[c] = << >> /\ inbox[c] = asked[c]
      BY <1>1, <2>4, ThreadIsConnected DEF ReadRequest, ConnectionInv
    <3>3. Pieces(c)' = r
      BY <3>1, <3>2, RepliesArePieces, EmptyParts DEF Pieces, ServerType, clientVars
    <3>4. Replies(asked[c])' = Replies(asked[c])
      BY <3>1 DEF Replies, clientVars
    <3> QED  BY <1>1, <3>1, <3>2, <3>3, <3>4 DEF Owed, clientVars
  <2>5. CASE d = c /\ WritePiece(c)
    <3>1. thread'[c] = "write" /\ open'[c] /\ (client'[c] = "asking" \/ client'[c] = "reset")
      BY <1>1, <2>1, <2>5, ThreadIsConnected DEF WritePiece, Writing, ServerType
    <3> QED  BY <1>1, <3>1 DEF ConnectionInv, Owed
  <2>6. CASE d = c /\ CloseSocket(c)
    <3>1. /\ Pieces(c) \in Replies(asked[c]) /\ UNCHANGED <<todo, outbox, clientVars>>
      BY <1>1, <2>6, ThreadIsConnected DEF CloseSocket, ConnectionInv
    <3>2. Pieces(c)' = Pieces(c) /\ Replies(asked[c])' = Replies(asked[c])
      BY <3>1 DEF Pieces, Replies, clientVars
    <3> QED  BY <1>1, <3>1, <3>2 DEF Owed, clientVars
  <2> QED  BY <1>7, <2>2, <2>3, <2>4, <2>5, <2>6 DEF ThreadStep, FailToRead, WriteToReset
<1>8. ASSUME NEW d \in Conn, ClientRead(d) \/ Connect(d) \/ Send(d) \/ Die(d)
      PROVE  Owed(c)' \/ Answered(c)' \/ client'[c] \in {"dead", "reset"}
  <2>1. CASE d # c
    BY <1>4, <1>8, <2>1 DEF ClientRead, ReadAnswer, ReadEnd, Take, Proceed, Connect, Send, Die,
         ServerType, mainVars, threadVars
  <2>2. CASE d = c /\ (Connect(c) \/ Send(c))
    BY <1>1, <2>2 DEF Connect, Send
  <2>3. CASE d = c /\ Die(c)
    BY <2>3 DEF Die, ServerType
  <2>4. CASE d = c /\ ReadAnswer(c)
    <3> DEFINE s == took[c]
               t == outbox[c]
               u == todo[c]
    <3>1. /\ took'[c] = Append(s, Head(t)) /\ outbox'[c] = Tail(t) /\ todo'[c] = u
          /\ s \in Seq(Piece) /\ t \in Seq(Piece) /\ u \in Seq(Piece) /\ t # << >>
          /\ asked' = asked /\ asked[c] \in Types
          /\ client'[c] = IF Finished(asked[c], took'[c]) THEN "done" ELSE "asking"
      BY <2>4 DEF ReadAnswer, Take, Proceed, ServerType, threadVars
    <3>2. Pieces(c) \in Replies(asked[c])
      BY <3>1 DEF ConnectionInv, Owed
    <3> HIDE DEF s, t, u
    <3>3. Append(s, Head(t)) \o (Tail(t) \o u) = s \o (t \o u)
      BY <3>1, MoveHeadBefore
    <3>4. Pieces(c)' = Pieces(c) /\ Pieces(c) = took'[c] \o (outbox'[c] \o todo'[c])
      BY <3>1, <3>3 DEF Pieces, s, t, u
    <3>5. Replies(asked[c])' = Replies(asked[c])
      BY <3>1 DEF Replies
    <3>6. CASE Finished(asked[c], took'[c])
      <4>1. outbox'[c] = << >> /\ todo'[c] = << >>
        <5>1. /\ took'[c] \in Seq(Piece) /\ outbox'[c] \in Seq(Piece) /\ todo'[c] \in Seq(Piece)
              /\ took'[c] \o (outbox'[c] \o todo'[c]) \in Replies(asked[c])
          BY <1>1, <3>2, <3>4 DEF ServerType
        <5> DEFINE a == took'[c]
                   b == outbox'[c]
                   e == todo'[c]
        <5> HIDE DEF a, b, e
        <5>2. /\ a \in Seq(Piece) /\ b \in Seq(Piece) /\ e \in Seq(Piece) /\ asked[c] \in Types
              /\ a \o (b \o e) \in Replies(asked[c]) /\ Finished(asked[c], a)
          BY <3>1, <3>6, <5>1 DEF a, b, e
        <5>3. b = << >> /\ e = << >>
          BY <5>2, WholeAnswer
        <5> QED  BY <5>3 DEF b, e
      <4>2. took'[c] = Pieces(c)
        BY <1>1, <3>1, <3>4, <4>1, EmptyParts DEF ServerType
      <4> QED  BY <3>1, <3>2, <3>5, <3>6, <4>2 DEF Answered
    <3>7. CASE ~Finished(asked[c], took'[c])
      BY <3>1, <3>2, <3>4, <3>5, <3>7 DEF Owed
    <3> QED  BY <3>6, <3>7
  <2>5. CASE d = c /\ ReadEnd(c)
    \* The connection does not end before the answer is whole.
    <3>1. Pieces(c) \in Replies(asked[c]) /\ outbox[c] = << >> /\ todo[c] = << >>
      BY <2>5 DEF ReadEnd, ConnectionInv, Owed
    <3> DEFINE a == took[c]
               b == outbox[c]
               e == todo[c]
    <3>2. /\ a \in Seq(Piece) /\ b \in Seq(Piece) /\ e \in Seq(Piece) /\ asked[c] \in Types
          /\ b = << >> /\ e = << >> /\ a \o (b \o e) \in Replies(asked[c])
      BY <1>1, <3>1 DEF ServerType, Pieces
    <3> HIDE DEF a, b, e
    <3>3. Finished(asked[c], a)
      BY <3>2, WholeAnswer
    <3> QED  BY <1>1, <3>3 DEF a, ConnectionInv
  <2> QED  BY <1>8, <2>1, <2>2, <2>3, <2>4, <2>5 DEF ClientRead
<1> QED  BY <1>2, <1>5, <1>6, <1>7, <1>8 DEF ServerNext

\* The safety half of AskedIsAnswered, for any number of connections.
THEOREM AnswersStayOwed == ServerSpec => OwedUntilAnswered
<1>1. ServerInv /\ [ServerNext]_serverVars =>
        [\A c \in Conn : Owed(c) =>
           \/ Owed(c)' \/ Answered(c)' \/ client'[c] \in {"dead", "reset"}
           \/ at' = "ended" /\ (~runningFlag' \/ lost')]_serverVars
  BY OwedStep
<1> QED  BY <1>1, ServerInvariance, PTL DEF ServerSpec, OwedUntilAnswered

=============================================================================
