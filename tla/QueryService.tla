----------------------------- MODULE QueryService -----------------------------
(***************************************************************************)
(* A query to the query service (search.h), while the engine samples.      *)
(*                                                                         *)
(* The service maps the .pdist and .stats files of every partition.  The   *)
(* cache of its node does not follow what the engine's nodes store, so a   *)
(* query first has the lines of a partition dropped (pmem_invalidate) and  *)
(* then loads the values one after the other, while the engine publishes   *)
(* new ones, in the way PublishedFiles promises.                           *)
(*                                                                         *)
(* One query is modelled at a time.  The threads of the service share      *)
(* nothing but the cache: all that other queries can do to this one is to  *)
(* have lines fetched into the cache, or dropped from it, at any time.     *)
(*                                                                         *)
(* A probability is abstracted to the iteration it is from.  Which of them *)
(* reach the threshold of the query is given by the constant Above.        *)
(***************************************************************************)
EXTENDS Integers, Sequences

CONSTANTS N,      \* totalProcess: the partitions
          S,      \* sizeGlobalArrayDistribution: vertices of each partition
          Iters,  \* the last iteration of the engine
          Above   \* Above[v][k]: is the probability of vertex v in iteration k
                  \* at least the threshold?

Proc == 0 .. N - 1
Index == 0 .. S - 1
Version == 0 .. Iters
vertices == N * S
Vertex == 0 .. vertices - 1

LargeIter == 1000000

ASSUME QueryAssumption ==
  /\ N \in Nat \ {0} /\ S \in Nat \ {0} /\ Iters \in 0 .. LargeIter
  /\ Above \in [Vertex -> [Version -> BOOLEAN]]

None == -1         \* not in the cache

VARIABLES
  dist, mark, stat,        \* FAM: see PublishedFiles
  cachedDist, cachedMark,  \* what the cache of the service's node holds of it
  pc,        \* where the query is; "idle" when it is answered
  type,      \* request.type: "vid", "threshold" or "stats"
  part,      \* loop index p; the partition of the vertex in findState
  index,     \* loop index of the vertices of a partition; vPos in findState
  counter,   \* counter of countNElements, then of findNElements
  size,      \* for how many entries vidResult is allocated
  vid,       \* vid of findNElements
  entry,     \* the vertexState that is being filled
  result,    \* vidResult, as far as it is filled
  minIter,   \* minIter of readStatistics
  sure,      \* history: sure[p]: the iteration of p as readStatistics loaded it last
  overtaken, \* history: those that were two on between the two loads of it
  oldest,    \* history: the oldest probability counted in this partition
  asOf       \* history: what FAM held of the vertex when findState began

fileVars == <<dist, mark, stat>>
cacheVars == <<cachedDist, cachedMark>>
loopVars == <<part, index>>
resultVars == <<counter, size, vid, entry, result>>
statsHistory == <<sure, overtaken>>
historyVars == <<statsHistory, oldest, asOf>>
queryVars == <<pc, type, loopVars, resultVars, minIter, historyVars>>
vars == <<fileVars, cacheVars, queryVars>>

Files == INSTANCE PublishedFiles WITH Segment <- Index

\* state: the iteration of the probability that is compared with 0.5.
VertexState == [vid : Nat, p_0 : Version, iteration : Version, state : Version]
NoState == [vid |-> 0, p_0 |-> 0, iteration |-> 0, state |-> 0]
NoAnswer == [p_0 |-> 0, iteration |-> 0]

QueryType ==
  /\ dist \in [Proc -> [Index -> Version]]
  /\ mark \in [Proc -> Version] /\ stat \in [Proc -> Version]
  /\ cachedDist \in [Proc -> [Index -> Version \cup {None}]]
  /\ cachedMark \in [Proc -> Version \cup {None}]
  /\ pc \in {"idle", "vidProb", "vidMark", "vidState", "stats", "statsMin", "count",
             "countNext", "find", "findNext", "findProb", "findState"}
  /\ type \in {"vid", "threshold", "stats"}
  /\ part \in 0 .. N /\ index \in 0 .. S
  /\ counter \in Nat /\ size \in Nat /\ vid \in Nat
  /\ entry \in VertexState
  /\ result \in Seq(VertexState)
  /\ minIter \in Version \cup {LargeIter}
  /\ sure \in [Proc -> Version] /\ overtaken \in SUBSET Proc
  /\ oldest \in Version \cup {LargeIter}
  /\ asOf \in [p_0 : Version, iteration : Version]

Init ==
  /\ Files!Init
  /\ cachedDist = [p \in Proc |-> [i \in Index |-> None]]
  /\ cachedMark = [p \in Proc |-> None]
  /\ pc = "idle" /\ type = "stats"
  /\ part = 0 /\ index = 0
  /\ counter = 0 /\ size = 0 /\ vid = 0
  /\ entry = NoState /\ result = <<>>
  /\ minIter = LargeIter /\ oldest = LargeIter
  /\ sure = [p \in Proc |-> 0] /\ overtaken = {}
  /\ asOf = NoAnswer

(***************************************************************************)
(* FAM and the cache                                                       *)
(***************************************************************************)
\* What a load returns: the cached value, or else the one in FAM.
Load(cached, inFAM) == IF cached = None THEN inFAM ELSE cached

LoadDist(p, i) == Load(cachedDist[p][i], dist[p][i])
LoadMark(p) == Load(cachedMark[p], mark[p])

\* A load leaves the value in the cache (from which Evict may take it again).
KeepDist(p, i) ==
  /\ cachedDist' = [cachedDist EXCEPT ![p][i] = LoadDist(p, i)]
  /\ UNCHANGED cachedMark

KeepMark(p) ==
  /\ cachedMark' = [cachedMark EXCEPT ![p] = LoadMark(p)]
  /\ UNCHANGED cachedDist

\* Mutants: the length of a partition without the mark behind it; no call.
MarkAfterForgotten(p) == cachedMark
MarkAfterInvalidate(p) == [cachedMark EXCEPT ![p] = None]

DistAfterForgotten(p) == cachedDist
DistAfterInvalidate(p) == [cachedDist EXCEPT ![p] = [i \in Index |-> None]]

\* pmem_invalidate of the 1 + (end - start) floats of a partition.
Invalidate(p) ==
  /\ cachedDist' = DistAfterInvalidate(p)
  /\ cachedMark' = MarkAfterInvalidate(p)

\* Other queries, and the hardware, have lines fetched and dropped.
Fetch ==
  /\ \E p \in Proc : KeepMark(p) \/ \E i \in Index : KeepDist(p, i)
  /\ UNCHANGED <<fileVars, queryVars>>

Evict ==
  /\ \E p \in Proc :
       \/ /\ cachedMark' = [cachedMark EXCEPT ![p] = None]
          /\ UNCHANGED cachedDist
       \/ \E i \in Index :
            /\ cachedDist' = [cachedDist EXCEPT ![p][i] = None]
            /\ UNCHANGED cachedMark
  /\ UNCHANGED <<fileVars, queryVars>>

\* The engine publishes.
Publish == Files!Next /\ UNCHANGED <<cacheVars, queryVars>>

(***************************************************************************)
(* Requests (doQuery)                                                      *)
(***************************************************************************)
At(here, next) == pc = here /\ pc' = next

\* The local variables of a new query.
Fresh ==
  /\ counter' = 0 /\ size' = 0 /\ vid' = 0 /\ result' = <<>>
  /\ minIter' = LargeIter /\ oldest' = LargeIter
  /\ sure' = [p \in Proc |-> 0] /\ overtaken' = {}

\* The statistics, or the vertices over the threshold: readStatistics is first.
ReceiveThreshold ==
  /\ At("idle", "stats")
  /\ type' \in {"threshold", "stats"}
  /\ part' = 0 /\ index' = 0 /\ entry' = NoState
  /\ Fresh /\ asOf' = NoAnswer
  /\ UNCHANGED <<fileVars, cacheVars>>

\* A vertex: findState drops the lines of its partition.  (One that is not in
\* the graph is answered with '*' and without a look at the files.)
ReceiveVid ==
  /\ At("idle", "vidProb")
  /\ type' = "vid"
  /\ \E p \in Proc, i \in Index :
       /\ part' = p /\ index' = i
       /\ entry' = [NoState EXCEPT !.vid = p * S + i]
       /\ asOf' = [p_0 |-> dist[p][i], iteration |-> mark[p]]
       /\ Invalidate(p)
  /\ Fresh
  /\ UNCHANGED fileVars

(***************************************************************************)
(* findState: the probability, the mark behind those of the partition, and *)
(* the probability once more for the state                                 *)
(***************************************************************************)
ReadVidProb ==
  /\ At("vidProb", "vidMark")
  /\ entry' = [entry EXCEPT !.p_0 = LoadDist(part, index)]
  /\ KeepDist(part, index)
  /\ UNCHANGED <<fileVars, type, loopVars, counter, size, vid, result, minIter,
                 historyVars>>

ReadVidMark ==
  /\ At("vidMark", "vidState")
  /\ entry' = [entry EXCEPT !.iteration = LoadMark(part)]
  /\ KeepMark(part)
  /\ UNCHANGED <<fileVars, type, loopVars, counter, size, vid, result, minIter,
                 historyVars>>

\* The answer is complete; the statistics follow it.
ReadVidState ==
  /\ At("vidState", "stats")
  /\ entry' = [entry EXCEPT !.state = LoadDist(part, index)]
  /\ KeepDist(part, index)
  /\ part' = 0 /\ index' = 0
  /\ UNCHANGED <<fileVars, type, counter, size, vid, result, minIter, historyVars>>

(***************************************************************************)
(* readStatistics: the least of the iterations in the .stats files         *)
(***************************************************************************)
\* The lines of the .stats file are dropped; what is loaded of them is what FAM
\* held at some moment after that.  The iteration is loaded to be compared, and
\* when it is the least so far, loaded again to be kept: by then the engine may
\* have published.
CompareIteration ==
  /\ pc = "stats" /\ part < N
  /\ sure' = [sure EXCEPT ![part] = stat[part]]
  /\ IF minIter > stat[part] THEN pc' = "statsMin" /\ UNCHANGED part
                            ELSE part' = part + 1 /\ UNCHANGED pc
  /\ UNCHANGED <<fileVars, cacheVars, type, index, resultVars, minIter, overtaken,
                 oldest, asOf>>

KeepIteration ==
  /\ At("statsMin", "stats")
  /\ minIter' = stat[part]
  /\ sure' = [sure EXCEPT ![part] = stat[part]]
  /\ overtaken' = overtaken \cup {p \in {part} : stat[p] > sure[p] + 1}
  /\ part' = part + 1
  /\ UNCHANGED <<fileVars, cacheVars, type, index, resultVars, oldest, asOf>>

EndOfStatistics ==
  /\ part = N
  /\ At("stats", IF type = "vid" THEN "idle" ELSE "count")
  /\ part' = 0
  /\ UNCHANGED <<fileVars, cacheVars, type, index, resultVars, minIter, historyVars>>

(***************************************************************************)
(* countNElements                                                          *)
(***************************************************************************)
\* The loop over the vertices of the next partition begins.
CountPartition ==
  /\ part < N
  /\ At("count", "countNext")
  /\ Invalidate(part)
  /\ UNCHANGED <<fileVars, type, loopVars, resultVars, minIter, historyVars>>

CountNext ==
  /\ pc = "countNext" /\ index < S
  /\ LET k == LoadDist(part, index)
     IN /\ counter' = IF Above[part * S + index][k] THEN counter + 1 ELSE counter
        /\ oldest' = IF k < oldest THEN k ELSE oldest
  /\ KeepDist(part, index)
  /\ index' = index + 1
  /\ UNCHANGED <<fileVars, pc, type, part, size, vid, entry, result, minIter,
                 statsHistory, asOf>>

EndOfPartition ==
  /\ index = S
  /\ At("countNext", "count")
  /\ part' = part + 1 /\ index' = 0 /\ oldest' = LargeIter
  /\ UNCHANGED <<fileVars, cacheVars, type, resultVars, minIter, statsHistory, asOf>>

\* The statistics and the number of vertices are sent.  For the vertices, if
\* there are any, vidResult is allocated and findNElements begins.
EndOfCount ==
  /\ part = N
  /\ At("count", IF type = "threshold" /\ counter > 0 THEN "find" ELSE "idle")
  /\ size' = counter
  /\ counter' = 0
  /\ part' = 0
  /\ UNCHANGED <<fileVars, cacheVars, type, index, vid, entry, result, minIter,
                 historyVars>>

(***************************************************************************)
(* findNElements                                                           *)
(***************************************************************************)
FindPartition ==
  /\ part < N
  /\ At("find", "findNext")
  /\ entry' = [entry EXCEPT !.iteration = LoadMark(part)]
  /\ KeepMark(part)
  /\ UNCHANGED <<fileVars, type, loopVars, counter, size, vid, result, minIter,
                 historyVars>>

\* Mutant: the result is taken to have room for all.
FullNever == FALSE

Full == counter >= size

\* The probability is compared with the threshold; what is over it is loaded
\* again for p_0 and for the state of the result.
FindNext ==
  /\ pc = "findNext" /\ index < S /\ ~ Full
  /\ KeepDist(part, index)
  /\ IF Above[part * S + index][LoadDist(part, index)]
       THEN pc' = "findProb" /\ UNCHANGED <<index, vid>>
       ELSE index' = index + 1 /\ vid' = vid + 1 /\ UNCHANGED pc
  /\ UNCHANGED <<fileVars, type, part, counter, size, entry, result, minIter,
                 historyVars>>

\* Mutant: the commented-out increment for vertices that are found.
NextVidTwice == vid + 2

NextVid == vid + 1

FindProb ==
  /\ At("findProb", "findState")
  /\ entry' = [entry EXCEPT !.vid = vid, !.p_0 = LoadDist(part, index)]
  /\ KeepDist(part, index)
  /\ UNCHANGED <<fileVars, type, loopVars, counter, size, vid, result, minIter,
                 historyVars>>

FindState ==
  /\ At("findState", "findNext")
  /\ result' = Append(result, [entry EXCEPT !.state = LoadDist(part, index)])
  /\ KeepDist(part, index)
  /\ counter' = counter + 1
  /\ index' = index + 1
  /\ vid' = NextVid
  /\ UNCHANGED <<fileVars, type, part, size, entry, minIter, historyVars>>

\* The end of the partition, or the break: vidResult is full.
EndOfFind ==
  /\ index = S \/ Full
  /\ At("findNext", "find")
  /\ part' = part + 1 /\ index' = 0
  /\ UNCHANGED <<fileVars, cacheVars, type, resultVars, minIter, historyVars>>

\* All entries of vidResult are sent.
SendResult ==
  /\ part = N
  /\ At("find", "idle")
  /\ UNCHANGED <<fileVars, cacheVars, type, loopVars, resultVars, minIter, historyVars>>

QueryStep ==
  \/ ReceiveThreshold \/ ReceiveVid
  \/ ReadVidProb \/ ReadVidMark \/ ReadVidState
  \/ CompareIteration \/ KeepIteration \/ EndOfStatistics
  \/ CountPartition \/ CountNext \/ EndOfPartition \/ EndOfCount
  \/ FindPartition \/ FindNext \/ FindProb \/ FindState \/ EndOfFind \/ SendResult

Next == QueryStep \/ Fetch \/ Evict \/ Publish

Spec == Init /\ [][Next]_vars

-----------------------------------------------------------------------------
(***************************************************************************)
(* Properties                                                              *)
(***************************************************************************)
VertexLoads == {"vidProb", "vidMark", "vidState"}
Counting == {"count", "countNext"}
Finding == {"find", "findNext", "findProb", "findState"}

\* The answer to a query for a vertex is not older than the query: what the
\* cache held before is not in it.
FreshAnswer ==
  type = "vid" /\ pc \in {"stats", "statsMin", "idle"} =>
    /\ entry.p_0 >= asOf.p_0 /\ entry.state >= asOf.p_0
    /\ entry.iteration >= asOf.iteration

\* No probability is counted that is older than the statistics of its partition.
CountNotOlder == pc = "countNext" => sure[part] <= oldest

\* Nor are the entries sent after them older.
VerticesOf(p) == p * S .. p * S + S - 1

ResultNotOlder ==
  \A j \in 1 .. Len(result), p \in Proc :
    result[j].vid \in VerticesOf(p) =>
      /\ sure[p] <= result[j].p_0 /\ sure[p] <= result[j].state
      /\ sure[p] <= result[j].iteration

\* minIter is the iteration of one of the first n partitions, and not later than
\* those of the ones behind it; nor than any, if none was overtaken.
IterationOf(n) ==
  /\ \E p \in 0 .. n - 1 : /\ minIter = sure[p]
                          /\ \A q \in p .. n - 1 : minIter <= sure[q]
  /\ overtaken = {} => \A q \in 0 .. n - 1 : minIter <= sure[q]

IterationSent ==
  pc \in Counting \cup Finding \cup {"idle"} => minIter = LargeIter \/ IterationOf(N)

\* The search does not write past the entries that were allocated after the
\* count, although more vertices may be over the threshold by now.
ResultFits == Len(result) <= size

\* The entries are of different vertices, in order, and every entry is of the
\* vertex whose probability it holds.
EntryOfItsVertex ==
  /\ pc \in {"findProb", "findState"} => vid = part * S + index
  /\ pc = "findState" => entry.vid = vid
  /\ \A j, k \in 1 .. Len(result) : j < k => result[j].vid < result[k].vid

\* What a threshold query counts and sends of a partition is not older than the
\* iteration readStatistics found that partition at, which it has read first, from
\* other lines of the files.  The one iteration it sends is not later than that of the
\* partition it is from and of those behind it.  It may be later than that of one
\* before it, but only if the engine has published twice between the comparison
\* and the assignment (search.h:206-207).
NothingOlder == CountNotOlder /\ ResultNotOlder /\ IterationSent

\* The second search agrees with the first on where it may write, and with the
\* files on whose probability it writes.
ResultIsRight == ResultFits /\ EntryOfItsVertex

\* All entries that are sent have been filled: the query is to "retrieve
\* elements above the threshold".
ResultFilled == pc = "idle" /\ type = "threshold" => Len(result) = size

(***************************************************************************)
(* The inductive invariant behind them.                                    *)
(***************************************************************************)
FilesKeepPromise == \A p \in Proc : Files!Promise(dist[p], mark[p], stat[p])

\* No value of partition p in the cache is older than iteration k.
CacheFrom(p, k) ==
  /\ cachedMark[p] = None \/ cachedMark[p] >= k
  /\ \A i \in Index : cachedDist[p][i] = None \/ cachedDist[p][i] >= k

\* What has been read of the statistics holds of the files since, and what has
\* been dropped from the cache is not in it any more.
StatisticsHold ==
  /\ pc \in VertexLoads => minIter = LargeIter
  /\ pc \in VertexLoads \cup {"stats", "statsMin", "count"} => oldest = LargeIter
  /\ pc \in {"stats", "statsMin"} =>
       /\ \A p \in Proc : p < part => sure[p] <= stat[p]
       /\ \/ part = 0 /\ minIter = LargeIter
          \/ part > 0 /\ IterationOf(part)
  /\ pc = "statsMin" =>
       part \in Proc /\ sure[part] <= stat[part] /\ sure[part] < minIter
  /\ pc \in Counting \cup Finding =>
       /\ type # "vid"
       /\ IterationOf(N)
       /\ \A p \in Proc : sure[p] <= stat[p]
  /\ pc = "count" => \A p \in Proc : p < part => CacheFrom(p, sure[p])
  /\ pc = "countNext" => \A p \in Proc : p <= part => CacheFrom(p, sure[p])
  /\ pc \in Finding => \A p \in Proc : CacheFrom(p, sure[p])
  /\ pc \in Finding \ {"find"} => sure[part] <= entry.iteration
  /\ pc = "findState" => sure[part] <= entry.p_0

\* The vertex of findState: whatever it can load of it is as new as the query.
VertexIsFresh ==
  /\ pc \in VertexLoads =>
       /\ part \in Proc /\ index \in Index /\ type = "vid"
       /\ dist[part][index] >= asOf.p_0
       /\ mark[part] >= asOf.iteration
       /\ cachedDist[part][index] = None \/ cachedDist[part][index] >= asOf.p_0
       /\ cachedMark[part] = None \/ cachedMark[part] >= asOf.iteration
  /\ pc \in {"vidMark", "vidState"} => entry.p_0 >= asOf.p_0
  /\ pc = "vidState" => entry.iteration >= asOf.iteration

\* Where the loops are, and how many entries there are.
LoopsInStep ==
  /\ pc \in {"countNext", "findNext", "findProb", "findState"} => part \in Proc
  /\ pc \in {"findProb", "findState"} => index \in Index /\ counter < size
  /\ pc \in {"stats", "statsMin", "count", "find"} => index = 0
  /\ pc \in Finding => Len(result) = counter /\ counter <= size
  /\ pc \notin Finding \cup {"idle"} => result = <<>> /\ vid = 0
  /\ pc = "find" /\ counter < size => vid = part * S
  /\ pc = "findNext" /\ counter < size => vid = part * S + index
  /\ pc \in Finding => \A j \in 1 .. Len(result) : result[j].vid < vid

QueryInv ==
  /\ QueryType
  /\ FilesKeepPromise
  /\ StatisticsHold
  /\ VertexIsFresh
  /\ LoopsInStep
  /\ FreshAnswer
  /\ NothingOlder
  /\ ResultFits
  /\ EntryOfItsVertex

=============================================================================
