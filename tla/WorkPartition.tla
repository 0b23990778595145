---------------------------- MODULE WorkPartition ----------------------------
(***************************************************************************)
(* How the vertices of the graph are divided: the file of the partition    *)
(* sizes is read (readPartitionSizes, binaryGraphReader.cpp), the sizes    *)
(* become one range of vertices per process                                *)
(* (initialize_global_arrayByPartition), and every worker thread finds its *)
(* part of the range of its process (find_work_index_for_threadByPartition,*)
(* inference.cpp).                                                         *)
(*                                                                         *)
(* Two workers that share a vertex would both count and store its state; a *)
(* vertex without a worker would never be sampled.                         *)
(***************************************************************************)
EXTENDS Integers, Sequences

CONSTANTS N,        \* totalProcess
          T,        \* num_of_threads
          MaxSize   \* bound: the largest partition size in the file

ASSUME PartitionAssumption ==
  N \in Nat \ {0} /\ T \in Nat \ {0} /\ MaxSize \in Nat

Proc == 0 .. N - 1
Worker == 0 .. T - 1
Vertex == 0 .. N * MaxSize    \* more than all ranges together hold

VARIABLES
  file,      \* the lines of the file: sizes
  ended,     \* is the last line of the file ended by a newline?
  step,      \* "read", "ranges", "work", or "abort" (a failed assert)
  lineNo,    \* line_number of readPartitionSizes
  size,      \* sizeGlobalArrayDistribution
  m,         \* the loop index of the ranges
  start,     \* startThreadIndex
  end        \* endThreadIndex

vars == <<file, ended, step, lineNo, size, m, start, end>>
rangeVars == <<m, start, end>>

PartitionType ==
  /\ file \in Seq(0 .. MaxSize) /\ ended \in BOOLEAN
  /\ step \in {"read", "ranges", "work", "abort"}
  /\ lineNo \in 0 .. N
  /\ size \in [Proc -> 0 .. MaxSize]
  /\ m \in 0 .. N
  /\ start \in [Proc -> Nat]
  /\ end \in [Proc -> Nat]

\* The files may have a line more or less than there are processes.
Files == UNION {[1 .. n -> 0 .. MaxSize] : n \in N - 1 .. N + 1}

Init ==
  /\ file \in Files
  /\ ended \in BOOLEAN
  /\ step = "read"
  /\ lineNo = 0
  /\ size = [p \in Proc |-> 0]
  /\ m = 0
  /\ start = [p \in Proc |-> 0]
  /\ end = [p \in Proc |-> 0]

-----------------------------------------------------------------------------
\* getline succeeds on the lines that end with a newline only: it is good()
\* that it returns, which std::getline leaves false at the end of the file.
Readable == IF ended \/ file = <<>> THEN Len(file) ELSE Len(file) - 1

\* assert(line_number < num_sockets_to_use).
\* Mutants: the assert is left out; it is off by one.
ExpectedAlways == TRUE
ExpectedFewer == lineNo < N - 1

Expected == lineNo < N

ReadLine ==
  /\ step = "read"
  /\ lineNo < Readable
  /\ IF Expected
       THEN /\ size' = [size EXCEPT ![lineNo] = file[lineNo + 1]]
            /\ lineNo' = lineNo + 1
            /\ UNCHANGED step
       ELSE /\ step' = "abort"
            /\ UNCHANGED <<size, lineNo>>
  /\ UNCHANGED <<file, ended, rangeVars>>

\* assert(line_number == num_sockets_to_use).
\* Mutant: the assert is left out.
EnoughAlways == TRUE

Enough == lineNo = N

EndOfFile ==
  /\ step = "read"
  /\ lineNo = Readable
  /\ step' = IF Enough THEN "ranges" ELSE "abort"
  /\ UNCHANGED <<file, ended, lineNo, size, rangeVars>>

\* Mutant: the commented-out term is added to the start of the range.
StartShifted(p) == IF p = 0 THEN 0 ELSE end[p - 1] + size[p]

StartOf(p) == IF p = 0 THEN 0 ELSE end[p - 1]

\* The range of the next process begins where the last one ends.
SetRange ==
  /\ step = "ranges"
  /\ m < N
  /\ start' = [start EXCEPT ![m] = StartOf(m)]
  /\ end' = [end EXCEPT ![m] = (IF m = 0 THEN 0 ELSE end[m - 1]) + size[m]]
  /\ m' = m + 1
  /\ step' = IF m + 1 = N THEN "work" ELSE "ranges"
  /\ UNCHANGED <<file, ended, lineNo, size>>

Next == ReadLine \/ EndOfFile \/ SetRange

Spec == Init /\ [][Next]_vars

(***************************************************************************)
(* The part of worker w of process p: threadIterStartIndex and             *)
(* threadIterEndIndex.  The last worker takes what the division leaves.    *)
(***************************************************************************)
WorkSize(p) == size[p] \div T
WorkStart(p, w) == start[p] + WorkSize(p) * w

\* Mutants: the last worker is not an exception; the end is inclusive.
WorkEndEven(p, w) == WorkStart(p, w) + WorkSize(p)
WorkEndInclusive(p, w) ==
  IF (w + 1) % T = 0 THEN end[p] ELSE WorkStart(p, w) + WorkSize(p) + 1

WorkEnd(p, w) ==
  IF (w + 1) % T = 0 THEN end[p] ELSE WorkStart(p, w) + WorkSize(p)

Works(p, w, v) == WorkStart(p, w) <= v /\ v < WorkEnd(p, w)

-----------------------------------------------------------------------------
(***************************************************************************)
(* Properties                                                              *)
(***************************************************************************)
\* A file whose lines are not one per process is never worked from: the sizes
\* are then those of the file.
SizesFromFile ==
  step \in {"ranges", "work"} =>
    /\ Len(file) \in {N, N + 1}
    /\ \A p \in Proc : size[p] = file[p + 1]

\* No vertex has two workers, in one process or in two.
NoVertexTwice ==
  step = "work" =>
    \A p, q \in Proc, w, x \in Worker, v \in Vertex :
      Works(p, w, v) /\ Works(q, x, v) => p = q /\ w = x

\* Every vertex of the partitions has a worker, and it is one of the process
\* that owns the partition.
NoVertexForgotten ==
  step = "work" =>
    \A p \in Proc, v \in Vertex :
      start[p] <= v /\ v < end[p] => \E w \in Worker : Works(p, w, v)

\* A file with one line per process, all ended by a newline, is worked from,
\* as the README of the input graphs asks for no more: "Each file should contain
\* the same lines as the number of jobs."
FileAccepted == Len(file) = N /\ ended => step # "abort"

\* The two together: a partition file is worked from exactly when it should be.
FileJudged == SizesFromFile /\ FileAccepted

\* Every vertex has one worker, although start, size and part are computed by
\* integer division, process by process.
OneWorkerEach == NoVertexTwice /\ NoVertexForgotten

\* The inductive invariant: the ranges found so far lie behind one another.
RangesInRow ==
  /\ step = "work" <=> m = N
  /\ \A p \in Proc : p < m => end[p] = start[p] + size[p]
  /\ \A p, q \in Proc : p < q /\ q < m => end[p] <= start[q]

=============================================================================
