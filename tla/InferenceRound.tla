---------------------------- MODULE InferenceRound ----------------------------
(***************************************************************************)
(* The sampling loop of one launch, after its second barrier               *)
(* (launch_sequential_parallel and                                         *)
(* launch_tparallel_partition_uniform_thread, inference.cpp).              *)
(*                                                                         *)
(* Every process has T worker threads and a main thread.  In an iteration  *)
(* each worker samples the vertices of its segment into the process's own  *)
(* array in DRAM and copies the states and the distribution of the segment *)
(* to the mapping of the process's files.  Then, between two pthread       *)
(* barriers at which the workers stand still, the main thread persists the *)
(* files to FAM, marks them with the iteration, and pulls the states of    *)
(* all the other partitions from FAM into its own array.                   *)
(*                                                                         *)
(* The processes do not wait for each other: each pulls whatever the       *)
(* others have persisted so far.  FAM is not coherent: a store reaches it  *)
(* when it is persisted, or at any earlier moment the owner's cache        *)
(* chooses, line by line.                                                  *)
(*                                                                         *)
(* The states of a segment are abstracted to a version: the iteration they *)
(* were sampled in, 0 for the labels, Blank for the zeros the file was     *)
(* created with.                                                           *)
(***************************************************************************)
EXTENDS Integers, FiniteSets

CONSTANTS N,           \* totalProcess
          T,           \* num_of_threads
          Iters,       \* num_total_iters
          Interval,    \* stat_samples_interval
          Statistics   \* generate_statistics

ASSUME RoundAssumption ==
  /\ N \in Nat \ {0} /\ T \in Nat \ {0} /\ Iters \in Nat \ {0}
  /\ Interval \in Nat \ {0, 1}
  /\ Statistics \in BOOLEAN

Proc == 0 .. N - 1
Worker == 0 .. T - 1

\* num_of_stat_samples: 1 unless statistics are configured.
NumSamples == IF Statistics THEN Iters \div Interval ELSE 1

Blank == -1
Version == Blank .. Iters

VARIABLES
  wpc,         \* wpc[p][w]: where worker w of process p is
  iter,        \* iter[p][w]: its loop index i
  seen,        \* seen[p][w]: local_samples_seen
  taken,       \* taken[p][w]: samplerCounter
  mpc,         \* mpc[p]: where the main thread of p is
  round,       \* round[p]: its loop index i, the value of ITER
  pulled,      \* pulled[p]: the segments pulled so far in this iteration
  local,       \* local[p][q][w]: version of segment w of partition q in p's DRAM
  shared,      \* shared[q][w]: the same in the .states file, as q has stored it
  fam,         \* fam[q][w]: ... and as it is in FAM
  sharedDist,  \* sharedDist[q][w], famDist[q][w]: version of the segment's
  famDist,     \*   probabilities in the .pdist file
  sharedMark,  \* sharedMark[q], famMark[q]: the iteration at the end of the
  famMark,     \*   .pdist file
  sharedStat,  \* sharedStat[q], famStat[q]: runtimeStats[1], the iteration in
  famStat      \*   the .stats file

workerVars == <<wpc, iter, seen, taken>>
mainVars == <<mpc, round, pulled>>
stateVars == <<local, shared, fam>>
distVars == <<sharedDist, famDist, sharedMark, famMark>>
statVars == <<sharedStat, famStat>>
vars == <<workerVars, mainVars, stateVars, distVars, statVars>>

RoundType ==
  /\ wpc \in [Proc -> [Worker -> {"sample", "push", "pushDist", "converge",
                                   "barrier1", "barrier2", "done"}]]
  /\ iter \in [Proc -> [Worker -> 0 .. Iters]]
  /\ seen \in [Proc -> [Worker -> 0 .. Iters]]
  /\ taken \in [Proc -> [Worker -> 0 .. NumSamples]]
  /\ mpc \in [Proc -> {"barrier1", "persist", "mark", "persistDist", "pull",
                        "persistStats", "barrier2", "done"}]
  /\ round \in [Proc -> 0 .. Iters]
  /\ pulled \in [Proc -> SUBSET (Proc \X Worker)]
  /\ local \in [Proc -> [Proc -> [Worker -> Version]]]
  /\ shared \in [Proc -> [Worker -> Version]]
  /\ fam \in [Proc -> [Worker -> Version]]
  /\ sharedDist \in [Proc -> [Worker -> 0 .. Iters]]
  /\ famDist \in [Proc -> [Worker -> 0 .. Iters]]
  /\ sharedMark \in [Proc -> 0 .. Iters] /\ famMark \in [Proc -> 0 .. Iters]
  /\ sharedStat \in [Proc -> 0 .. Iters] /\ famStat \in [Proc -> 0 .. Iters]

-----------------------------------------------------------------------------
\* Every process has read all the labels into its own array, and stored those
\* of its partition in its .states file, without persisting them.  The files
\* are as the master created them: with zeros.  For the mark of a partition that has
\* all the vertices, as that of a single process, this is an assumption: its element
\* is the one that the memset leaves out (inference.cpp:772-773) and the master
\* writes to the file (824-825), so that it is what malloc returned, which is zero
\* in pages fresh from the kernel.  It lasts until the first mark reaches FAM.
Init ==
  /\ wpc = [p \in Proc |-> [w \in Worker |-> "sample"]]
  /\ iter = [p \in Proc |-> [w \in Worker |-> 0]]
  /\ seen = [p \in Proc |-> [w \in Worker |-> 0]]
  /\ taken = [p \in Proc |-> [w \in Worker |-> 0]]
  /\ mpc = [p \in Proc |-> "barrier1"]
  /\ round = [p \in Proc |-> 0]
  /\ pulled = [p \in Proc |-> {}]
  /\ local = [p \in Proc |-> [q \in Proc |-> [w \in Worker |-> 0]]]
  /\ shared = [q \in Proc |-> [w \in Worker |-> 0]]
  /\ fam = [q \in Proc |-> [w \in Worker |-> Blank]]
  /\ sharedDist = [q \in Proc |-> [w \in Worker |-> 0]]
  /\ famDist = [q \in Proc |-> [w \in Worker |-> 0]]
  /\ sharedMark = [q \in Proc |-> 0]
  /\ famMark = [q \in Proc |-> 0]
  /\ sharedStat = [q \in Proc |-> 0]
  /\ famStat = [q \in Proc |-> 0]

(***************************************************************************)
(* A worker thread                                                         *)
(***************************************************************************)
WorkerAt(p, w, here, next) ==
  /\ wpc[p][w] = here
  /\ wpc' = [wpc EXCEPT ![p][w] = next]

\* The for loop over the vertices of the segment.
Sample(p, w) ==
  /\ WorkerAt(p, w, "sample", "push")
  /\ local' = [local EXCEPT ![p][p][w] = iter[p][w] + 1]
  /\ UNCHANGED <<iter, seen, taken, mainVars, shared, fam, distVars, statVars>>

PushStates(p, w) ==
  /\ WorkerAt(p, w, "push", "pushDist")
  /\ shared' = [shared EXCEPT ![p][w] = local[p][p][w]]
  /\ UNCHANGED <<iter, seen, taken, mainVars, local, fam, distVars, statVars>>

\* The probabilities of the segment are counts divided by iter + 1.
PushDistribution(p, w) ==
  /\ WorkerAt(p, w, "pushDist", "converge")
  /\ sharedDist' = [sharedDist EXCEPT ![p][w] = iter[p][w] + 1]
  /\ UNCHANGED <<iter, seen, taken, mainVars, stateVars,
                 famDist, sharedMark, famMark, statVars>>

\* Mutant: the counter is compared before it is incremented.
SampleDueLate(p, w) == seen[p][w] >= Interval /\ taken[p][w] < NumSamples

SampleDue(p, w) == seen[p][w] + 1 >= Interval /\ taken[p][w] < NumSamples

\* computeConvergenceAtIteration: every Interval iterations the worker takes
\* the next of its samples.
ComputeConvergence(p, w) ==
  /\ WorkerAt(p, w, "converge", "barrier1")
  /\ IF ~ Statistics
       THEN UNCHANGED <<seen, taken>>
       ELSE IF SampleDue(p, w)
         THEN /\ seen' = [seen EXCEPT ![p][w] = 0]
              /\ taken' = [taken EXCEPT ![p][w] = @ + 1]
         ELSE /\ seen' = [seen EXCEPT ![p][w] = @ + 1]
              /\ UNCHANGED taken
  /\ UNCHANGED <<iter, mainVars, stateVars, distVars, statVars>>

(***************************************************************************)
(* The two pthread barriers, of T + 1 threads                              *)
(***************************************************************************)
\* Mutant: the workers do not wait at the second barrier.
AfterBarrier1Free(p) == "sample"

AfterBarrier1(p) == "barrier2"

Barrier1(p) ==
  /\ mpc[p] = "barrier1"
  /\ \A w \in Worker : wpc[p][w] = "barrier1"
  /\ wpc' = [wpc EXCEPT ![p] = [w \in Worker |-> AfterBarrier1(p)]]
  /\ mpc' = [mpc EXCEPT ![p] = "persist"]
  /\ UNCHANGED <<iter, seen, taken, round, pulled, stateVars, distVars, statVars>>

Barrier2(p) ==
  /\ mpc[p] = "barrier2"
  /\ \A w \in Worker : wpc[p][w] = "barrier2"
  /\ LET last == round[p] + 1 = Iters
     IN /\ wpc' = [wpc EXCEPT ![p] =
                     [w \in Worker |-> IF last THEN "done" ELSE "sample"]]
        /\ mpc' = [mpc EXCEPT ![p] = IF last THEN "done" ELSE "barrier1"]
  /\ iter' = [iter EXCEPT ![p] = [w \in Worker |-> @[w] + 1]]
  /\ round' = [round EXCEPT ![p] = @ + 1]
  /\ UNCHANGED <<seen, taken, pulled, stateVars, distVars, statVars>>

(***************************************************************************)
(* The main thread, between the barriers                                   *)
(***************************************************************************)
MainAt(p, here, next) ==
  /\ mpc[p] = here
  /\ mpc' = [mpc EXCEPT ![p] = next]
  /\ UNCHANGED <<workerVars, round>>

\* Mutant: the length of the last segment is left out.
PersistedButLast(p) ==
  [w \in Worker |-> IF w = T - 1 THEN fam[p][w] ELSE shared[p][w]]

Persisted(p) == shared[p]

PersistStates(p) ==
  /\ MainAt(p, "persist", "mark")
  /\ fam' = [fam EXCEPT ![p] = Persisted(p)]
  /\ UNCHANGED <<pulled, local, shared, distVars, statVars>>

\* Mutants: the index of the iteration, instead of its number; the number of
\* the iteration to come.
MarkIndex(p) == round[p]
MarkNext(p) == round[p] + 2

Mark(p) == round[p] + 1

StoreMark(p) ==
  /\ MainAt(p, "mark", "persistDist")
  /\ sharedMark' = [sharedMark EXCEPT ![p] = Mark(p)]
  /\ UNCHANGED <<pulled, stateVars, sharedDist, famDist, famMark, statVars>>

\* The probabilities and the mark behind them are persisted by one call.
PersistDistribution(p) ==
  /\ MainAt(p, "persistDist", "pull")
  /\ famDist' = [famDist EXCEPT ![p] = sharedDist[p]]
  /\ famMark' = [famMark EXCEPT ![p] = sharedMark[p]]
  /\ pulled' = [pulled EXCEPT ![p] = {}]
  /\ UNCHANGED <<stateVars, sharedDist, sharedMark, statVars>>

Remote(p) == (Proc \ {p}) \X Worker

\* Mutant: the process pulls from its own mapping.
OwnValue(p, q, w) == fam[p][w]

PulledValue(p, q, w) == fam[q][w]

\* globalArrayPullUpdates of partition q, one segment of the memcpy; the
\* partitions come one after the other.
Pull(p, q, w) ==
  /\ mpc[p] = "pull"
  /\ <<q, w>> \in Remote(p) \ pulled[p]
  /\ \A s \in Remote(p) : s[1] < q => s \in pulled[p]
  /\ local' = [local EXCEPT ![p][q][w] = PulledValue(p, q, w)]
  /\ pulled' = [pulled EXCEPT ![p] = @ \cup {<<q, w>>}]
  /\ UNCHANGED <<workerVars, mpc, round, shared, fam, distVars, statVars>>

\* Mutant: the main thread waits until the others have done this iteration.
PulledAllInStep(p) ==
  /\ pulled[p] = Remote(p)
  /\ \A q \in Proc : famMark[q] >= round[p] + 1

PulledAll(p) == pulled[p] = Remote(p)

\* The convergence sample the main thread adds up in this iteration, if any:
\* every Interval - 1 iterations, once a sample is complete.
\* Mutant: the divisor of the line below it.
CurrentSampleShort(p) == round[p] \div (Interval - 1)

CurrentSample(p) == round[p] \div Interval
ReadsSample(p) == round[p] % (Interval - 1) = 0 /\ CurrentSample(p) > 0

\* The sum over the samples, the iteration and the time go to the .stats file.
RecordStats(p) ==
  /\ PulledAll(p)
  /\ MainAt(p, "pull", "persistStats")
  /\ sharedStat' = [sharedStat EXCEPT ![p] = round[p] + 1]
  /\ UNCHANGED <<pulled, stateVars, distVars, famStat>>

PersistStats(p) ==
  /\ MainAt(p, "persistStats", "barrier2")
  /\ famStat' = [famStat EXCEPT ![p] = sharedStat[p]]
  /\ UNCHANGED <<pulled, stateVars, distVars, sharedStat>>

(***************************************************************************)
(* The cache of the node of process q writes back a line.                  *)
(***************************************************************************)
WriteBackStates(q, w) ==
  /\ fam' = [fam EXCEPT ![q][w] = shared[q][w]]
  /\ UNCHANGED <<workerVars, mainVars, local, shared, distVars, statVars>>

WriteBackDistribution(q, w) ==
  /\ famDist' = [famDist EXCEPT ![q][w] = sharedDist[q][w]]
  /\ UNCHANGED <<workerVars, mainVars, stateVars, sharedDist, sharedMark,
                 famMark, statVars>>

WriteBackMark(q) ==
  /\ famMark' = [famMark EXCEPT ![q] = sharedMark[q]]
  /\ UNCHANGED <<workerVars, mainVars, stateVars, sharedDist, famDist,
                 sharedMark, statVars>>

WriteBackStat(q) ==
  /\ famStat' = [famStat EXCEPT ![q] = sharedStat[q]]
  /\ UNCHANGED <<workerVars, mainVars, stateVars, distVars, sharedStat>>

WorkerStep(p, w) ==
  \/ Sample(p, w) \/ PushStates(p, w) \/ PushDistribution(p, w)
  \/ ComputeConvergence(p, w)

MainStep(p) ==
  \/ PersistStates(p) \/ StoreMark(p) \/ PersistDistribution(p)
  \/ \E q \in Proc, w \in Worker : Pull(p, q, w)
  \/ RecordStats(p) \/ PersistStats(p)

ThreadStep(p) ==
  \/ \E w \in Worker : WorkerStep(p, w)
  \/ Barrier1(p) \/ MainStep(p) \/ Barrier2(p)

WriteBack(q) ==
  \/ \E w \in Worker : WriteBackStates(q, w) \/ WriteBackDistribution(q, w)
  \/ WriteBackMark(q) \/ WriteBackStat(q)

Next == \E p \in Proc : ThreadStep(p) \/ WriteBack(p)

Spec == Init /\ [][Next]_vars

\* Only the threads of process 0 are known to be scheduled: the other
\* processes may be slow, or dead.
LonelySpec == Spec /\ WF_vars(ThreadStep(0))

-----------------------------------------------------------------------------
(***************************************************************************)
(* Properties                                                              *)
(***************************************************************************)
\* The states a process has of the other partitions change only while all its
\* workers stand between the two barriers: in one iteration all of them sample
\* against the same states.
PullsWhileWorkersWait ==
  [][\A p, q \in Proc : p # q /\ local'[p][q] # local[p][q]
                          => \A w \in Worker : wpc[p][w] = "barrier2"]_vars

\* The states a process has of another partition are states its owner has
\* computed: never ones of an iteration the owner has not reached.
RemoteStatesArePast ==
  \A p, q \in Proc, w \in Worker : local[p][q][w] <= local[q][q][w]

\* Whoever reads the mark of a partition in FAM, and then its states, finds
\* states of at least that iteration, whichever lines were written back when.
MarkAfterStates ==
  \A q \in Proc, w \in Worker : famMark[q] > 0 => fam[q][w] >= famMark[q]

\* The mark and the probabilities before it in the file are one iteration
\* apart at most.
MarkNearDistribution ==
  \A q \in Proc, w \in Worker :
    famDist[q][w] \in famMark[q] - 1 .. famMark[q] + 1

\* The .stats file does not announce an iteration before the mark does.
StatAfterMark == \A q \in Proc : famStat[q] <= famMark[q]

\* The files in FAM keep the promise of PublishedFiles, on which whoever reads
\* them while the engine samples depends.
Files == INSTANCE PublishedFiles
  WITH Segment <- Worker, dist <- famDist, mark <- famMark, stat <- famStat
ImplementsPublishedFiles == Files!Spec

\* A process that is through has its last iteration in FAM, all of it.
LastIterationPersisted ==
  \A q \in Proc :
    mpc[q] = "done" =>
      /\ \A w \in Worker : fam[q][w] = Iters /\ famDist[q][w] = Iters
      /\ famMark[q] = Iters /\ famStat[q] = Iters

\* What whoever reads the files in FAM may conclude from their marks, and what
\* is left there for those that come later.
FilesInOrder ==
  MarkAfterStates /\ MarkNearDistribution /\ StatAfterMark /\ LastIterationPersisted

ReadingSample(p) == mpc[p] = "pull" /\ PulledAll(p) /\ ReadsSample(p)

\* When the main thread adds up a convergence sample every worker has taken it.
SampleTaken ==
  \A p \in Proc : ReadingSample(p) => \A w \in Worker : taken[p][w] >= CurrentSample(p)

\* It is one of the "number of samples to be done", for which the array of the
\* samples is allocated.
SampleInArray ==
  \A p \in Proc : ReadingSample(p) => CurrentSample(p) <= NumSamples

\* The main thread counts the samples of its workers by a formula of its own
\* (lines 670 and 673): it adds up a sample all of them have taken, and one
\* the array has room for.
SamplesWhole == SampleTaken /\ SampleInArray

\* The label of a vertex, "the know state for vertices", is what every process
\* samples with.
KnownStatesKept ==
  \A p, q \in Proc, w \in Worker : wpc[p][w] = "sample" => local[p][q][w] # Blank

\* A process gets through all its iterations whatever the others do, with the
\* last of them in FAM.
FinishesAlone == <> (mpc[0] = "done" /\ \A w \in Worker : fam[0][w] = Iters)

(***************************************************************************)
(* The inductive invariant behind the safety properties.                   *)
(***************************************************************************)
Sampling == {"sample", "push", "pushDist", "converge", "barrier1"}

\* Between the barriers all workers wait, and all threads are in one iteration.
Phases ==
  \A p \in Proc :
    /\ mpc[p] = "done" <=> round[p] = Iters
    /\ \A w \in Worker :
         /\ iter[p][w] = round[p]
         /\ wpc[p][w] \in Sampling <=> mpc[p] = "barrier1"
         /\ wpc[p][w] = "done" <=> mpc[p] = "done"

\* How far the states and probabilities of a segment have got.
SegmentProgress ==
  \A p \in Proc, w \in Worker :
    LET at(pcs) == IF wpc[p][w] \in pcs THEN round[p] ELSE round[p] + 1
    IN /\ local[p][p][w] = at({"sample", "done"})
       /\ shared[p][w] = at({"sample", "push", "done"})
       /\ sharedDist[p][w] = at({"sample", "push", "pushDist", "done"})

\* ... and the files in FAM, which are behind by one iteration at most.
FileProgress ==
  \A p \in Proc :
    LET at(pcs) == IF mpc[p] \in pcs THEN round[p] ELSE round[p] + 1
    IN /\ sharedMark[p] = at({"barrier1", "persist", "mark", "done"})
       /\ sharedStat[p] = at({"barrier1", "persist", "mark", "persistDist", "pull", "done"})
       /\ famMark[p] \in at({"barrier1", "persist", "mark", "persistDist", "done"})
                          .. sharedMark[p]
       /\ famStat[p] \in at({"barrier1", "persist", "mark", "persistDist", "pull",
                             "persistStats", "done"}) .. sharedStat[p]
       /\ \A w \in Worker :
            /\ fam[p][w] <= shared[p][w]
            /\ round[p] > 0 \/ mpc[p] \notin {"barrier1", "persist"}
                 => fam[p][w] >= at({"barrier1", "persist", "done"})
            /\ famDist[p][w] \in at({"barrier1", "persist", "mark", "persistDist", "done"})
                                   .. sharedDist[p][w]

\* A worker has taken a sample for every Interval iterations it has done.
SamplesByIteration ==
  Statistics =>
    \A p \in Proc, w \in Worker :
      /\ seen[p][w] < Interval
      /\ taken[p][w] * Interval + seen[p][w]
           = IF wpc[p][w] \in {"barrier1", "barrier2"} THEN round[p] + 1 ELSE round[p]

RoundInv ==
  /\ RoundType
  /\ Phases
  /\ SegmentProgress
  /\ FileProgress
  /\ RemoteStatesArePast
  /\ SamplesByIteration

=============================================================================
