------------------------ MODULE InferenceRound_proofs ------------------------
(***************************************************************************)
(* Proofs about InferenceRound: for every number of processes, threads and *)
(* iterations.                                                             *)
(***************************************************************************)
EXTENDS InferenceRound, TLAPS

USE RoundAssumption

LEMMA WorkersExist == Worker # {}
  BY DEF Worker

\* Division of natural numbers, as far as it is needed here.
LEMMA DivNat == ASSUME NEW a \in Nat, NEW b \in Nat \ {0} PROVE a \div b \in Nat
  OBVIOUS

LEMMA DivBounds ==
  ASSUME NEW a \in Nat, NEW b \in Nat \ {0}, NEW k \in Nat
  PROVE  k <= a \div b <=> k * b <= a
<1>1. a \div b \in Nat
  BY DivNat
<1>2. b * (a \div b) <= a
  OBVIOUS
<1>3. a < b * (a \div b) + b
  OBVIOUS
<1> QED  BY <1>1, <1>2, <1>3

LEMMA OneMoreTime ==
  ASSUME NEW b \in Nat, NEW k \in Nat PROVE (k + 1) * b = k * b + b
  OBVIOUS

LEMMA SamplesNat == NumSamples \in Nat
<1>1. Iters \in Nat /\ Interval \in Nat \ {0}
  OBVIOUS
<1> QED  BY <1>1, DivNat DEF NumSamples

\* A worker that is not between the barriers is in an iteration to be done.
LEMMA InIteration ==
  ASSUME RoundInv, NEW p \in Proc, NEW w \in Worker, wpc[p][w] \in Sampling
  PROVE  /\ mpc[p] = "barrier1"
         /\ iter[p][w] = round[p]
         /\ round[p] \in 0 .. Iters /\ round[p] + 1 \in 0 .. Iters
<1>1. round[p] \in 0 .. Iters
  BY DEF RoundInv, RoundType
<1>2. mpc[p] = "barrier1" /\ iter[p][w] = round[p] /\ round[p] # Iters
  BY DEF RoundInv, Phases
<1> QED  BY <1>1, <1>2

\* Between the barriers the workers have pushed all of the iteration.
LEMMA BetweenBarriers ==
  ASSUME RoundInv, NEW p \in Proc, mpc[p] \notin {"barrier1", "done"}
  PROVE  /\ round[p] \in 0 .. Iters /\ round[p] + 1 \in 0 .. Iters
         /\ \A w \in Worker :
              /\ wpc[p][w] = "barrier2"
              /\ shared[p][w] = round[p] + 1
              /\ sharedDist[p][w] = round[p] + 1
<1>1. round[p] \in 0 .. Iters /\ round[p] # Iters
  BY DEF RoundInv, RoundType, Phases
<1>2. ASSUME NEW w \in Worker PROVE wpc[p][w] = "barrier2"
  BY DEF RoundInv, RoundType, Phases, Sampling
<1> QED  BY <1>1, <1>2 DEF RoundInv, SegmentProgress

\* What is in FAM is not newer than what its owner has computed.
LEMMA FamIsPast ==
  ASSUME RoundInv, NEW q \in Proc, NEW w \in Worker
  PROVE  fam[q][w] \in Version /\ fam[q][w] <= local[q][q][w]
<1>1. /\ fam[q][w] \in Version /\ shared[q][w] \in Version
      /\ local[q][q][w] \in Version /\ round[q] \in 0 .. Iters
  BY DEF RoundInv, RoundType
<1>2. fam[q][w] <= shared[q][w]
  BY DEF RoundInv, FileProgress
<1>3. shared[q][w] <= local[q][q][w]
  BY <1>1 DEF RoundInv, SegmentProgress
<1> QED  BY <1>1, <1>2, <1>3 DEF Version, Blank

LEMMA InitInv == Init => RoundInv
<1> SUFFICES ASSUME Init PROVE RoundInv
  OBVIOUS
<1> USE DEF Init
<1>1. RoundType
  <2>1. 0 \in 0 .. Iters /\ 0 \in Version /\ Blank \in Version /\ 0 \in 0 .. NumSamples
    BY SamplesNat DEF Version, Blank
  <2> QED  BY <2>1 DEF RoundType
<1>2. Phases /\ SegmentProgress /\ RemoteStatesArePast
  BY DEF Phases, Sampling, SegmentProgress, RemoteStatesArePast
<1>3. FileProgress
  BY DEF FileProgress, Blank
<1>4. SamplesByIteration
  BY DEF SamplesByIteration
<1> QED  BY <1>1, <1>2, <1>3, <1>4 DEF RoundInv

-----------------------------------------------------------------------------
(***************************************************************************)
(* The steps of a worker                                                   *)
(***************************************************************************)
LEMMA SampleStep ==
  ASSUME RoundInv, NEW p \in Proc, NEW w \in Worker, Sample(p, w)
  PROVE  RoundInv'
<1> USE DEF RoundInv, Sample, WorkerAt, mainVars, distVars, statVars
<1>1. RoundType'
  <2>1. iter[p][w] + 1 \in Version
    BY InIteration DEF Sampling, Version, Blank
  <2> QED  BY <2>1 DEF RoundType
<1>2. Phases'
  BY DEF RoundType, Phases, Sampling
<1>3. SegmentProgress'
  BY DEF RoundType, Phases, SegmentProgress, Version
<1>4. FileProgress'
  BY DEF RoundType, FileProgress
<1>5. RemoteStatesArePast'
  BY DEF RoundType, RemoteStatesArePast, SegmentProgress, Phases, Version, Blank
<1>6. SamplesByIteration'
  BY DEF RoundType, SamplesByIteration
<1> QED  BY <1>1, <1>2, <1>3, <1>4, <1>5, <1>6

LEMMA PushStatesStep ==
  ASSUME RoundInv, NEW p \in Proc, NEW w \in Worker, PushStates(p, w)
  PROVE  RoundInv'
<1> USE DEF RoundInv, PushStates, WorkerAt, mainVars, distVars, statVars
<1>1. RoundType'
  BY DEF RoundType
<1>2. Phases'
  BY DEF RoundType, Phases, Sampling
<1>3. SegmentProgress'
  BY DEF RoundType, SegmentProgress, Version, Blank
<1>4. FileProgress'
  BY DEF RoundType, FileProgress, SegmentProgress, Version, Blank
<1>5. RemoteStatesArePast'
  BY DEF RemoteStatesArePast
<1>6. SamplesByIteration'
  BY DEF RoundType, SamplesByIteration
<1> QED  BY <1>1, <1>2, <1>3, <1>4, <1>5, <1>6

LEMMA PushDistributionStep ==
  ASSUME RoundInv, NEW p \in Proc, NEW w \in Worker, PushDistribution(p, w)
  PROVE  RoundInv'
<1> USE DEF RoundInv, PushDistribution, WorkerAt, mainVars, stateVars, statVars
<1>1. RoundType'
  <2>1. iter[p][w] + 1 \in 0 .. Iters
    BY InIteration DEF Sampling
  <2> QED  BY <2>1 DEF RoundType
<1>2. Phases'
  BY DEF RoundType, Phases, Sampling
<1>3. SegmentProgress'
  BY DEF RoundType, SegmentProgress, Phases
<1>4. FileProgress'
  BY DEF RoundType, FileProgress, SegmentProgress, Phases
<1>5. RemoteStatesArePast'
  BY DEF RemoteStatesArePast
<1>6. SamplesByIteration'
  BY DEF RoundType, SamplesByIteration
<1> QED  BY <1>1, <1>2, <1>3, <1>4, <1>5, <1>6

\* The test of taken against NumSamples never holds a sample back.
LEMMA SampleInTime ==
  ASSUME RoundInv, Statistics, NEW p \in Proc, NEW w \in Worker,
         wpc[p][w] = "converge"
  PROVE  /\ seen[p][w] + 1 <= Interval
         /\ seen[p][w] + 1 = Interval => taken[p][w] + 1 <= NumSamples
         /\ seen[p][w] \in Nat /\ taken[p][w] \in Nat
         /\ taken[p][w] * Interval + seen[p][w] = round[p]
<1> DEFINE t == taken[p][w]
           s == seen[p][w]
<1>1. t \in Nat /\ s \in Nat
  BY SamplesNat DEF RoundInv, RoundType
<1>2. s < Interval /\ t * Interval + s = round[p]
  BY DEF RoundInv, SamplesByIteration
<1>3. round[p] \in Nat /\ round[p] + 1 <= Iters
  BY InIteration DEF Sampling
<1>4. ASSUME s + 1 = Interval PROVE t + 1 <= NumSamples
  <2>1. (t + 1) * Interval = round[p] + 1
    <3>1. (t + 1) * Interval = t * Interval + Interval
      BY <1>1, OneMoreTime
    <3>2. t * Interval \in Nat
      BY <1>1
    <3> QED  BY <1>1, <1>2, <1>3, <1>4, <3>1, <3>2
  <2>2. (t + 1) * Interval <= Iters
    BY <1>3, <2>1
  <2>3. t + 1 <= Iters \div Interval
    BY <1>1, <2>2, DivBounds
  <2> QED  BY <2>3 DEF NumSamples
<1> QED  BY <1>1, <1>2, <1>4

LEMMA ConvergeStep ==
  ASSUME RoundInv, NEW p \in Proc, NEW w \in Worker, ComputeConvergence(p, w)
  PROVE  RoundInv'
<1> USE DEF RoundInv, ComputeConvergence, WorkerAt, mainVars, stateVars, distVars,
            statVars
<1>1. RoundType' /\ SamplesByIteration'
  <2>1. CASE ~ Statistics
    BY <2>1 DEF RoundType, SamplesByIteration
  <2>2. CASE Statistics
    <3> DEFINE s == IF SampleDue(p, w) THEN 0 ELSE seen[p][w] + 1
               t == IF SampleDue(p, w) THEN taken[p][w] + 1 ELSE taken[p][w]
    <3>1. /\ seen' = [seen EXCEPT ![p][w] = s]
          /\ taken' = [taken EXCEPT ![p][w] = t]
      BY <2>2 DEF RoundType
    <3>2. s \in Nat /\ s < Interval /\ t \in 0 .. NumSamples
      BY <2>2, SampleInTime, SamplesNat DEF SampleDue, RoundType
    <3>3. t * Interval + s = round[p] + 1
      <4>1. /\ seen[p][w] \in Nat /\ taken[p][w] \in Nat
            /\ taken[p][w] * Interval + seen[p][w] = round[p]
            /\ seen[p][w] + 1 <= Interval
        BY <2>2, SampleInTime
      <4>2. CASE SampleDue(p, w)
        <5>1. seen[p][w] + 1 = Interval
          BY <4>1, <4>2 DEF SampleDue
        <5>2. (taken[p][w] + 1) * Interval = taken[p][w] * Interval + Interval
          BY <4>1, OneMoreTime
        <5>3. taken[p][w] * Interval \in Nat
          BY <4>1
        <5> QED  BY <4>1, <4>2, <5>1, <5>2, <5>3
      <4>3. CASE ~ SampleDue(p, w)
        <5>1. taken[p][w] * Interval \in Nat
          BY <4>1
        <5> QED  BY <4>1, <4>3, <5>1
      <4> QED  BY <4>2, <4>3
    <3>4. round[p] + 1 <= Iters /\ round[p] \in Nat
      BY InIteration DEF Sampling
    <3>5. s \in 0 .. Iters
      <4>1. t * Interval \in Nat
        BY <3>2, SamplesNat
      <4> QED  BY <3>2, <3>3, <3>4, <4>1
    <3>6. RoundType'
      BY <3>1, <3>2, <3>5 DEF RoundType
    <3>7. SamplesByIteration'
      BY <3>1, <3>2, <3>3, <2>2 DEF RoundType, SamplesByIteration
    <3> QED  BY <3>6, <3>7
  <2> QED  BY <2>1, <2>2 DEF RoundType
<1>2. Phases'
  BY DEF RoundType, Phases, Sampling
<1>3. SegmentProgress'
  BY DEF RoundType, SegmentProgress
<1>4. FileProgress' /\ RemoteStatesArePast'
  BY DEF FileProgress, RemoteStatesArePast
<1> QED  BY <1>1, <1>2, <1>3, <1>4

-----------------------------------------------------------------------------
(***************************************************************************)
(* The barriers                                                            *)
(***************************************************************************)
LEMMA Barrier1Step ==
  ASSUME RoundInv, NEW p \in Proc, Barrier1(p)
  PROVE  RoundInv'
<1> USE DEF RoundInv, Barrier1, AfterBarrier1, stateVars, distVars, statVars
<1>1. RoundType'
  BY DEF RoundType
<1>2. Phases'
  BY WorkersExist DEF RoundType, Phases, Sampling
<1>3. SegmentProgress'
  BY DEF RoundType, SegmentProgress
<1>4. FileProgress'
  BY DEF RoundType, FileProgress
<1>5. RemoteStatesArePast'
  BY DEF RemoteStatesArePast
<1>6. SamplesByIteration'
  BY DEF RoundType, SamplesByIteration
<1> QED  BY <1>1, <1>2, <1>3, <1>4, <1>5, <1>6

LEMMA Barrier2Step ==
  ASSUME RoundInv, NEW p \in Proc, Barrier2(p)
  PROVE  RoundInv'
<1> USE DEF RoundInv, Barrier2, stateVars, distVars, statVars
<1>1. RoundType'
  <2>1. /\ round[p] + 1 \in 0 .. Iters
        /\ \A w \in Worker : iter[p][w] + 1 \in 0 .. Iters
    BY BetweenBarriers DEF Phases
  <2> QED  BY <2>1 DEF RoundType
<1>2. Phases'
  BY DEF RoundType, Phases, Sampling
<1>3. SegmentProgress'
  BY DEF RoundType, SegmentProgress
<1>4. FileProgress'
  BY DEF RoundType, FileProgress
<1>5. RemoteStatesArePast'
  BY DEF RemoteStatesArePast
<1>6. SamplesByIteration'
  BY DEF RoundType, SamplesByIteration
<1> QED  BY <1>1, <1>2, <1>3, <1>4, <1>5, <1>6

-----------------------------------------------------------------------------
(***************************************************************************)
(* The steps of the main thread                                            *)
(***************************************************************************)
LEMMA PersistStatesStep ==
  ASSUME RoundInv, NEW p \in Proc, PersistStates(p)
  PROVE  RoundInv'
<1> USE DEF RoundInv, PersistStates, MainAt, workerVars, Persisted, distVars, statVars
<1>1. RoundType'
  BY DEF RoundType
<1>2. Phases'
  BY DEF RoundType, Phases, Sampling
<1>3. SegmentProgress'
  BY DEF RoundType, SegmentProgress
<1>4. FileProgress'
  BY BetweenBarriers DEF RoundType, FileProgress
<1>5. RemoteStatesArePast'
  BY DEF RoundType, RemoteStatesArePast, FileProgress, SegmentProgress
<1>6. SamplesByIteration'
  BY DEF RoundType, SamplesByIteration
<1> QED  BY <1>1, <1>2, <1>3, <1>4, <1>5, <1>6

LEMMA StoreMarkStep ==
  ASSUME RoundInv, NEW p \in Proc, StoreMark(p)
  PROVE  RoundInv'
<1> USE DEF RoundInv, StoreMark, MainAt, workerVars, Mark, stateVars, statVars
<1>1. RoundType'
  BY BetweenBarriers DEF RoundType
<1>2. Phases'
  BY DEF RoundType, Phases, Sampling
<1>3. SegmentProgress'
  BY DEF RoundType, SegmentProgress
<1>4. FileProgress'
  BY DEF RoundType, FileProgress, SegmentProgress, Phases
<1>5. RemoteStatesArePast'
  BY DEF RoundType, RemoteStatesArePast, FileProgress, SegmentProgress
<1>6. SamplesByIteration'
  BY DEF RoundType, SamplesByIteration
<1> QED  BY <1>1, <1>2, <1>3, <1>4, <1>5, <1>6

LEMMA PersistDistributionStep ==
  ASSUME RoundInv, NEW p \in Proc, PersistDistribution(p)
  PROVE  RoundInv'
<1> USE DEF RoundInv, PersistDistribution, MainAt, workerVars, stateVars, statVars
<1>1. RoundType'
  BY DEF RoundType
<1>2. Phases'
  BY DEF RoundType, Phases, Sampling
<1>3. SegmentProgress'
  BY DEF RoundType, SegmentProgress
<1>4. FileProgress'
  BY BetweenBarriers DEF RoundType, FileProgress
<1>5. RemoteStatesArePast'
  BY DEF RoundType, RemoteStatesArePast, FileProgress, SegmentProgress
<1>6. SamplesByIteration'
  BY DEF RoundType, SamplesByIteration
<1> QED  BY <1>1, <1>2, <1>3, <1>4, <1>5, <1>6

LEMMA PullStep ==
  ASSUME RoundInv, NEW p \in Proc, NEW q \in Proc, NEW w \in Worker, Pull(p, q, w)
  PROVE  RoundInv'
<1> USE DEF RoundInv, Pull, MainAt, workerVars, PulledValue, Remote, distVars, statVars
<1>1. RoundType'
  BY DEF RoundType
<1>2. Phases'
  BY DEF RoundType, Phases, Sampling
<1>3. SegmentProgress'
  BY DEF RoundType, SegmentProgress
<1>4. FileProgress'
  BY DEF RoundType, FileProgress, SegmentProgress, Phases
<1>5. RemoteStatesArePast'
  BY FamIsPast DEF RoundType, RemoteStatesArePast
<1>6. SamplesByIteration'
  BY DEF RoundType, SamplesByIteration
<1> QED  BY <1>1, <1>2, <1>3, <1>4, <1>5, <1>6

LEMMA RecordStatsStep ==
  ASSUME RoundInv, NEW p \in Proc, RecordStats(p)
  PROVE  RoundInv'
<1> USE DEF RoundInv, RecordStats, MainAt, workerVars, stateVars, distVars
<1>1. RoundType'
  BY BetweenBarriers DEF RoundType
<1>2. Phases'
  BY DEF RoundType, Phases, Sampling
<1>3. SegmentProgress'
  BY DEF RoundType, SegmentProgress
<1>4. FileProgress'
  BY DEF RoundType, FileProgress, SegmentProgress, Phases
<1>5. RemoteStatesArePast'
  BY DEF RoundType, RemoteStatesArePast, FileProgress, SegmentProgress
<1>6. SamplesByIteration'
  BY DEF RoundType, SamplesByIteration
<1> QED  BY <1>1, <1>2, <1>3, <1>4, <1>5, <1>6

LEMMA PersistStatsStep ==
  ASSUME RoundInv, NEW p \in Proc, PersistStats(p)
  PROVE  RoundInv'
<1> USE DEF RoundInv, PersistStats, MainAt, workerVars, stateVars, distVars
<1>1. RoundType'
  BY DEF RoundType
<1>2. Phases'
  BY DEF RoundType, Phases, Sampling
<1>3. SegmentProgress'
  BY DEF RoundType, SegmentProgress
<1>4. FileProgress'
  BY DEF RoundType, FileProgress, SegmentProgress, Phases
<1>5. RemoteStatesArePast'
  BY DEF RoundType, RemoteStatesArePast, FileProgress, SegmentProgress
<1>6. SamplesByIteration'
  BY DEF RoundType, SamplesByIteration
<1> QED  BY <1>1, <1>2, <1>3, <1>4, <1>5, <1>6

-----------------------------------------------------------------------------
(***************************************************************************)
(* Lines written back by a cache, and all steps together                   *)
(***************************************************************************)
LEMMA WriteBackStep ==
  ASSUME RoundInv, NEW q \in Proc, WriteBack(q)
  PROVE  RoundInv'
<1> USE DEF RoundInv, workerVars, mainVars, stateVars, distVars, statVars
<1>1. ASSUME NEW w \in Worker, WriteBackStates(q, w) PROVE RoundInv'
  <2> USE <1>1 DEF WriteBackStates
  <2>1. RoundType'
    BY DEF RoundType
  <2>2. FileProgress'
    BY DEF RoundType, FileProgress, Version, Blank
  <2>3. (Phases /\ SegmentProgress /\ RemoteStatesArePast /\ SamplesByIteration)'
    BY DEF Phases, SegmentProgress, RemoteStatesArePast, SamplesByIteration
  <2> QED  BY <2>1, <2>2, <2>3
<1>2. ASSUME NEW w \in Worker, WriteBackDistribution(q, w) PROVE RoundInv'
  <2> USE <1>2 DEF WriteBackDistribution
  <2>1. RoundType'
    BY DEF RoundType
  <2>2. FileProgress'
    BY DEF RoundType, FileProgress
  <2>3. (Phases /\ SegmentProgress /\ RemoteStatesArePast /\ SamplesByIteration)'
    BY DEF Phases, SegmentProgress, RemoteStatesArePast, SamplesByIteration
  <2> QED  BY <2>1, <2>2, <2>3
<1>3. ASSUME WriteBackMark(q) PROVE RoundInv'
  <2> USE <1>3 DEF WriteBackMark
  <2>1. RoundType'
    BY DEF RoundType
  <2>2. FileProgress'
    BY DEF RoundType, FileProgress
  <2>3. (Phases /\ SegmentProgress /\ RemoteStatesArePast /\ SamplesByIteration)'
    BY DEF Phases, SegmentProgress, RemoteStatesArePast, SamplesByIteration
  <2> QED  BY <2>1, <2>2, <2>3
<1>4. ASSUME WriteBackStat(q) PROVE RoundInv'
  <2> USE <1>4 DEF WriteBackStat
  <2>1. RoundType'
    BY DEF RoundType
  <2>2. FileProgress'
    BY DEF RoundType, FileProgress
  <2>3. (Phases /\ SegmentProgress /\ RemoteStatesArePast /\ SamplesByIteration)'
    BY DEF Phases, SegmentProgress, RemoteStatesArePast, SamplesByIteration
  <2> QED  BY <2>1, <2>2, <2>3
<1> QED  BY <1>1, <1>2, <1>3, <1>4 DEF WriteBack

LEMMA StepInv == RoundInv /\ [Next]_vars => RoundInv'
<1> SUFFICES ASSUME RoundInv, [Next]_vars PROVE RoundInv'
  OBVIOUS
<1>1. CASE UNCHANGED vars
  BY <1>1 DEF vars, workerVars, mainVars, stateVars, distVars, statVars, RoundInv,
     RoundType, Phases, SegmentProgress, FileProgress, RemoteStatesArePast,
     SamplesByIteration
<1>2. ASSUME NEW p \in Proc, NEW w \in Worker, WorkerStep(p, w) PROVE RoundInv'
  BY <1>2, SampleStep, PushStatesStep, PushDistributionStep, ConvergeStep
  DEF WorkerStep
<1>3. ASSUME NEW p \in Proc, MainStep(p) PROVE RoundInv'
  BY <1>3, PersistStatesStep, StoreMarkStep, PersistDistributionStep, PullStep,
     RecordStatsStep, PersistStatsStep DEF MainStep
<1> QED
  BY <1>1, <1>2, <1>3, Barrier1Step, Barrier2Step, WriteBackStep
  DEF Next, ThreadStep

\* The invariant of the sampling loop holds for every number of processes,
\* threads and iterations, and every order of their steps.
THEOREM RoundInvariance == Spec => []RoundInv
<1>1. QED  BY InitInv, StepInv, PTL DEF Spec

-----------------------------------------------------------------------------
(***************************************************************************)
(* What follows from the invariant                                         *)
(***************************************************************************)
LEMMA MarkProperties ==
  RoundInv => MarkAfterStates /\ MarkNearDistribution /\ StatAfterMark
<1> SUFFICES ASSUME RoundInv
             PROVE  MarkAfterStates /\ MarkNearDistribution /\ StatAfterMark
  OBVIOUS
<1> USE DEF RoundInv
<1>1. ASSUME NEW q \in Proc, NEW w \in Worker, famMark[q] > 0
      PROVE  fam[q][w] >= famMark[q]
  <2>1. /\ round[q] \in 0 .. Iters /\ famMark[q] \in 0 .. Iters
        /\ sharedMark[q] \in 0 .. Iters /\ fam[q][w] \in Version
    BY DEF RoundType
  <2>2. famMark[q] <= sharedMark[q]
    BY <2>1 DEF FileProgress
  <2>3. CASE mpc[q] \in {"barrier1", "persist", "done"}
    <3>1. famMark[q] <= round[q]
      BY <2>1, <2>2, <2>3 DEF FileProgress
    <3> QED  BY <1>1, <2>1, <2>3, <3>1 DEF FileProgress, Version, Blank
  <2>4. CASE mpc[q] \notin {"barrier1", "persist", "done"}
    <3>1. famMark[q] <= round[q] + 1
      BY <2>1, <2>2, <2>4 DEF FileProgress
    <3> QED  BY <2>1, <2>4, <3>1 DEF FileProgress, Version, Blank
  <2> QED  BY <2>3, <2>4
<1>2. ASSUME NEW q \in Proc, NEW w \in Worker
      PROVE  famDist[q][w] \in famMark[q] - 1 .. famMark[q] + 1
  <2>1. /\ round[q] \in 0 .. Iters /\ famMark[q] \in 0 .. Iters
        /\ famDist[q][w] \in 0 .. Iters
    BY DEF RoundType
  <2>2. famDist[q][w] \in round[q] .. round[q] + 1
    BY <2>1 DEF FileProgress, SegmentProgress
  <2>3. famMark[q] \in round[q] .. round[q] + 1
    BY <2>1 DEF FileProgress
  <2> QED  BY <2>1, <2>2, <2>3
<1>3. ASSUME NEW q \in Proc PROVE famStat[q] <= famMark[q]
  <2>1. /\ round[q] \in 0 .. Iters /\ famMark[q] \in 0 .. Iters
        /\ sharedStat[q] \in 0 .. Iters /\ famStat[q] \in 0 .. Iters
    BY DEF RoundType
  <2>2. famStat[q] <= sharedStat[q]
    BY <2>1 DEF FileProgress
  <2>3. sharedStat[q] <= famMark[q]
    BY <2>1 DEF FileProgress
  <2> QED  BY <2>1, <2>2, <2>3
<1> QED  BY <1>1, <1>2, <1>3 DEF MarkAfterStates, MarkNearDistribution, StatAfterMark

\* A reader who finds a mark in FAM finds the states of that iteration or later
\* ones behind it, for whatever order the caches write their lines back in.
THEOREM MarksAreSafe == Spec => []MarkAfterStates
<1>1. QED  BY RoundInvariance, MarkProperties, PTL

\* The mark and the probabilities of its file are one iteration apart at most.
THEOREM MarksAreNear == Spec => []MarkNearDistribution
<1>1. QED  BY RoundInvariance, MarkProperties, PTL

\* The statistics do not announce an iteration before the mark.
THEOREM StatsFollowMarks == Spec => []StatAfterMark
<1>1. QED  BY RoundInvariance, MarkProperties, PTL

\* Nobody has states of an iteration their owner has not reached.
THEOREM RemoteStates == Spec => []RemoteStatesArePast
<1>1. RoundInv => RemoteStatesArePast
  BY DEF RoundInv
<1> QED  BY <1>1, RoundInvariance, PTL

\* A process that is through has all of its last iteration in FAM.
THEOREM LastIteration == Spec => []LastIterationPersisted
<1>1. ASSUME RoundInv, NEW q \in Proc, mpc[q] = "done"
      PROVE  /\ \A w \in Worker : fam[q][w] = Iters /\ famDist[q][w] = Iters
             /\ famMark[q] = Iters /\ famStat[q] = Iters
  <2> USE <1>1 DEF RoundInv
  <2>1. round[q] = Iters /\ \A w \in Worker : wpc[q][w] = "done"
    BY DEF Phases
  <2>2. /\ famMark[q] \in Iters .. Iters /\ famStat[q] \in Iters .. Iters
    BY <2>1 DEF FileProgress
  <2>3. ASSUME NEW w \in Worker PROVE fam[q][w] = Iters /\ famDist[q][w] = Iters
    <3>1. /\ shared[q][w] = Iters /\ sharedDist[q][w] = Iters
          /\ fam[q][w] <= shared[q][w] /\ fam[q][w] >= Iters
          /\ famDist[q][w] \in Iters .. sharedDist[q][w]
      BY <2>1 DEF FileProgress, SegmentProgress
    <3>2. fam[q][w] \in Version
      BY DEF RoundType
    <3> QED  BY <3>1, <3>2 DEF Version, Blank
  <2> QED  BY <2>2, <2>3
<1>2. RoundInv => LastIterationPersisted
  BY <1>1 DEF LastIterationPersisted
<1> QED  BY <1>2, RoundInvariance, PTL

\* A process replaces the states of other partitions only while all its workers
\* stand between the barriers.
THEOREM PullsExcludeSampling == Spec => PullsWhileWorkersWait
<1> DEFINE A == \A p, q \in Proc : p # q /\ local'[p][q] # local[p][q]
                  => \A w \in Worker : wpc[p][w] = "barrier2"
<1>1. ASSUME RoundInv, [Next]_vars PROVE [A]_vars
  <2>1. ASSUME NEW p \in Proc, NEW q \in Proc, p # q, local'[p][q] # local[p][q],
               NEW w \in Worker
        PROVE  wpc[p][w] = "barrier2"
    <3>1. local \in [Proc -> [Proc -> [Worker -> Version]]]
      BY <1>1 DEF RoundInv, RoundType
    <3>2. ASSUME NEW r \in Proc, NEW v \in Worker, Sample(r, v) PROVE FALSE
      BY <2>1, <3>1, <3>2 DEF Sample
    <3>3. ASSUME NEW r \in Proc, NEW s \in Proc, NEW v \in Worker, Pull(r, s, v)
          PROVE  r = p
      BY <2>1, <3>1, <3>3 DEF Pull
    <3>4. ~ UNCHANGED local
      BY <2>1
    <3>5. ASSUME NEW r \in Proc, NEW v \in Worker PROVE ~ WorkerStep(r, v)
      BY <3>2, <3>4 DEF WorkerStep, PushStates, PushDistribution,
         ComputeConvergence, stateVars
    <3>6. ASSUME NEW r \in Proc
          PROVE  ~ (Barrier1(r) \/ Barrier2(r) \/ WriteBack(r))
      BY <3>4 DEF Barrier1, Barrier2, WriteBack, WriteBackStates,
         WriteBackDistribution, WriteBackMark, WriteBackStat, stateVars
    <3>7. ASSUME NEW r \in Proc, MainStep(r)
          PROVE  \E s \in Proc, v \in Worker : Pull(r, s, v)
      BY <3>4, <3>7 DEF MainStep, PersistStates, StoreMark, PersistDistribution,
         RecordStats, PersistStats, stateVars
    <3>8. PICK r \in Proc, s \in Proc, v \in Worker : Pull(r, s, v)
      BY <1>1, <3>4, <3>5, <3>6, <3>7 DEF Next, ThreadStep, vars, stateVars
    <3>9. mpc[p] = "pull"
      BY <3>3, <3>8 DEF Pull
    <3> QED  BY <1>1, <3>9, BetweenBarriers
  <2> QED  BY <2>1
<1>2. Spec => [][A]_vars
  BY <1>1, RoundInvariance, PTL DEF Spec
<1> QED  BY <1>2 DEF PullsWhileWorkersWait

-----------------------------------------------------------------------------
(***************************************************************************)
(* The files in FAM implement PublishedFiles                               *)
(***************************************************************************)
FilesKept == \A q \in Proc : Files!Promise(famDist[q], famMark[q], famStat[q])

LEMMA FilesKeepPromise == RoundInv => FilesKept
<1> SUFFICES ASSUME RoundInv, NEW q \in Proc
             PROVE  Files!Promise(famDist[q], famMark[q], famStat[q])
  BY DEF FilesKept
<1> USE DEF RoundInv
<1>1. ASSUME NEW w \in Worker PROVE famStat[q] <= famDist[q][w]
  <2>1. /\ round[q] \in 0 .. Iters /\ famDist[q][w] \in 0 .. Iters
        /\ sharedStat[q] \in 0 .. Iters /\ famStat[q] \in 0 .. Iters
    BY DEF RoundType
  <2>2. famStat[q] <= sharedStat[q]
    BY <2>1 DEF FileProgress
  <2>3. sharedStat[q] <= famDist[q][w]
    BY <2>1 DEF FileProgress
  <2> QED  BY <2>1, <2>2, <2>3
<1> QED
  BY <1>1, MarkProperties DEF Files!Promise, MarkNearDistribution, StatAfterMark

\* What FAM has is behind what the owner's mapping has.
LEMMA FilesBehind ==
  ASSUME RoundInv, NEW q \in Proc
  PROVE  /\ famMark[q] <= sharedMark[q] /\ famStat[q] <= sharedStat[q]
         /\ \A w \in Worker : famDist[q][w] <= sharedDist[q][w]
<1> USE DEF RoundInv
<1>1. /\ round[q] \in 0 .. Iters
      /\ famMark[q] \in 0 .. Iters /\ sharedMark[q] \in 0 .. Iters
      /\ famStat[q] \in 0 .. Iters /\ sharedStat[q] \in 0 .. Iters
  BY DEF RoundType
<1>2. famMark[q] <= sharedMark[q] /\ famStat[q] <= sharedStat[q]
  BY <1>1 DEF FileProgress
<1>3. ASSUME NEW w \in Worker PROVE famDist[q][w] <= sharedDist[q][w]
  <2>1. famDist[q][w] \in 0 .. Iters /\ sharedDist[q][w] \in 0 .. Iters
    BY DEF RoundType
  <2> QED  BY <1>1, <2>1 DEF FileProgress
<1> QED  BY <1>2, <1>3

\* A step that gives FAM more of what the owner of one partition has stored.
Publishes(q) ==
  \/ /\ famDist' = [famDist EXCEPT ![q] = sharedDist[q]]
     /\ famMark' = [famMark EXCEPT ![q] = sharedMark[q]]
     /\ UNCHANGED famStat
  \/ /\ \E w \in Worker : famDist' = [famDist EXCEPT ![q][w] = sharedDist[q][w]]
     /\ UNCHANGED <<famMark, famStat>>
  \/ /\ famMark' = [famMark EXCEPT ![q] = sharedMark[q]]
     /\ UNCHANGED <<famDist, famStat>>
  \/ /\ famStat' = [famStat EXCEPT ![q] = sharedStat[q]]
     /\ UNCHANGED <<famDist, famMark>>

LEMMA StepPublishes ==
  ASSUME [Next]_vars
  PROVE  UNCHANGED <<famDist, famMark, famStat>> \/ \E q \in Proc : Publishes(q)
<1> USE DEF distVars, statVars
<1>1. CASE UNCHANGED vars
  BY <1>1 DEF vars
<1>2. ASSUME NEW p \in Proc, NEW w \in Worker, WorkerStep(p, w)
      PROVE  UNCHANGED <<famDist, famMark, famStat>>
  BY <1>2 DEF WorkerStep, Sample, PushStates, PushDistribution, ComputeConvergence
<1>3. ASSUME NEW p \in Proc, Barrier1(p) \/ Barrier2(p)
      PROVE  UNCHANGED <<famDist, famMark, famStat>>
  BY <1>3 DEF Barrier1, Barrier2
<1>4. ASSUME NEW p \in Proc, MainStep(p)
      PROVE  UNCHANGED <<famDist, famMark, famStat>> \/ Publishes(p)
  BY <1>4 DEF MainStep, PersistStates, StoreMark, PersistDistribution, Pull,
     RecordStats, PersistStats, Publishes
<1>5. ASSUME NEW p \in Proc, WriteBack(p)
      PROVE  UNCHANGED <<famDist, famMark, famStat>> \/ Publishes(p)
  BY <1>5 DEF WriteBack, WriteBackStates, WriteBackDistribution, WriteBackMark,
     WriteBackStat, Publishes
<1> QED  BY <1>1, <1>2, <1>3, <1>4, <1>5 DEF Next, ThreadStep

LEMMA PublishesIsPublish ==
  ASSUME RoundInv, RoundInv', NEW q \in Proc, Publishes(q)
  PROVE  Files!Publish(q)
<1>1. /\ famDist \in [Proc -> [Worker -> 0 .. Iters]]
      /\ famDist' \in [Proc -> [Worker -> 0 .. Iters]]
      /\ famMark \in [Proc -> 0 .. Iters] /\ famMark' \in [Proc -> 0 .. Iters]
      /\ famStat \in [Proc -> 0 .. Iters] /\ famStat' \in [Proc -> 0 .. Iters]
  BY DEF RoundInv, RoundType
<1>2. Files!Promise(famDist'[q], famMark'[q], famStat'[q])
  <2>1. FilesKept'
    BY FilesKeepPromise, PTL
  <2> QED  BY <2>1 DEF FilesKept
<1>3. /\ famMark[q] <= famMark'[q] /\ famStat[q] <= famStat'[q]
      /\ \A w \in Worker : famDist[q][w] <= famDist'[q][w]
  BY <1>1, FilesBehind DEF Publishes
<1>4. /\ famDist' = [famDist EXCEPT ![q] = famDist'[q]]
      /\ famMark' = [famMark EXCEPT ![q] = famMark'[q]]
      /\ famStat' = [famStat EXCEPT ![q] = famStat'[q]]
  BY <1>1 DEF Publishes
<1>5. /\ famDist'[q] \in [Worker -> 0 .. Iters]
      /\ famMark'[q] \in 0 .. Iters /\ famStat'[q] \in 0 .. Iters
  BY <1>1
<1> QED
  BY <1>2, <1>3, <1>4, <1>5 DEF Files!Publish, Files!Version

\* The sampling loop, with its persists and the caches' write-backs, keeps the
\* promise on which the query service reads the files of a running engine.
THEOREM FilesImplementation == Spec => ImplementsPublishedFiles
<1>1. Init => Files!Init
  BY DEF Init, Files!Init
<1>2. RoundInv /\ RoundInv' /\ [Next]_vars => [Files!Next]_Files!vars
  BY StepPublishes, PublishesIsPublish DEF Files!Next, Files!vars
<1> QED
  BY <1>1, <1>2, RoundInvariance, PTL DEF Spec, Files!Spec, ImplementsPublishedFiles

-----------------------------------------------------------------------------
LEMMA SamplesReady ==
  ASSUME Statistics, RoundInv PROVE SampleTaken /\ SampleInArray
<1> USE DEF RoundInv
<1>1. ASSUME NEW p \in Proc, ReadingSample(p), NEW w \in Worker
      PROVE  taken[p][w] >= CurrentSample(p)
  <2> DEFINE t == taken[p][w]
             s == seen[p][w]
             c == CurrentSample(p)
  <2>1. mpc[p] = "pull" /\ wpc[p][w] = "barrier2" /\ round[p] \in Nat
    BY <1>1, BetweenBarriers DEF ReadingSample
  <2>2. t \in Nat /\ s \in Nat
    BY SamplesNat DEF RoundType
  <2>3. s < Interval /\ t * Interval + s = round[p] + 1
    BY <2>1 DEF SamplesByIteration
  <2>4. c \in Nat /\ c * Interval <= round[p]
    BY <2>1, DivNat, DivBounds DEF CurrentSample
  <2>5. (t + 1) * Interval = t * Interval + Interval
    BY <2>2, OneMoreTime
  <2>6. t * Interval \in Nat /\ (t + 1) * Interval \in Nat /\ c * Interval \in Nat
    BY <2>2, <2>4
  <2>7. c * Interval < (t + 1) * Interval
    BY <2>1, <2>2, <2>3, <2>4, <2>5, <2>6
  <2>8. c < t + 1
    BY <2>2, <2>4, <2>7
  <2> QED  BY <2>2, <2>4, <2>8
<1>2. ASSUME NEW p \in Proc, ReadingSample(p)
      PROVE  CurrentSample(p) <= NumSamples
  <2>1. round[p] \in Nat /\ round[p] <= Iters
    BY DEF RoundType
  <2>2. CurrentSample(p) \in Nat /\ CurrentSample(p) * Interval <= round[p]
    BY <2>1, DivNat, DivBounds DEF CurrentSample
  <2>3. CurrentSample(p) * Interval <= Iters
    BY <2>1, <2>2
  <2>4. CurrentSample(p) <= Iters \div Interval
    BY <2>2, <2>3, DivBounds
  <2> QED  BY <2>4 DEF NumSamples
<1> QED  BY <1>1, <1>2 DEF SampleTaken, SampleInArray

\* With statistics on, a sample the main thread adds up has been taken by every
\* worker.
THEOREM SamplesAreTaken ==
  ASSUME Statistics PROVE Spec => []SampleTaken
<1>1. RoundInv => SampleTaken
  BY SamplesReady
<1> QED  BY <1>1, RoundInvariance, PTL

\* With statistics on, that sample is one the array has room for.
THEOREM SamplesFitTheArray ==
  ASSUME Statistics PROVE Spec => []SampleInArray
<1>1. RoundInv => SampleInArray
  BY SamplesReady
<1> QED  BY <1>1, RoundInvariance, PTL

\* With statistics on, samples are whole when the main thread adds them up, and
\* lie within their array.
THEOREM SamplesAreWhole ==
  ASSUME Statistics PROVE Spec => []SamplesWhole
<1>1. QED  BY SamplesAreTaken, SamplesFitTheArray, PTL DEF SamplesWhole

\* The files in FAM are in order whenever somebody reads them.
THEOREM FilesAreInOrder == Spec => []FilesInOrder
<1>1. QED
  BY MarksAreSafe, MarksAreNear, StatsFollowMarks, LastIteration, PTL DEF FilesInOrder

=============================================================================
