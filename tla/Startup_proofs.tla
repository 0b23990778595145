--------------------------- MODULE Startup_proofs ----------------------------
(***************************************************************************)
(* Proofs about ProcessSync and EngineStartup, for every number of         *)
(* processes and launches.                                                 *)
(*                                                                         *)
(* The heart is ScanCountsArrivals: as long as somebody has not announced  *)
(* barrier k, nobody is beyond k, hence no counter exceeds k, hence a sum  *)
(* over N counters can reach N * k only if every one of them is k.  What   *)
(* the barriers guarantee carries over to the start-up code, because a     *)
(* step of it is a step of the barrier code, a stutter of it, or the death *)
(* of a process.                                                           *)
(***************************************************************************)
EXTENDS EngineStartup, TLAPS

-----------------------------------------------------------------------------
(***************************************************************************)
(* Type correctness                                                        *)
(***************************************************************************)
LEMMA InitType == Init => TypeOK
  BY NAssumption, LaunchesAssumption
  DEF Init, TypeOK, Proc, LastBarrier, Running, Stopped

\* Every step, a kill included, keeps the variables in their types.
LEMMA StepType == TypeOK /\ [KillNext]_vars => TypeOK'
<1> SUFFICES ASSUME TypeOK, [KillNext]_vars PROVE TypeOK'
  OBVIOUS
<1> USE NAssumption, LaunchesAssumption
    DEF TypeOK, Proc, LastBarrier, Running, Stopped, Goto,
        scanVars, barrierVars, launchVars
<1>1. CASE Launch
  BY <1>1 DEF Launch
<1>2. ASSUME NEW p \in Proc, Step(p) PROVE TypeOK'
  <2>1. CASE FindBarrierFile(p)
    BY <2>1 DEF FindBarrierFile
  <2>2. CASE CreateBarrierFile(p)
    BY <2>2 DEF CreateBarrierFile, Creates
  <2>3. CASE SizeBarrierFile(p)
    BY <2>3 DEF SizeBarrierFile
  <2>4. CASE MissBarrierFile(p)
    BY <2>4 DEF MissBarrierFile
  <2>5. CASE AwaitBarrierFile(p)
    BY <2>5 DEF AwaitBarrierFile
  <2>6. CASE MapBarrierFile(p)
    BY <2>6 DEF MapBarrierFile
  <2>7. CASE InitCounter(p)
    BY <2>7 DEF InitCounter, Cleared
  <2>8. CASE Announce(p)
    BY <2>8 DEF Announce, StoredValue
  <2>9. CASE ReadCounter(p)
    <3>1. idx[p] \in Proc /\ idx[p] + 1 \in 0 .. N
      BY <2>9 DEF ReadCounter
    <3>2. sum[p] \in Nat /\ counter[idx[p]] \in 0 .. 2
      BY <3>1
    <3>3. sum[p] + counter[idx[p]] \in Nat
      BY <3>2
    <3>4. QED BY <2>9, <3>1, <3>3 DEF ReadCounter
  <2>10. CASE Rescan(p)
    BY <2>10 DEF Rescan
  <2>11. CASE Leave(p)
    BY <2>11 DEF Leave
  <2>12. CASE ClearBarrier(p)
    BY <2>12 DEF ClearBarrier, Cleared
  <2>13. CASE RefuseGraph(p)
    BY <2>13 DEF RefuseGraph
  <2>14. QED
    BY <1>2, <2>1, <2>2, <2>3, <2>4, <2>5, <2>6, <2>7, <2>8, <2>9, <2>10,
       <2>11, <2>12, <2>13 DEF Step, SyncStep
<1>3. ASSUME NEW p \in Proc, Kill(p) PROVE TypeOK'
  BY <1>3 DEF Kill
<1>4. CASE UNCHANGED vars
  BY <1>4 DEF vars
<1>5. QED
  BY <1>1, <1>2, <1>3, <1>4 DEF KillNext, Next

\* The variables keep their types whatever is killed.
THEOREM TypeCorrect == KillSpec => []TypeOK
<1>1. QED BY InitType, StepType, PTL DEF KillSpec

-----------------------------------------------------------------------------
(***************************************************************************)
(* The scan lemma                                                          *)
(***************************************************************************)
\* While r has not announced p's barrier, no counter exceeds its number, and a
\* counter that equals it belongs to a process that has announced it.
LEMMA NoCounterAhead ==
  ASSUME TypeOK, PhaseByLocation, CounterBelowPhase, BarrierSafety,
         NEW p \in Proc, NEW q \in Proc, NEW r \in Proc, phase[r] < phase[p]
  PROVE  /\ counter[q] <= phase[p]
         /\ counter[q] = phase[p] => phase[q] >= phase[p]
<1>1. counter[q] <= phase[q]
  BY DEF CounterBelowPhase
<1>2. phase[q] <= left[q] + 1
  BY DEF PhaseByLocation, TypeOK, LastBarrier
<1>3. left[q] <= phase[r]
  BY DEF BarrierSafety
<1>4. QED
  BY <1>1, <1>2, <1>3 DEF TypeOK, LastBarrier

\* A scan that has read every counter and reached N * k has found that
\* everybody announced barrier k.
LEMMA ReachedMeansAnnounced ==
  ASSUME TypeOK, PhaseByLocation, ScanCountsArrivals,
         NEW p \in Proc, pc[p] = "wait", idx[p] = N, Reached(p)
  PROVE  \A q \in Proc : phase[q] >= phase[p]
<1> SUFFICES ASSUME NEW r \in Proc, phase[r] < phase[p] PROVE FALSE
  BY DEF TypeOK, LastBarrier
<1> USE NAssumption
<1>1. phase[p] \in {1, 2}
  BY DEF TypeOK, LastBarrier
<1>2. /\ sum[p] <= phase[p] * N
      /\ sum[p] = phase[p] * N => \A q \in Proc : q < N => phase[q] >= phase[p]
  BY DEF ScanCountsArrivals
<1>3. sum[p] >= N * phase[p] /\ sum[p] \in Nat
  BY DEF Reached, TypeOK
<1>4. sum[p] = phase[p] * N
  BY <1>1, <1>2, <1>3
<1>5. phase[r] >= phase[p]
  BY <1>2, <1>4 DEF Proc
<1>6. QED BY <1>5 DEF TypeOK, LastBarrier

-----------------------------------------------------------------------------
(***************************************************************************)
(* The invariant                                                           *)
(***************************************************************************)
LEMMA InitInv == Init => SyncInv
<1> SUFFICES ASSUME Init PROVE SyncInv
  OBVIOUS
<1>1. TypeOK
  BY InitType
<1>2. QED
  BY <1>1 DEF Init, SyncInv, PhaseByLocation, CounterBelowPhase,
              ScanCountsArrivals, BarrierSafety, Proc, Running

\* A step that leaves counters, phases and scans alone, and moves p between
\* locations with the same phase, keeps the invariant.
LEMMA QuietStep ==
  ASSUME SyncInv, TypeOK', NEW p \in Proc,
         NEW where \in {"map", "truncate", "await", "zero", "fault", "off"},
         pc' = [pc EXCEPT ![p] = where],
         where \in {"map", "truncate", "await", "zero"} => phase[p] = 0 /\ left[p] = 0,
         UNCHANGED <<counter, phase, left, idx, sum, clean>>
  PROVE  SyncInv'
<1>1. PhaseByLocation'
  BY DEF SyncInv, TypeOK, PhaseByLocation, Running
<1>2. clean' => CounterBelowPhase' /\ BarrierSafety'
  BY DEF SyncInv, CounterBelowPhase, BarrierSafety
<1>3. clean' => ScanCountsArrivals'
  BY DEF SyncInv, TypeOK, ScanCountsArrivals
<1>4. QED BY <1>1, <1>2, <1>3 DEF SyncInv

\* The same of a step that sets some counters back to 0.
LEMMA ClearingStep ==
  ASSUME SyncInv, TypeOK', NEW p \in Proc,
         NEW where \in {"map", "prepare", "off"},
         pc' = [pc EXCEPT ![p] = where],
         where \in {"map", "prepare"} => phase[p] = 0 /\ left[p] = 0,
         \A q \in Proc : counter'[q] \in {0, counter[q]},
         UNCHANGED <<phase, left, idx, sum, clean>>
  PROVE  SyncInv'
<1>1. PhaseByLocation'
  BY DEF SyncInv, TypeOK, PhaseByLocation, Running
<1>2. clean' => CounterBelowPhase' /\ BarrierSafety'
  BY DEF SyncInv, TypeOK, CounterBelowPhase, BarrierSafety, LastBarrier
<1>3. clean' => ScanCountsArrivals'
  BY DEF SyncInv, TypeOK, ScanCountsArrivals
<1>4. QED BY <1>1, <1>2, <1>3 DEF SyncInv

LEMMA AnnounceInv ==
  ASSUME SyncInv, TypeOK', NEW p \in Proc, Announce(p)
  PROVE  SyncInv'
<1> USE DEF SyncInv, Announce, StoredValue, Goto, launchVars
<1>1. PICK k \in {1, 2} :
        /\ phase' = [phase EXCEPT ![p] = k]
        /\ counter' = [counter EXCEPT ![p] = k]
        /\ phase[p] = k - 1 /\ left[p] = k - 1
  <2>1. CASE pc[p] = "prepare"
    <3>1. phase[p] = 0 /\ left[p] = 0
      BY <2>1 DEF PhaseByLocation, Running
    <3>2. QED BY <2>1, <3>1
  <2>2. CASE pc[p] = "load"
    <3>1. phase[p] = 1 /\ left[p] = 1
      BY <2>2 DEF PhaseByLocation, Running
    <3>2. QED BY <2>2, <3>1
  <2>3. QED BY <2>1, <2>2
<1>2. PhaseByLocation'
  BY <1>1 DEF TypeOK, PhaseByLocation, Running
<1>3. clean' => CounterBelowPhase'
  BY <1>1 DEF TypeOK, CounterBelowPhase
<1>4. clean' => BarrierSafety'
  BY <1>1 DEF TypeOK, BarrierSafety, LastBarrier
<1>5. clean' => ScanCountsArrivals'
  <2> SUFFICES ASSUME clean, NEW s \in Proc, (pc[s] = "wait")',
                      NEW r \in Proc, (phase[r] < phase[s])'
               PROVE  /\ (sum[s] <= phase[s] * idx[s])'
                      /\ (sum[s] = phase[s] * idx[s])'
                           => \A q \in Proc : q < idx'[s] => (phase[q] >= phase[s])'
    BY DEF ScanCountsArrivals
  <2>1. CASE s = p
    BY <2>1, <1>1, NAssumption DEF TypeOK, Proc
  <2>2. CASE s # p
    <3>1. /\ pc[s] = "wait" /\ phase'[s] = phase[s]
          /\ idx'[s] = idx[s] /\ sum'[s] = sum[s]
      BY <2>2, <1>1 DEF TypeOK
    <3>2. \A q \in Proc : phase[q] <= phase'[q]
      BY <1>1 DEF TypeOK, LastBarrier
    <3>3. phase[r] < phase[s]
      BY <3>1, <3>2 DEF TypeOK, LastBarrier
    <3>4. /\ sum[s] <= phase[s] * idx[s]
          /\ sum[s] = phase[s] * idx[s]
               => \A q \in Proc : q < idx[s] => phase[q] >= phase[s]
      BY <3>1, <3>3 DEF ScanCountsArrivals
    <3>5. QED
      BY <3>1, <3>2, <3>4 DEF TypeOK, LastBarrier
  <2>3. QED BY <2>1, <2>2
<1>6. QED BY <1>2, <1>3, <1>4, <1>5

LEMMA ReadCounterInv ==
  ASSUME SyncInv, TypeOK', NEW p \in Proc, ReadCounter(p)
  PROVE  SyncInv'
<1> USE DEF SyncInv, ReadCounter, barrierVars, launchVars
<1>1. PhaseByLocation'
  BY DEF PhaseByLocation
<1>2. clean' => CounterBelowPhase' /\ BarrierSafety'
  BY DEF CounterBelowPhase, BarrierSafety
<1>3. clean' => ScanCountsArrivals'
  <2> SUFFICES ASSUME clean, NEW s \in Proc, pc[s] = "wait",
                      NEW r \in Proc, phase[r] < phase[s]
               PROVE  /\ sum'[s] <= phase[s] * idx'[s]
                      /\ sum'[s] = phase[s] * idx'[s]
                           => \A q \in Proc : q < idx'[s] => phase[q] >= phase[s]
    BY DEF ScanCountsArrivals
  <2>1. /\ sum[s] <= phase[s] * idx[s]
        /\ sum[s] = phase[s] * idx[s]
             => \A q \in Proc : q < idx[s] => phase[q] >= phase[s]
    BY DEF ScanCountsArrivals
  <2>2. CASE s # p
    BY <2>1, <2>2 DEF TypeOK
  <2>3. CASE s = p
    <3> DEFINE q == idx[p]
    <3>1. q \in Proc /\ q \in Nat
      <4>1. q \in 0 .. N /\ q < N
        BY DEF TypeOK
      <4>2. QED BY <4>1, NAssumption DEF Proc
    <3>2. /\ counter[q] <= phase[p]
          /\ counter[q] = phase[p] => phase[q] >= phase[p]
      BY <2>3, <3>1, NoCounterAhead
    <3>3. /\ phase[p] \in {1, 2} /\ counter[q] \in 0 .. 2 /\ sum[p] \in Nat
          /\ idx'[p] = q + 1 /\ sum'[p] = sum[p] + counter[q]
      BY <2>3, <3>1 DEF TypeOK, LastBarrier
    <3>4. phase[p] * (q + 1) = phase[p] * q + phase[p]
      BY <3>1, <3>3
    <3> HIDE DEF q
    <3>5. phase[p] * q \in Nat
      BY <3>1, <3>3
    <3>6. sum'[p] <= phase[p] * idx'[p]
      BY <2>1, <2>3, <3>2, <3>3, <3>4, <3>5 DEF q
    <3>7. ASSUME sum'[p] = phase[p] * idx'[p], NEW x \in Proc, x < idx'[p]
          PROVE  phase[x] >= phase[p]
      <4>1. sum[p] = phase[p] * q /\ counter[q] = phase[p]
        BY <2>1, <2>3, <3>2, <3>3, <3>4, <3>5, <3>7 DEF q
      <4>2. x < q \/ x = q
        BY <3>1, <3>3, <3>7 DEF Proc
      <4>3. QED BY <2>1, <2>3, <3>2, <4>1, <4>2 DEF q
    <3>8. QED BY <2>3, <3>6, <3>7
  <2>4. QED BY <2>2, <2>3
<1>4. QED BY <1>1, <1>2, <1>3

LEMMA RescanInv ==
  ASSUME SyncInv, TypeOK', NEW p \in Proc, Rescan(p)
  PROVE  SyncInv'
<1> USE DEF SyncInv, Rescan, barrierVars, launchVars
<1>1. PhaseByLocation'
  BY DEF PhaseByLocation
<1>2. clean' => CounterBelowPhase' /\ BarrierSafety'
  BY DEF CounterBelowPhase, BarrierSafety
<1>3. clean' => ScanCountsArrivals'
  <2> SUFFICES ASSUME clean, NEW s \in Proc, pc[s] = "wait",
                      NEW r \in Proc, phase[r] < phase[s]
               PROVE  /\ sum'[s] <= phase[s] * idx'[s]
                      /\ sum'[s] = phase[s] * idx'[s]
                           => \A q \in Proc : q < idx'[s] => phase[q] >= phase[s]
    BY DEF ScanCountsArrivals
  <2>1. CASE s = p
    <3>1. sum'[p] = 0 /\ idx'[p] = 0 /\ phase[p] \in Int
      BY DEF TypeOK, LastBarrier
    <3>2. QED BY <2>1, <3>1, NAssumption DEF Proc
  <2>2. CASE s # p
    BY <2>2 DEF TypeOK, ScanCountsArrivals
  <2>3. QED BY <2>1, <2>2
<1>4. QED BY <1>1, <1>2, <1>3

LEMMA LeaveInv ==
  ASSUME SyncInv, TypeOK', NEW p \in Proc, Leave(p)
  PROVE  SyncInv'
<1> USE DEF SyncInv, Leave, Goto, scanVars, launchVars
<1>1. PhaseByLocation'
  BY DEF TypeOK, PhaseByLocation, Running, LastBarrier
<1>2. clean' => CounterBelowPhase'
  BY DEF CounterBelowPhase
<1>3. clean' => ScanCountsArrivals'
  BY DEF TypeOK, ScanCountsArrivals
<1>4. clean' => BarrierSafety'
  BY ReachedMeansAnnounced DEF TypeOK, BarrierSafety
<1>5. QED BY <1>1, <1>2, <1>3, <1>4

LEMMA LaunchInv == SyncInv /\ TypeOK' /\ Launch => SyncInv'
<1> SUFFICES ASSUME SyncInv, TypeOK', Launch PROVE SyncInv'
  OBVIOUS
<1> USE DEF SyncInv, Launch
<1>1. PhaseByLocation'
  BY DEF PhaseByLocation, Running
<1>2. clean' => \A p \in Proc : counter[p] = 0
  BY Zenon
<1>3. clean' => CounterBelowPhase' /\ BarrierSafety'
  <2> SUFFICES ASSUME clean' PROVE CounterBelowPhase' /\ BarrierSafety'
    OBVIOUS
  <2>1. \A p \in Proc : counter'[p] = 0 /\ phase'[p] = 0 /\ left'[p] = 0
    BY <1>2
  <2>2. QED BY <2>1 DEF CounterBelowPhase, BarrierSafety
<1>4. clean' => ScanCountsArrivals'
  BY DEF ScanCountsArrivals
<1>5. QED BY <1>1, <1>3, <1>4

\* Every step of a process, every launch and every kill keeps the invariant.
LEMMA StepInv == SyncInv /\ [KillNext]_vars => SyncInv'
<1> SUFFICES ASSUME SyncInv, [KillNext]_vars PROVE SyncInv'
  OBVIOUS
<1> TypeOK'
  BY StepType DEF SyncInv
<1> USE DEF Goto, barrierVars, scanVars, launchVars
<1>1. CASE Launch
  BY <1>1, LaunchInv
<1>2. ASSUME NEW p \in Proc, Step(p) PROVE SyncInv'
  <2>0. pc[p] \in {"stat", "truncate", "await", "map", "zero"}
          => phase[p] = 0 /\ left[p] = 0
    BY DEF SyncInv, PhaseByLocation, Running
  <2>1. CASE FindBarrierFile(p)
    BY <2>0, <2>1, QuietStep DEF FindBarrierFile
  <2>2. CASE CreateBarrierFile(p)
    BY <2>0, <2>2, QuietStep DEF CreateBarrierFile, Creates
  <2>3. CASE SizeBarrierFile(p)
    BY <2>0, <2>3, ClearingStep DEF SizeBarrierFile
  <2>4. CASE MissBarrierFile(p)
    BY <2>0, <2>4, QuietStep DEF MissBarrierFile
  <2>5. CASE AwaitBarrierFile(p)
    BY <2>0, <2>5, QuietStep DEF AwaitBarrierFile
  <2>6. CASE MapBarrierFile(p)
    <3>1. CASE file = "sized"
      BY <2>0, <2>6, <3>1, QuietStep DEF MapBarrierFile
    <3>2. CASE file # "sized"
      BY <2>6, <3>2, QuietStep DEF MapBarrierFile
    <3>3. QED BY <3>1, <3>2
  <2>7. CASE InitCounter(p)
    <3>1. \A q \in Proc : counter'[q] \in {0, counter[q]}
      BY <2>7 DEF InitCounter, Cleared, SyncInv, TypeOK
    <3>2. QED BY <2>0, <2>7, <3>1, ClearingStep DEF InitCounter, Cleared
  <2>8. CASE Announce(p)
    BY <2>8, AnnounceInv
  <2>9. CASE ReadCounter(p)
    BY <2>9, ReadCounterInv
  <2>10. CASE Rescan(p)
    BY <2>10, RescanInv
  <2>11. CASE Leave(p)
    BY <2>11, LeaveInv
  <2>12. CASE ClearBarrier(p)
    <3>1. \A q \in Proc : counter'[q] \in {0, counter[q]}
      BY <2>12 DEF ClearBarrier, Cleared, SyncInv, TypeOK
    <3>2. QED BY <2>12, <3>1, ClearingStep DEF ClearBarrier, Cleared
  <2>13. CASE RefuseGraph(p)
    BY <2>13, QuietStep DEF RefuseGraph
  <2>14. QED
    BY <1>2, <2>1, <2>2, <2>3, <2>4, <2>5, <2>6, <2>7, <2>8, <2>9, <2>10,
       <2>11, <2>12, <2>13 DEF Step, SyncStep
<1>3. ASSUME NEW p \in Proc, Kill(p) PROVE SyncInv'
  BY <1>3, QuietStep DEF Kill
<1>4. CASE UNCHANGED vars
  BY <1>4 DEF vars, SyncInv, TypeOK, PhaseByLocation, CounterBelowPhase,
              ScanCountsArrivals, BarrierSafety
<1>5. QED
  BY <1>1, <1>2, <1>3, <1>4 DEF KillNext, Next

THEOREM Invariance == KillSpec => []SyncInv
<1>1. QED BY InitInv, StepInv, PTL DEF KillSpec

\* A launch that found every counter at 0 keeps its barriers, whatever is
\* killed after that.
THEOREM CleanLaunchesAreSafe == KillSpec => []CleanBarrierSafety
<1>1. SyncInv => CleanBarrierSafety
  BY DEF SyncInv, CleanBarrierSafety
<1>2. QED BY <1>1, Invariance, PTL

-----------------------------------------------------------------------------
(***************************************************************************)
(* The file and the ownership of the counters                              *)
(***************************************************************************)
LEMMA PagesStep ==
  TypeOK /\ PagesBeforeCounters /\ [KillNext]_vars => PagesBeforeCounters'
<1> SUFFICES ASSUME TypeOK, PagesBeforeCounters, [KillNext]_vars
             PROVE  PagesBeforeCounters'
  OBVIOUS
<1> USE DEF TypeOK, PagesBeforeCounters, Goto, scanVars, barrierVars, launchVars
<1>1. CASE Launch
  BY <1>1 DEF Launch
<1>2. ASSUME NEW p \in Proc, Step(p) PROVE PagesBeforeCounters'
  <2>1. CASE FindBarrierFile(p) \/ MissBarrierFile(p) \/ AwaitBarrierFile(p)
             \/ MapBarrierFile(p)
    BY <2>1 DEF FindBarrierFile, MissBarrierFile, AwaitBarrierFile,
                MapBarrierFile
  <2>2. CASE CreateBarrierFile(p)
    BY <2>2 DEF CreateBarrierFile, Creates
  <2>3. CASE SizeBarrierFile(p)
    BY <2>3 DEF SizeBarrierFile
  <2>4. CASE InitCounter(p) \/ ClearBarrier(p)
    BY <2>4 DEF InitCounter, ClearBarrier, Cleared
  <2>5. CASE Announce(p)
    BY <2>5 DEF Announce
  <2>6. CASE ReadCounter(p) \/ Rescan(p)
    BY <2>6 DEF ReadCounter, Rescan
  <2>7. CASE Leave(p) \/ RefuseGraph(p)
    BY <2>7 DEF Leave, RefuseGraph
  <2>8. QED
    BY <1>2, <2>1, <2>2, <2>3, <2>4, <2>5, <2>6, <2>7 DEF Step, SyncStep
<1>3. ASSUME NEW p \in Proc, Kill(p) PROVE PagesBeforeCounters'
  BY <1>3 DEF Kill
<1>4. CASE UNCHANGED vars
  BY <1>4 DEF vars
<1>5. QED BY <1>1, <1>2, <1>3, <1>4 DEF KillNext, Next

\* No counter is in use while the file has no pages, whatever is killed.
THEOREM PagesInvariance == KillSpec => [](TypeOK /\ PagesBeforeCounters)
<1>1. Init => PagesBeforeCounters
  BY DEF Init, PagesBeforeCounters
<1>2. QED BY <1>1, InitType, StepType, PagesStep, PTL DEF KillSpec

LEMMA StepOwnsCounter ==
  ASSUME TypeOK, PagesBeforeCounters, [KillNext]_vars,
         NEW p \in Proc, counter'[p] < counter[p]
  PROVE  pc[p] \in {"zero", "infer"} /\ pc'[p] # pc[p]
<1> USE DEF TypeOK, Goto, scanVars, barrierVars, launchVars
<1>1. counter' # counter
  BY DEF LastBarrier
<1>2. PICK q \in Proc : Step(q)
  BY <1>1 DEF KillNext, Next, Launch, Kill, vars
<1>3. CASE SizeBarrierFile(q)
  BY <1>3 DEF SizeBarrierFile, PagesBeforeCounters
<1>4. CASE InitCounter(q) \/ ClearBarrier(q)
  <2>1. p = q
    BY <1>4 DEF InitCounter, ClearBarrier, Cleared, LastBarrier
  <2>2. QED BY <1>4, <2>1 DEF InitCounter, ClearBarrier
<1>5. CASE Announce(q)
  BY <1>5 DEF Announce, PagesBeforeCounters, StoredValue, LastBarrier
<1>6. QED
  BY <1>1, <1>2, <1>3, <1>4, <1>5 DEF Step, SyncStep, FindBarrierFile,
     CreateBarrierFile, MissBarrierFile, AwaitBarrierFile, MapBarrierFile,
     ReadCounter, Rescan, Leave, RefuseGraph

\* Only its own process sets a counter back.
THEOREM CountersOwned == KillSpec => CounterSetBackByOwner
<1>1. TypeOK /\ PagesBeforeCounters /\ [KillNext]_vars
        => [\A p \in Proc : counter'[p] < counter[p] => pc[p] \in {"zero", "infer"}
                                                      /\ pc'[p] # pc[p]]_vars
  BY StepOwnsCounter
<1>2. QED
  BY <1>1, PagesInvariance, PTL DEF KillSpec, CounterSetBackByOwner

LEMMA StepKeepsPages == [KillNext]_vars => [file = "sized" => file' = "sized"]_vars
<1> USE DEF scanVars, barrierVars, launchVars
<1>1. ASSUME NEW p \in Proc, Step(p), file = "sized" PROVE file' = "sized"
  BY <1>1 DEF Step, SyncStep, FindBarrierFile, CreateBarrierFile, Creates,
     SizeBarrierFile, MissBarrierFile, AwaitBarrierFile, MapBarrierFile,
     InitCounter, Announce, ReadCounter, Rescan, Leave, ClearBarrier, RefuseGraph
<1>2. QED
  BY <1>1 DEF KillNext, Next, Launch, Kill

\* Once sized, the barrier file stays sized through any kills and launches.
THEOREM PagesStay == KillSpec => FileKeepsPages
<1>1. QED BY StepKeepsPages, PTL DEF KillSpec, FileKeepsPages

-----------------------------------------------------------------------------
(***************************************************************************)
(* Launches that nobody kills                                              *)
(***************************************************************************)
LEMMA NextIsKillNext == [Next]_vars => [KillNext]_vars
  BY DEF KillNext

LEMMA ClearedStep == TypeOK /\ AllGoneCleared /\ [Next]_vars => AllGoneCleared'
<1> SUFFICES ASSUME TypeOK, AllGoneCleared, [Next]_vars PROVE AllGoneCleared'
  OBVIOUS
<1> USE DEF TypeOK, AllGoneCleared, StoppedCleared, Stopped, Goto,
            scanVars, barrierVars, launchVars
<1>1. CASE Launch
  BY <1>1 DEF Launch
<1>2. ASSUME NEW p \in Proc, Step(p) PROVE AllGoneCleared'
  <2>1. CASE \/ FindBarrierFile(p) \/ CreateBarrierFile(p) \/ MissBarrierFile(p)
             \/ AwaitBarrierFile(p) \/ MapBarrierFile(p)
    BY <2>1 DEF FindBarrierFile, CreateBarrierFile, MissBarrierFile,
                AwaitBarrierFile, MapBarrierFile
  <2>2. CASE SizeBarrierFile(p)
    BY <2>2 DEF SizeBarrierFile
  <2>3. CASE InitCounter(p)
    BY <2>3 DEF InitCounter, Cleared
  <2>4. CASE Announce(p)
    BY <2>4 DEF Announce, StoredValue
  <2>5. CASE ReadCounter(p) \/ Rescan(p)
    BY <2>5 DEF ReadCounter, Rescan
  <2>6. CASE Leave(p)
    BY <2>6 DEF Leave
  <2>7. CASE ClearBarrier(p)
    BY <2>7 DEF ClearBarrier, Cleared
  <2>8. CASE RefuseGraph(p)
    BY <2>8 DEF RefuseGraph
  <2>9. QED
    BY <1>2, <2>1, <2>2, <2>3, <2>4, <2>5, <2>6, <2>7, <2>8 DEF Step, SyncStep
<1>3. CASE UNCHANGED vars
  BY <1>3 DEF vars
<1>4. QED BY <1>1, <1>2, <1>3 DEF Next

\* Without kills every launch starts with cleared counters.
THEOREM EveryLaunchIsClean == Spec => [](TypeOK /\ AllGoneCleared)
<1>1. Init => AllGoneCleared
  BY DEF Init, AllGoneCleared, StoppedCleared
<1>2. QED BY <1>1, InitType, StepType, ClearedStep, NextIsKillNext, PTL DEF Spec

\* ... hence its barriers hold: no process leaves a barrier of a launch before
\* all its processes have reached it.
THEOREM BarriersHold == Spec => []BarrierSafety
<1>1. Spec => []SyncInv
  BY InitInv, StepInv, NextIsKillNext, PTL DEF Spec
<1>2. SyncInv /\ AllGoneCleared => BarrierSafety
  BY DEF SyncInv, AllGoneCleared
<1>3. QED BY <1>1, <1>2, EveryLaunchIsClean, PTL

-----------------------------------------------------------------------------
(***************************************************************************)
(* Refinement                                                              *)
(***************************************************************************)
\* A step of the counters is a step of the abstract barrier or a stutter.
LEMMA StepRefines == SyncInv /\ clean /\ [Next]_vars => [Barrier!Next]_(Barrier!vars)
<1> SUFFICES ASSUME SyncInv, clean, [Next]_vars
             PROVE  [Barrier!Next]_(Barrier!vars)
  OBVIOUS
<1> USE DEF Goto, scanVars, barrierVars, launchVars, Barrier!vars
<1>1. CASE Launch
  BY <1>1 DEF Launch, Barrier!Next, Barrier!Relaunch
<1>2. ASSUME NEW p \in Proc, Step(p) PROVE [Barrier!Next]_(Barrier!vars)
  <2>1. CASE Announce(p)
    <3>1. CASE pc[p] = "prepare"
      <4>1. phase[p] = 0 /\ left[p] = 0
        BY <3>1 DEF SyncInv, PhaseByLocation, Running
      <4>2. phase' = [phase EXCEPT ![p] = phase[p] + 1] /\ left' = left
        BY <2>1, <3>1, <4>1 DEF Announce, StoredValue
      <4>3. Barrier!Arrive(p)
        BY <4>1, <4>2 DEF Barrier!Arrive, LastBarrier
      <4>4. QED BY <4>3 DEF Barrier!Next
    <3>2. CASE pc[p] = "load"
      <4>1. phase[p] = 1 /\ left[p] = 1
        BY <3>2 DEF SyncInv, PhaseByLocation, Running
      <4>2. phase' = [phase EXCEPT ![p] = phase[p] + 1] /\ left' = left
        BY <2>1, <3>2, <4>1 DEF Announce, StoredValue
      <4>3. Barrier!Arrive(p)
        BY <4>1, <4>2 DEF Barrier!Arrive, LastBarrier
      <4>4. QED BY <4>3 DEF Barrier!Next
    <3>3. QED BY <2>1, <3>1, <3>2 DEF Announce, StoredValue
  <2>2. CASE Leave(p)
    <3>1. \A q \in Proc : phase[q] >= phase[p]
      BY <2>2, ReachedMeansAnnounced DEF Leave, SyncInv
    <3>2. Barrier!Leave(p)
      BY <2>2, <3>1 DEF Leave, Barrier!Leave, SyncInv, TypeOK, PhaseByLocation
    <3>3. QED BY <3>2 DEF Barrier!Next
  <2>3. CASE ~ Announce(p) /\ ~ Leave(p)
    BY <1>2, <2>3 DEF Step, SyncStep, RefuseGraph, FindBarrierFile,
       CreateBarrierFile, SizeBarrierFile,
       MissBarrierFile, AwaitBarrierFile, MapBarrierFile, InitCounter,
       ReadCounter, Rescan, ClearBarrier, Cleared
  <2>4. QED BY <2>1, <2>2, <2>3
<1>3. CASE UNCHANGED vars
  BY <1>3 DEF vars
<1>4. QED BY <1>1, <1>2, <1>3 DEF Next

\* The sum of polled counters implements the barrier: every behaviour of the
\* processes is one of PhaseBarrier.
THEOREM Implementation == Spec => ImplementsPhaseBarrier
<1>1. Init => Barrier!Init
  BY DEF Init, Barrier!Init
<1>2. Spec => []SyncInv
  BY InitInv, StepInv, NextIsKillNext, PTL DEF Spec
<1>3. AllGoneCleared => clean
  BY DEF AllGoneCleared
<1>4. QED
  BY <1>1, <1>2, <1>3, StepRefines, EveryLaunchIsClean, PTL
  DEF Spec, ImplementsPhaseBarrier, Barrier!Spec


-----------------------------------------------------------------------------
(***************************************************************************)
(* The start-up code                                                       *)
(***************************************************************************)
LEMMA StartupStepIsSync == [StartupKillNext]_allVars => [KillNext]_vars
<1> SUFFICES ASSUME [StartupKillNext]_allVars PROVE [KillNext]_vars
  OBVIOUS
<1>1. CASE StartupLaunch \/ \E p \in Proc : Kill(p)
  BY <1>1 DEF StartupLaunch, KillNext, Next
<1>2. ASSUME NEW p \in Proc, StartupStep(p) PROVE [KillNext]_vars
  <2>1. CASE SyncStep(p) \/ EnterBarrier(p) \/ StartupRefuse(p)
    BY <2>1 DEF EnterBarrier, StartupRefuse, KillNext, Next, Step
  <2>2. CASE CreateArrays(p) \/ ReadPriors(p) \/ \E q \in Proc : MapArrays(p, q)
    BY <2>2 DEF CreateArrays, ReadPriors, MapArrays
  <2>3. QED BY <1>2, <2>1, <2>2 DEF StartupStep
<1>3. CASE UNCHANGED allVars
  BY <1>3 DEF allVars
<1>4. QED BY <1>1, <1>2, <1>3 DEF StartupKillNext, StartupNext

\* The start-up code uses the barrier as ProcessSync describes it.
THEOREM StartupIsSync == StartupKillSpec => KillSpec
<1>1. StartupInit => Init
  BY DEF StartupInit
<1>2. QED BY <1>1, StartupStepIsSync, PTL DEF StartupKillSpec, KillSpec

-----------------------------------------------------------------------------
(***************************************************************************)
(* The invariant                                                           *)
(***************************************************************************)
LEMMA MasterIsProc == MASTERNODE \in Proc
  BY NAssumption DEF MASTERNODE, Proc

LEMMA StartupInitInv == StartupInit => StartupInv
<1> SUFFICES ASSUME StartupInit PROVE StartupInv
  OBVIOUS
<1>1. StartupType
  BY NAssumption, LaunchesAssumption
  DEF StartupInit, Init, StartupType, Creation, NoFile, Older, Proc
<1>2. QED
  BY <1>1, MasterIsProc, NAssumption
  DEF StartupInit, Init, StartupInv, ArraysMade, PrimedByPhase, MapsThisLaunch,
      LabelsMade, Proc

\* The steps of the barrier code leave the arrays alone; of what the invariant
\* mentions they change the phases and what has been left.
LEMMA BarrierStepInv ==
  ASSUME SyncInv, SyncInv', StartupInv, UNCHANGED startupVars,
         UNCHANGED <<launches, clean>>,
         NEW p \in Proc,
         phase' = phase \/ (Ready(p) /\ Announce(p)),
         \A q \in Proc : left'[q] >= left[q]
  PROVE  StartupInv'
<1> USE DEF startupVars
<1>1. StartupType'
  BY DEF StartupInv, StartupType
<1>2. CASE phase' = phase
  BY <1>1, <1>2 DEF StartupInv, SyncInv, TypeOK, LastBarrier, ArraysMade,
                    PrimedByPhase, MapsThisLaunch, LabelsMade
<1>3. CASE Ready(p) /\ Announce(p)
  <2>1. /\ \A q \in Proc \ {p} : phase'[q] = phase[q]
        /\ pc[p] = "prepare" => phase'[p] = 1
        /\ pc[p] = "load" => phase'[p] = 2 /\ phase[p] = 1 /\ primed[p]
        /\ pc[p] \in {"prepare", "load"}
    BY <1>3 DEF Announce, Ready, SyncInv, TypeOK, PhaseByLocation
  <2>2. ArraysMade'
    BY <1>3, <2>1, MasterIsProc DEF StartupInv, ArraysMade, Ready
  <2>3. PrimedByPhase'
    BY <2>1 DEF StartupInv, PrimedByPhase, SyncInv, TypeOK, LastBarrier
  <2>4. QED
    BY <1>1, <2>2, <2>3 DEF StartupInv, MapsThisLaunch, LabelsMade
<1>4. QED BY <1>2, <1>3

LEMMA CreateArraysInv ==
  ASSUME SyncInv, StartupInv, NEW p \in Proc, CreateArrays(p)
  PROVE  StartupInv'
<1> USE NAssumption, LaunchesAssumption DEF CreateArrays, PartitionsLeft, vars
<1>1. made \in Proc /\ made + 1 \in 0 .. N /\ launches \in 1 .. MaxLaunches
  BY DEF StartupInv, StartupType, SyncInv, TypeOK, Proc
<1>2. StartupType'
  BY <1>1 DEF StartupInv, StartupType, Creation, NoFile, CreationOf
<1>3. phase[MASTERNODE] = 0
  BY DEF SyncInv, PhaseByLocation
<1>4. ArraysMade'
  <2>1. \A q \in Proc : q < made + 1 => q < made \/ q = made
    BY <1>1 DEF Proc
  <2>2. \A q \in Proc : q < made' => arrays'[q] = launches
    BY <1>1, <2>1 DEF StartupInv, StartupType, ArraysMade, CreationOf
  <2>3. QED BY <1>3, <2>2 DEF ArraysMade
<1>5. PrimedByPhase'
  BY DEF StartupInv, PrimedByPhase
<1>6. clean' => MapsThisLaunch'
  BY DEF StartupInv, MapsThisLaunch
<1>7. clean' => LabelsMade'
  <2>1. ASSUME clean, NEW q \in Proc, primed[q] PROVE FALSE
    <3>1. left[q] >= 1
      BY <2>1 DEF StartupInv, PrimedByPhase
    <3>2. left[q] <= phase[MASTERNODE]
      BY <2>1, MasterIsProc DEF SyncInv, BarrierSafety
    <3>3. QED BY <1>3, <3>1, <3>2 DEF SyncInv, TypeOK, LastBarrier
  <2>2. QED BY <2>1 DEF LabelsMade
<1>8. QED BY <1>2, <1>4, <1>5, <1>6, <1>7 DEF StartupInv

LEMMA MapArraysInv ==
  ASSUME SyncInv, StartupInv, NEW p \in Proc, NEW q \in Proc, MapArrays(p, q)
  PROVE  StartupInv'
<1> USE DEF MapArrays, MapsNext, vars
<1>1. StartupType'
  BY DEF StartupInv, StartupType
<1>2. left[p] = 1
  BY DEF SyncInv, PhaseByLocation, Running
<1>3. PrimedByPhase'
  BY <1>2 DEF StartupInv, StartupType, PrimedByPhase
<1>4. ASSUME clean PROVE arrays[q] = launches
  <2>1. phase[MASTERNODE] >= 1
    BY <1>2, <1>4, MasterIsProc DEF SyncInv, TypeOK, LastBarrier, BarrierSafety
  <2>2. QED
    BY <2>1, NAssumption DEF StartupInv, ArraysMade, Proc
<1>5. clean' => MapsThisLaunch'
  BY <1>4 DEF StartupInv, StartupType, MapsThisLaunch
<1>6. QED
  BY <1>1, <1>3, <1>5 DEF StartupInv, ArraysMade, LabelsMade

LEMMA ReadPriorsInv ==
  ASSUME SyncInv, StartupInv, NEW p \in Proc, ReadPriors(p)
  PROVE  StartupInv'
<1> USE DEF ReadPriors, vars
<1>1. StartupType'
  BY DEF StartupInv, StartupType
<1>2. left[p] = 1
  BY DEF SyncInv, PhaseByLocation, Running
<1>3. PrimedByPhase'
  BY <1>2 DEF StartupInv, StartupType, PrimedByPhase
<1>4. clean' => LabelsMade'
  BY DEF StartupInv, StartupType, LabelsMade
<1>5. QED
  BY <1>1, <1>3, <1>4 DEF StartupInv, ArraysMade, MapsThisLaunch

LEMMA StartupLaunchInv ==
  ASSUME SyncInv, StartupInv, StartupLaunch
  PROVE  StartupInv'
<1> USE DEF StartupLaunch, Launch
<1>1. StartupType'
  BY NAssumption, LaunchesAssumption
  DEF StartupInv, StartupType, Creation, NoFile, Proc
<1>2. ArraysMade' /\ PrimedByPhase'
  BY MasterIsProc DEF ArraysMade, PrimedByPhase, Proc
<1>3. MapsThisLaunch' /\ LabelsMade'
  BY DEF MapsThisLaunch, LabelsMade
<1>4. QED BY <1>1, <1>2, <1>3 DEF StartupInv

LEMMA StartupStepInv ==
  SyncInv /\ SyncInv' /\ StartupInv /\ [StartupKillNext]_allVars => StartupInv'
<1> SUFFICES ASSUME SyncInv, SyncInv', StartupInv, [StartupKillNext]_allVars
             PROVE  StartupInv'
  OBVIOUS
<1> USE DEF Goto, scanVars, barrierVars, launchVars
<1>1. CASE StartupLaunch
  BY <1>1, StartupLaunchInv
<1>2. ASSUME NEW p \in Proc, StartupStep(p) PROVE StartupInv'
  <2>1. CASE SyncStep(p) /\ UNCHANGED startupVars
    <3>1. CASE Leave(p)
      <4>1. \A q \in Proc : left'[q] >= left[q]
        BY <3>1 DEF Leave, SyncInv, TypeOK, PhaseByLocation, LastBarrier
      <4>2. QED BY <2>1, <3>1, <4>1, BarrierStepInv DEF Leave
    <3>2. CASE ~ Leave(p)
      <4>1. UNCHANGED <<phase, left, launches, clean>>
        BY <2>1, <3>2
        DEF SyncStep, FindBarrierFile, CreateBarrierFile, SizeBarrierFile,
            MissBarrierFile, AwaitBarrierFile, MapBarrierFile, InitCounter,
            ReadCounter, Rescan, ClearBarrier
      <4>2. \A q \in Proc : left'[q] >= left[q]
        BY <4>1 DEF SyncInv, TypeOK, LastBarrier
      <4>3. QED BY <2>1, <4>1, <4>2, BarrierStepInv
    <3>3. QED BY <3>1, <3>2
  <2>2. CASE CreateArrays(p)
    BY <2>2, CreateArraysInv
  <2>3. ASSUME NEW q \in Proc, MapArrays(p, q) PROVE StartupInv'
    BY <2>3, MapArraysInv
  <2>4. CASE ReadPriors(p)
    BY <2>4, ReadPriorsInv
  <2>5. CASE EnterBarrier(p)
    <3>1. \A r \in Proc : left'[r] >= left[r]
      BY <2>5 DEF EnterBarrier, Announce, SyncInv, TypeOK, LastBarrier
    <3>2. QED
      BY <2>5, <3>1, BarrierStepInv DEF EnterBarrier, Announce
  <2>6. CASE StartupRefuse(p)
    <3>1. \A r \in Proc : left'[r] >= left[r]
      BY <2>6 DEF StartupRefuse, RefuseGraph, SyncInv, TypeOK, LastBarrier
    <3>2. QED
      BY <2>6, <3>1, BarrierStepInv DEF StartupRefuse, RefuseGraph
  <2>7. QED
    BY <1>2, <2>1, <2>2, <2>3, <2>4, <2>5, <2>6 DEF StartupStep
<1>3. ASSUME NEW p \in Proc, Kill(p), UNCHANGED startupVars PROVE StartupInv'
  <2>1. \A r \in Proc : left'[r] >= left[r]
    BY <1>3 DEF Kill, SyncInv, TypeOK, LastBarrier
  <2>2. QED BY <1>3, <2>1, BarrierStepInv DEF Kill
<1>4. CASE UNCHANGED allVars
  BY <1>4 DEF allVars, vars, startupVars, StartupInv, StartupType, ArraysMade,
              PrimedByPhase, MapsThisLaunch, LabelsMade
<1>5. QED BY <1>1, <1>2, <1>3, <1>4 DEF StartupKillNext, StartupNext

THEOREM StartupInvariance == StartupKillSpec => [](SyncInv /\ StartupInv)
<1>1. QED
  BY StartupIsSync, Invariance, StartupInitInv, StartupStepInv, PTL
  DEF StartupKillSpec

-----------------------------------------------------------------------------
(***************************************************************************)
(* What the barriers are for                                               *)
(***************************************************************************)
LEMMA InvImpliesStartup == SyncInv /\ StartupInv => CleanStartup
<1> SUFFICES ASSUME SyncInv, StartupInv, clean,
                    NEW p \in Proc, pc[p] = "infer", NEW q \in Proc
             PROVE  labels[q]
  BY DEF CleanStartup, LabelsInPlace, StartupInv
<1>1. left[p] = 2
  BY DEF SyncInv, PhaseByLocation, Running
<1>2. phase[q] = 2
  BY <1>1 DEF SyncInv, TypeOK, LastBarrier, BarrierSafety
<1>3. QED BY <1>2 DEF StartupInv, PrimedByPhase, LabelsMade

\* In a launch that found every counter at 0 every process works on the files
\* of that launch, and samples only when all labels are stored.
THEOREM StartupCorrect == StartupKillSpec => []CleanStartup
<1>1. QED BY InvImpliesStartup, StartupInvariance, PTL

LEMMA NextIsStartupKillNext == [StartupNext]_allVars => [StartupKillNext]_allVars
  BY DEF StartupKillNext

\* Without kills a step of the start-up code is a step of ProcessSync without
\* kills.
LEMMA NoKillNoKill == [StartupNext]_allVars => [Next]_vars
<1> SUFFICES ASSUME [StartupNext]_allVars PROVE [Next]_vars
  OBVIOUS
<1>1. CASE StartupLaunch
  BY <1>1 DEF StartupLaunch, Next
<1>2. ASSUME NEW p \in Proc, StartupStep(p) PROVE [Next]_vars
  <2>1. CASE SyncStep(p) \/ EnterBarrier(p) \/ StartupRefuse(p)
    BY <2>1 DEF EnterBarrier, StartupRefuse, Next, Step
  <2>2. CASE CreateArrays(p) \/ ReadPriors(p) \/ \E q \in Proc : MapArrays(p, q)
    BY <2>2 DEF CreateArrays, ReadPriors, MapArrays
  <2>3. QED BY <1>2, <2>1, <2>2 DEF StartupStep
<1>3. CASE UNCHANGED allVars
  BY <1>3 DEF allVars
<1>4. QED BY <1>1, <1>2, <1>3 DEF StartupNext

\* Launches that nobody kills map the files of their own launch ...
THEOREM StartupMapsThisLaunch ==
  StartupSpec => [](MapsThisLaunch /\ LabelsInPlace /\ clean)
<1>1. StartupSpec => StartupKillSpec
  BY NextIsStartupKillNext, PTL DEF StartupSpec, StartupKillSpec
<1>2. StartupInit => TypeOK /\ AllGoneCleared
  BY InitType DEF StartupInit, Init, AllGoneCleared, StoppedCleared
<1>3. AllGoneCleared => clean
  BY DEF AllGoneCleared
<1>4. SyncInv /\ AllGoneCleared /\ StartupInv /\ [StartupNext]_allVars
        => AllGoneCleared'
  BY NoKillNoKill, ClearedStep DEF SyncInv
<1>5. StartupSpec => []AllGoneCleared
  BY <1>1, <1>2, <1>4, StartupInvariance, PTL DEF StartupSpec
<1>6. QED
  BY <1>1, <1>3, <1>5, StartupCorrect, PTL DEF CleanStartup

\* Whoever is killed, the master of a launch that found every counter at 0
\* truncates no file that is mapped: it has made its last one before anybody
\* leaves barrier 1.
THEOREM StartupNoTruncation == StartupKillSpec => NoTruncationUnderMapping
<1>1. SyncInv /\ StartupInv /\ [StartupKillNext]_allVars
        => [clean => \A p, q \in Proc :
              mapped[p][q] # NoFile /\ mapped'[p][q] = mapped[p][q]
                => arrays'[q] = arrays[q]]_allVars
  <2> SUFFICES ASSUME SyncInv, StartupInv, clean, StartupKillNext,
                      NEW p \in Proc, NEW q \in Proc,
                      mapped[p][q] # NoFile, arrays'[q] # arrays[q]
               PROVE  FALSE
    OBVIOUS
  <2>1. PICK m \in Proc : CreateArrays(m)
    BY DEF StartupKillNext, StartupNext, StartupLaunch, StartupStep, startupVars,
           MapArrays, ReadPriors, EnterBarrier, StartupRefuse
  <2>2. phase[MASTERNODE] = 0
    BY <2>1 DEF CreateArrays, SyncInv, PhaseByLocation
  <2>3. left[p] >= 1
    BY DEF StartupInv, PrimedByPhase
  <2>4. QED
    BY <2>2, <2>3, MasterIsProc DEF SyncInv, TypeOK, LastBarrier, BarrierSafety
<1>2. QED
  BY <1>1, StartupInvariance, PTL
  DEF StartupKillSpec, NoTruncationUnderMapping

=============================================================================
