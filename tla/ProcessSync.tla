----------------------------- MODULE ProcessSync -----------------------------
(***************************************************************************)
(* The barrier that synchronises the processes of one inference launch     *)
(* (processSync.cpp), and the calls launch_gibbs_sampler makes to it.      *)
(*                                                                         *)
(* The barrier is a file in fabric-attached memory (FAM) that every        *)
(* process maps.  It has one counter per process, on a page of its own.    *)
(* A process announces barrier k by storing k in its own counter, then     *)
(* polls: it adds up all the counters, reading them one after the other,   *)
(* and leaves when the sum has reached N * k.  After the inference it sets *)
(* its counter back to 0, without waiting for anybody.                     *)
(*                                                                         *)
(* The file outlives the processes: nothing deletes it, and a process that *)
(* is killed leaves its counter as it was.                                 *)
(***************************************************************************)
EXTENDS Integers

CONSTANTS N,            \* totalProcess: the processes of a launch
          MaxLaunches   \* bound: how often the launch script is run

ASSUME NAssumption == N \in Nat \ {0}
ASSUME LaunchesAssumption == MaxLaunches \in Nat \ {0}

Proc == 0 .. N - 1
MASTERNODE == 0

\* globalBarrier is called with 1 (array files created) and 2 (graph loaded).
LastBarrier == 2

VARIABLES
  file,       \* the barrier file: "absent", "empty" (created, length 0) or "sized"
  counter,    \* sharedGlobalCouters[p * pagesize], as it is in FAM
  pc,         \* where each process is
  phase,      \* the argument "counter" of p's last call of globalBarrier, 0 if none
  left,       \* how many calls of globalBarrier of this launch have returned to p
  idx,        \* loop index i of p's scan of the counters
  sum,        \* local variable sum of p's scan
  launches,   \* how often the launch script has run
  clean       \* did this launch find every counter at 0?

vars == <<file, counter, pc, phase, left, idx, sum, launches, clean>>
scanVars == <<idx, sum>>
barrierVars == <<phase, left>>
launchVars == <<launches, clean>>

\* Process locations, in the order of the code.
Running == {"stat",      \* in globalBarrieryMap, before its first stat()
            "truncate",  \* master, between open(O_CREAT) and ftruncate()
            "await",     \* other processes, in the loop that waits for the file
            "map",       \* before pmem_map_file
            "zero",      \* before its counter is set to 0
            "prepare",   \* between initGlobalBarrier and globalBarrier(..., 1)
            "wait",      \* in the polling loop of globalBarrier
            "load",      \* between globalBarrier(..., 1) and globalBarrier(..., 2)
            "infer"}     \* between globalBarrier(..., 2) and clearBarrier
Stopped == {"off",       \* exited or killed
            "fault"}     \* died of a store through a NULL mapping

TypeOK ==
  /\ file \in {"absent", "empty", "sized"}
  /\ counter \in [Proc -> 0 .. LastBarrier]
  /\ pc \in [Proc -> Running \cup Stopped]
  /\ phase \in [Proc -> 0 .. LastBarrier]
  /\ left \in [Proc -> 0 .. LastBarrier]
  /\ idx \in [Proc -> 0 .. N]
  /\ sum \in [Proc -> Nat]
  /\ launches \in 1 .. MaxLaunches
  /\ clean \in BOOLEAN

-----------------------------------------------------------------------------
\* The first launch on a file system finds no barrier file; a launch after
\* one that ended finds the file with every counter cleared.
Init ==
  /\ file \in {"absent", "sized"}
  /\ counter = [p \in Proc |-> 0]
  /\ pc = [p \in Proc |-> "stat"]
  /\ phase = [p \in Proc |-> 0]
  /\ left = [p \in Proc |-> 0]
  /\ idx = [p \in Proc |-> 0]
  /\ sum = [p \in Proc |-> 0]
  /\ launches = 1
  /\ clean = TRUE

Goto(p, where) == pc' = [pc EXCEPT ![p] = where]

(***************************************************************************)
(* initGlobalBarrier                                                       *)
(***************************************************************************)
\* The file is there, with whatever length: nobody looks at the length.
FindBarrierFile(p) ==
  /\ pc[p] = "stat"
  /\ file # "absent"
  /\ Goto(p, "map")
  /\ UNCHANGED <<file, counter, barrierVars, scanVars, launchVars>>

\* Mutant: the master creates the file without looking whether it is there.
CreatesAlways(p) == p = MASTERNODE

\* Who creates the file: only the master, and only when stat() failed.
Creates(p) == file = "absent" /\ p = MASTERNODE

\* createGlobalBarrier up to open(O_CREAT | O_TRUNC).
CreateBarrierFile(p) ==
  /\ pc[p] = "stat"
  /\ Creates(p)
  /\ file' = "empty"
  /\ Goto(p, "truncate")
  /\ UNCHANGED <<counter, barrierVars, scanVars, launchVars>>

\* The rest of createGlobalBarrier: ftruncate() gives the file its pages of 0.
SizeBarrierFile(p) ==
  /\ pc[p] = "truncate"
  /\ file' = "sized"
  /\ counter' = [q \in Proc |-> 0]
  /\ Goto(p, "map")
  /\ UNCHANGED <<barrierVars, scanVars, launchVars>>

MissBarrierFile(p) ==
  /\ pc[p] = "stat"
  /\ file = "absent"
  /\ p # MASTERNODE
  /\ Goto(p, "await")
  /\ UNCHANGED <<file, counter, barrierVars, scanVars, launchVars>>

\* The end of the loop of stat() and usleep(): the file exists at full length.
AwaitBarrierFile(p) ==
  /\ pc[p] = "await"
  /\ file = "sized"
  /\ Goto(p, "map")
  /\ UNCHANGED <<file, counter, barrierVars, scanVars, launchVars>>

\* pmem_map_file of an empty file returns NULL.  The code compares the result
\* with MAP_FAILED only, and the store that follows it faults.
MapBarrierFile(p) ==
  /\ pc[p] = "map"
  /\ Goto(p, IF file = "sized" THEN "zero" ELSE "fault")
  /\ UNCHANGED <<file, counter, barrierVars, scanVars, launchVars>>

\* A process sets its own counter to 0 and persists it.
\* Mutants: the store is left out; destroyGlobalBarrier, which clears them all.
NotCleared(p) == counter
AllCleared(p) == [q \in Proc |-> 0]

Cleared(p) == [counter EXCEPT ![p] = 0]

InitCounter(p) ==
  /\ pc[p] = "zero"
  /\ counter' = Cleared(p)
  /\ Goto(p, "prepare")
  /\ UNCHANGED <<file, barrierVars, scanVars, launchVars>>

(***************************************************************************)
(* globalBarrier(p, N, k)                                                  *)
(***************************************************************************)
\* The value v that globalBarrier stores for its argument k.
\* Mutants: the argument is added; the counter is a flag, as in the older
\* globalBarrier(iProcess, nProcesses).
AddedValue(p, k) == counter[p] + k
FlagValue(p, k) == 1

StoredValue(p, k) == k

\* Store k in the own counter and persist it.  A process's first call is
\* globalBarrier(..., 1), its second globalBarrier(..., 2).
Announce(p) ==
  /\ pc[p] \in {"prepare", "load"}
  /\ LET k == IF pc[p] = "prepare" THEN 1 ELSE 2
     IN /\ phase' = [phase EXCEPT ![p] = k]
        /\ counter' = [counter EXCEPT ![p] = StoredValue(p, k)]
  /\ idx' = [idx EXCEPT ![p] = 0]
  /\ sum' = [sum EXCEPT ![p] = 0]
  /\ Goto(p, "wait")
  /\ UNCHANGED <<file, left, launchVars>>

\* One iteration of the for loop over the counters.
ReadCounter(p) ==
  /\ pc[p] = "wait"
  /\ idx[p] < N
  /\ sum' = [sum EXCEPT ![p] = @ + counter[idx[p]]]
  /\ idx' = [idx EXCEPT ![p] = @ + 1]
  /\ UNCHANGED <<file, counter, pc, barrierVars, launchVars>>

\* Mutant: the test of the older globalBarrier(iProcess, nProcesses).
ReachedFlags(p) == sum[p] >= N
\* Mutants: off by one, in either direction.
ReachedButOne(p) == sum[p] + 1 >= N * phase[p]
ReachedBeyond(p) == sum[p] > N * phase[p]

Reached(p) == sum[p] >= N * phase[p]

\* The sum was too small: sleep, invalidate the mapping, scan again.
Rescan(p) ==
  /\ pc[p] = "wait"
  /\ idx[p] = N
  /\ ~ Reached(p)
  /\ idx' = [idx EXCEPT ![p] = 0]
  /\ sum' = [sum EXCEPT ![p] = 0]
  /\ UNCHANGED <<file, counter, pc, barrierVars, launchVars>>

\* globalBarrier returns.
Leave(p) ==
  /\ pc[p] = "wait"
  /\ idx[p] = N
  /\ Reached(p)
  /\ left' = [left EXCEPT ![p] = phase[p]]
  /\ Goto(p, IF phase[p] = 1 THEN "load" ELSE "infer")
  /\ UNCHANGED <<file, counter, phase, scanVars, launchVars>>

\* The inference is over: clearBarrier, then the outputs and the exit, which
\* no other process can observe.
ClearBarrier(p) ==
  /\ pc[p] = "infer"
  /\ counter' = Cleared(p)
  /\ Goto(p, "off")
  /\ UNCHANGED <<file, barrierVars, scanVars, launchVars>>

\* graphLoader refuses the graph (no vertices, or fewer than processes):
\* the process returns without having announced a barrier.
RefuseGraph(p) ==
  /\ pc[p] = "prepare"
  /\ Goto(p, "off")
  /\ UNCHANGED <<file, counter, barrierVars, scanVars, launchVars>>

\* The steps inside initGlobalBarrier, globalBarrier and clearBarrier.
SyncStep(p) ==
  \/ FindBarrierFile(p) \/ CreateBarrierFile(p) \/ SizeBarrierFile(p)
  \/ MissBarrierFile(p) \/ AwaitBarrierFile(p) \/ MapBarrierFile(p)
  \/ InitCounter(p) \/ ReadCounter(p) \/ Rescan(p)
  \/ Leave(p) \/ ClearBarrier(p)

Step(p) == SyncStep(p) \/ Announce(p) \/ RefuseGraph(p)

-----------------------------------------------------------------------------
\* The launch script starts all the processes, once none is running any more.
Launch ==
  /\ \A p \in Proc : pc[p] \in Stopped
  /\ launches < MaxLaunches
  /\ launches' = launches + 1
  /\ clean' = (\A p \in Proc : counter[p] = 0)
  /\ pc' = [p \in Proc |-> "stat"]
  /\ phase' = [p \in Proc |-> 0]
  /\ left' = [p \in Proc |-> 0]
  /\ idx' = [p \in Proc |-> 0]
  /\ sum' = [p \in Proc |-> 0]
  /\ UNCHANGED <<file, counter>>

\* The kill script (or a crash) ends a process wherever it is.
Kill(p) ==
  /\ pc[p] \in Running
  /\ Goto(p, "off")
  /\ UNCHANGED <<file, counter, barrierVars, scanVars, launchVars>>

Next == Launch \/ \E p \in Proc : Step(p)

KillNext == Next \/ \E p \in Proc : Kill(p)

\* Launches that nobody kills.
Spec == Init /\ [][Next]_vars

\* ... and ones whose processes the scheduler keeps running.
FairSpec == Spec /\ \A p \in Proc : WF_vars(Step(p))

\* Launches whose processes may be killed at any point.
KillSpec == Init /\ [][KillNext]_vars

-----------------------------------------------------------------------------
(***************************************************************************)
(* Properties                                                              *)
(***************************************************************************)
\* No process has returned from globalBarrier(..., k) before every process of
\* the launch has called it: the comment of globalBarrier promises that "the
\* code will stop until everybody reaches the couter number".
BarrierSafety == \A p, q \in Proc : left[p] <= phase[q]

\* The same, of launches that found every counter at 0: whatever is killed
\* later, the sum of the counters is then a correct test.
CleanBarrierSafety == clean => BarrierSafety

\* The file never loses its pages once it has them, not even when the master
\* is killed at any point and started again: a truncation would set back the
\* counters of processes that have announced a barrier.
FileKeepsPages == [][file = "sized" => file' = "sized"]_vars

\* A counter only goes up while its process takes part in a barrier, and it
\* is set back only by that process (initGlobalBarrier, clearBarrier).
CounterSetBackByOwner ==
  [][\A p \in Proc : counter'[p] < counter[p] => pc[p] \in {"zero", "infer"}
                                               /\ pc'[p] # pc[p]]_vars

AllAnnounced(k) == \A p \in Proc : phase[p] >= k

\* When all have announced barrier 1 all get through it: nobody can clear its
\* counter before it has left barrier 2, for which all must have left 1.
Barrier1Opens == AllAnnounced(1) ~> \A p \in Proc : left[p] >= 1

\* When all have announced barrier 2 somebody gets through it.
Barrier2OpensForSome == AllAnnounced(2) ~> \E p \in Proc : left[p] = 2

\* What the polling is sure to bring: barrier 1 opens for all and barrier 2 for
\* somebody, although counters are cleared while others still add them up.
BarriersOpen == Barrier1Opens /\ Barrier2OpensForSome

\* When all have announced barrier 2 all get through it.
Barrier2Opens == AllAnnounced(2) ~> \A p \in Proc : left[p] = 2

\* A process that finds the barrier file gets past mapping it: initGlobalBarrier
\* says that "if the file exists , it only maps and updates the  counter".
FoundFileIsMapped == \A p \in Proc : pc[p] # "fault"

\* The sums of the counters implement the barrier of PhaseBarrier.
Barrier == INSTANCE PhaseBarrier WITH LastPhase <- LastBarrier, arrived <- phase
ImplementsPhaseBarrier == Barrier!Spec

(***************************************************************************)
(* The inductive invariant behind CleanBarrierSafety.                      *)
(***************************************************************************)
\* What a process has announced and left, by its location.
PhaseByLocation ==
  \A p \in Proc :
    /\ pc[p] \in {"stat", "truncate", "await", "map", "zero", "prepare"}
         => phase[p] = 0
    /\ pc[p] = "load" => phase[p] = 1
    /\ pc[p] = "infer" => phase[p] = 2
    /\ pc[p] = "wait" => phase[p] = left[p] + 1
    /\ pc[p] \in Running \ {"wait"} => phase[p] = left[p]
    /\ left[p] \in {phase[p], phase[p] - 1}

CounterBelowPhase == \A p \in Proc : counter[p] <= phase[p]

\* While somebody has not announced p's barrier, the part of the sum p has
\* read is at most phase[p] for each counter read, and is all of that only if
\* everybody it has read has announced the barrier.
ScanCountsArrivals ==
  \A p \in Proc :
    (pc[p] = "wait" /\ \E q \in Proc : phase[q] < phase[p])
      => /\ sum[p] <= phase[p] * idx[p]
         /\ sum[p] = phase[p] * idx[p]
              => \A q \in Proc : q < idx[p] => phase[q] >= phase[p]

SyncInv ==
  /\ TypeOK
  /\ PhaseByLocation
  /\ clean => CounterBelowPhase /\ ScanCountsArrivals /\ BarrierSafety

\* Counters are only in use once the file has its pages, and it is given them
\* once: a process past the mapping never meets a creation.
PagesBeforeCounters ==
  /\ file # "sized" => \A p \in Proc : counter[p] = 0
  /\ \A p \in Proc :
       /\ pc[p] = "truncate" => file = "empty" /\ p = MASTERNODE
       /\ pc[p] \in {"zero", "prepare", "wait", "load", "infer"} => file = "sized"
       /\ pc[p] = "prepare" => counter[p] = 0

\* When nobody kills, every launch finds every counter at 0: clearBarrier and
\* the creation of the file leave nothing behind that the sums of the next
\* launch could count.
StoppedCleared ==
  \A p \in Proc :
    pc[p] \in Stopped \cup {"stat", "truncate", "await", "map", "zero", "prepare"}
      => counter[p] = 0

AllGoneCleared == clean /\ StoppedCleared

=============================================================================
