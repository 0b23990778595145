---------------------------- MODULE EngineStartup ----------------------------
(***************************************************************************)
(* What the two barriers of a launch are for (graphLoader and              *)
(* initialize_global_arrayByPartition, inference.cpp).                     *)
(*                                                                         *)
(* Before barrier 1 the master creates the array files of every partition  *)
(* (.states, .pdist, .stats; truncated and filled with zeros if they       *)
(* exist).  Between barriers 1 and 2 every process maps the files of all   *)
(* partitions and stores the labels of its own vertices in its own         *)
(* .states file (that the store reaches the memory the others read is not  *)
(* promised before the first iteration's persist: see InferenceRound).     *)
(* After barrier 2 the processes sample and read each other's states.      *)
(*                                                                         *)
(* The steps of the barriers are those of ProcessSync.                     *)
(***************************************************************************)
EXTENDS ProcessSync

VARIABLES
  arrays,   \* arrays[q]: the launch that created the files of partition q
  made,     \* loop index of the master's creation of the files
  mapped,   \* mapped[p][q]: the launch that created the files of q p has mapped
  labels,   \* labels[q]: q's labels have been stored in its .states file
  primed    \* primed[p]: p has gone through readPriors

startupVars == <<arrays, made, mapped, labels, primed>>
allVars == <<vars, startupVars>>

NoFile == -1    \* no file; not mapped
Older == 0      \* a file left by a launch before the first one modelled
Creation == NoFile .. MaxLaunches

StartupType ==
  /\ arrays \in [Proc -> Creation]
  /\ made \in 0 .. N
  /\ mapped \in [Proc -> [Proc -> Creation]]
  /\ labels \in [Proc -> BOOLEAN]
  /\ primed \in [Proc -> BOOLEAN]

\* The files of the arrays and the barrier file are left behind together.
StartupInit ==
  /\ Init
  /\ arrays = [q \in Proc |-> IF file = "absent" THEN NoFile ELSE Older]
  /\ made = 0
  /\ mapped = [p \in Proc |-> [q \in Proc |-> NoFile]]
  /\ labels = [q \in Proc |-> file = "sized"]
  /\ primed = [p \in Proc |-> FALSE]

-----------------------------------------------------------------------------
\* One turn of the master's loop creates the three files of a partition, with
\* open(O_TRUNC) and zeros.
\* Mutant: files that exist are kept.
ReusedCreation(q) == IF arrays[q] = NoFile THEN launches ELSE arrays[q]

CreationOf(q) == launches

\* The guard of the loop.
PartitionsLeft == made < N

CreateArrays(p) ==
  /\ pc[p] = "prepare"
  /\ p = MASTERNODE
  /\ PartitionsLeft
  /\ arrays' = [arrays EXCEPT ![made] = CreationOf(made)]
  /\ labels' = [labels EXCEPT ![made] = FALSE]
  /\ made' = made + 1
  /\ UNCHANGED <<vars, mapped, primed>>

\* p's loop over the partitions has come to q.
MapsNext(p, q) ==
  /\ pc[p] = "load"
  /\ mapped[p][q] = NoFile
  /\ \A r \in Proc : r < q => mapped[p][r] # NoFile

\* A missing file would end the process; FilesFound says that none is missing.
MapArrays(p, q) ==
  /\ MapsNext(p, q)
  /\ arrays[q] # NoFile
  /\ mapped' = [mapped EXCEPT ![p][q] = arrays[q]]
  /\ UNCHANGED <<vars, arrays, made, labels, primed>>

\* readPriors, once the topology is built: the labels of p's own vertices go
\* to its shared array.
ReadPriors(p) ==
  /\ pc[p] = "load"
  /\ \A q \in Proc : mapped[p][q] # NoFile
  /\ ~ primed[p]
  /\ labels' = [labels EXCEPT ![p] = TRUE]
  /\ primed' = [primed EXCEPT ![p] = TRUE]
  /\ UNCHANGED <<vars, arrays, made, mapped>>

\* What a process has done when it calls globalBarrier.
\* Mutant: barrier 2 is announced before the labels are stored.
ReadyUnlabelled(p) == pc[p] = "prepare" /\ p = MASTERNODE => made = N

Ready(p) ==
  /\ pc[p] = "prepare" /\ p = MASTERNODE => made = N
  /\ pc[p] = "load" => primed[p]

EnterBarrier(p) == Ready(p) /\ Announce(p) /\ UNCHANGED startupVars

\* A graph is refused before the master's loop.
StartupRefuse(p) ==
  /\ p = MASTERNODE => made = 0
  /\ RefuseGraph(p)
  /\ UNCHANGED startupVars

StartupStep(p) ==
  \/ SyncStep(p) /\ UNCHANGED startupVars
  \/ CreateArrays(p)
  \/ \E q \in Proc : MapArrays(p, q)
  \/ ReadPriors(p)
  \/ EnterBarrier(p)
  \/ StartupRefuse(p)

\* New processes: nothing mapped, nothing made; the files stay.
StartupLaunch ==
  /\ Launch
  /\ made' = 0
  /\ mapped' = [p \in Proc |-> [q \in Proc |-> NoFile]]
  /\ primed' = [p \in Proc |-> FALSE]
  /\ UNCHANGED <<arrays, labels>>

StartupNext == StartupLaunch \/ \E p \in Proc : StartupStep(p)

StartupKillNext ==
  \/ StartupNext
  \/ \E p \in Proc : Kill(p) /\ UNCHANGED startupVars

StartupSpec == StartupInit /\ [][StartupNext]_allVars
StartupKillSpec == StartupInit /\ [][StartupKillNext]_allVars

-----------------------------------------------------------------------------
(***************************************************************************)
(* Properties                                                              *)
(***************************************************************************)
\* A process works on the files the master created for this launch: the
\* comment at the first barrier calls it the "barrier to wait for the master
\* to create files".
MapsThisLaunch ==
  \A p, q \in Proc : mapped[p][q] \in {NoFile, launches}

\* No process that is to map an array file finds it missing, even if it came
\* through barrier 1 on the counters of a killed launch: the master announces
\* that barrier only when it has made all of them, and they stay.
FilesFound == \A p, q \in Proc : MapsNext(p, q) => arrays[q] # NoFile

\* When a process samples, the labels of every partition have been stored in
\* its file: nobody is still to store them, nobody has emptied the file since.
LabelsInPlace ==
  \A p \in Proc : pc[p] = "infer" => \A q \in Proc : labels[q]

\* In a launch that found every counter at 0 the master never truncates a file
\* that a process of the launch has mapped.
NoTruncationUnderMapping ==
  [][clean =>
       \A p, q \in Proc : mapped[p][q] # NoFile /\ mapped'[p][q] = mapped[p][q]
                            => arrays'[q] = arrays[q]]_allVars

\* Such a launch works on its own files, and samples with all labels in place,
\* whoever is killed in it or was before it.
CleanStartup == clean => MapsThisLaunch /\ LabelsInPlace

\* The inductive invariant behind them: what a barrier call of p vouches for.
ArraysMade ==
  /\ phase[MASTERNODE] >= 1 => made = N
  /\ \A q \in Proc : q < made => arrays[q] = launches

LabelsMade == \A q \in Proc : primed[q] => labels[q]

PrimedByPhase ==
  \A p \in Proc :
    /\ phase[p] = 2 => primed[p]
    /\ primed[p] => left[p] >= 1
    /\ \A q \in Proc : mapped[p][q] # NoFile => left[p] >= 1

StartupInv ==
  /\ StartupType
  /\ ArraysMade
  /\ PrimedByPhase
  /\ clean => MapsThisLaunch /\ LabelsMade

=============================================================================
