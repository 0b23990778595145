---------------------------- MODULE PhaseBarrier ----------------------------
(***************************************************************************)
(* What the inter-process barrier of the inference engine promises, with   *)
(* no shared counters and no polling: the processes of one launch go       *)
(* through the barriers 1 .. LastPhase in order, and a process leaves      *)
(* barrier k only when every process of the launch has arrived at k.       *)
(***************************************************************************)
EXTENDS Naturals

CONSTANTS Proc,       \* the processes of a launch
          LastPhase   \* the number of barriers a launch goes through

VARIABLES arrived,    \* arrived[p]: the last barrier p has announced, 0 if none
          left        \* left[p]: the last barrier p has left, 0 if none

vars == <<arrived, left>>

TypeOK ==
  /\ arrived \in [Proc -> 0 .. LastPhase]
  /\ left \in [Proc -> 0 .. LastPhase]

Init ==
  /\ arrived = [p \in Proc |-> 0]
  /\ left = [p \in Proc |-> 0]

Arrive(p) ==
  /\ arrived[p] = left[p]
  /\ arrived[p] < LastPhase
  /\ arrived' = [arrived EXCEPT ![p] = @ + 1]
  /\ UNCHANGED left

Leave(p) ==
  /\ arrived[p] = left[p] + 1
  /\ \A q \in Proc : arrived[q] >= arrived[p]
  /\ left' = [left EXCEPT ![p] = @ + 1]
  /\ UNCHANGED arrived

\* A new launch of all the processes: the barriers start over.
Relaunch ==
  /\ arrived' = [p \in Proc |-> 0]
  /\ left' = [p \in Proc |-> 0]

Next ==
  \/ \E p \in Proc : Arrive(p) \/ Leave(p)
  \/ Relaunch

Spec == Init /\ [][Next]_vars

=============================================================================
