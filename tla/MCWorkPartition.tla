---------------------------- MODULE MCWorkPartition ----------------------------
(* How a process divides and loads the graph, for TLC: the partition's sizes,  *)
(* below, at and above the number of workers, with and without a remainder;    *)
(* and the index of any range of vertices of any small graph.  The index       *)
(* depends on the division by its range only, so a behaviour follows one part. *)
EXTENDS WorkPartition, TopologyIndex

VARIABLE part

LoadInit ==
  /\ part \in {"partition", "index"}
  /\ Init      /\ (part = "index" => file = [i \in 1 .. N |-> 0] /\ ended)
  /\ GraphInit /\ (part = "partition" => edges = << >> /\ from = 0 /\ to = 0)

LoadNext == /\ UNCHANGED part
            /\ \/ part = "partition" /\ Next      /\ UNCHANGED graphVars
               \/ part = "index"     /\ GraphNext /\ UNCHANGED vars

LoadSpec == LoadInit /\ [][LoadNext]_<<part, vars, graphVars>>
=============================================================================
