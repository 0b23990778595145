---------------------------- MODULE MCQueryService ----------------------------
(* Instances of QueryService for TLC: a vertex whose probability falls below *)
(* the threshold while the engine samples, and one whose rises over it.      *)
EXTENDS QueryService

MCAbove ==
  [v \in Vertex |-> [k \in Version |-> IF v % 2 = 0 THEN k % 2 = 0 ELSE k % 2 = 1]]
=============================================================================
