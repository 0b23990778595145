---------------------------- MODULE MCProcessSync ----------------------------
(* Instances of ProcessSync for TLC.  N and MaxLaunches are given by the    *)
(* configurations: numbers, because the code scans the counters by index,   *)
(* so no symmetry is available.                                             *)
EXTENDS ProcessSync
=============================================================================
