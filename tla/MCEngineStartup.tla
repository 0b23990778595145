---------------------------- MODULE MCEngineStartup ----------------------------
(* Instances of EngineStartup for TLC: two processes, a master and one that   *)
(* depends on it; three launches, so that one can be killed before a launch   *)
(* that starts clean and one after it.                                        *)
EXTENDS EngineStartup
=============================================================================
