--------------------------- MODULE MCInferenceRound ---------------------------
(* Instances of InferenceRound for TLC: two processes of one worker each for *)
(* what crosses processes, one process of two workers for what crosses the   *)
(* threads and the files of a process.                                       *)
EXTENDS InferenceRound
=============================================================================
