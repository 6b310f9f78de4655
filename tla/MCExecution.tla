---------------------------- MODULE MCExecution ----------------------------
(* Instances of Execution for TLC.                                         *)
EXTENDS Execution, TLC

CONSTANTS j1, j2

(* Under Newlines = {1, 3, 4} and Bare = {1} the first job writes a blank  *)
(* line, one in two pieces and one in a single piece, or exits before; the *)
(* second one writes nothing.                                              *)
TwoJobs == j1 :> 4 @@ j2 :> 0
OneJob  == j1 :> 4
=============================================================================
