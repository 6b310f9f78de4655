----------------------------- MODULE MCSampling -----------------------------
(* Instances of Sampling for TLC.                                          *)
EXTENDS Sampling, TLC

CONSTANTS j1, j2

(* Neither job writes anything: samples do not depend on the output.       *)
NoText == j1 :> 0 @@ j2 :> 0
=============================================================================
