----------------------------- MODULE MCService -----------------------------
(* Instances of Service for TLC: their constants are in the .cfg file.     *)
EXTENDS MCDispatch, Service

ToSlugInTime == [type : {"slug"}, value : {r1}, deadline : {"ahead"}]
=============================================================================
