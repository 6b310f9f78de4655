------------------------------- MODULE MCHub -------------------------------
(* Instances of Hub for TLC.                                               *)
EXTENDS Hub, TLC

CONSTANTS s1, s2, s3, p1, p2, g, h

TwoAndOne == s1 :> g @@ s2 :> g @@ s3 :> h
=============================================================================
