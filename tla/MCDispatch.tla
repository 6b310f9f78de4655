----------------------------- MODULE MCDispatch -----------------------------
(* Instances of Dispatch for TLC: their constants are in the .cfg files.   *)
EXTENDS DispatchInvariant, TLC

CONSTANTS r1, r2, t, k1, k2

(* The second runner's client is never started; it is somebody else, whom  *)
(* a command may be for.                                                   *)
OneRunner  == {r1}
TwoRunners == {r1, r2}
Tagged     == r1 :> {{t}}
Retagged   == r1 :> {{}, {t}} @@ r2 :> {}

ToSlug   == [type : {"slug"}, value : {r1}, deadline : {"none"}]
ToOther  == [type : {"slug", "runner"}, value : {r2}, deadline : {"ahead"}]
ToTag    == [type : {"tag"}, value : {t}, deadline : {"none"}]
AllRequests == ToSlug \cup ToOther \cup ToTag

(* Streams are interchangeable.                                            *)
StreamSymmetry == Permutations({k1, k2})
=============================================================================
