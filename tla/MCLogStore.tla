----------------------------- MODULE MCLogStore -----------------------------
(* Instances of LogStore for TLC.                                          *)
EXTENDS LogStore, TLC

Line(id, c, r, seq, ts) == [id |-> id, command |-> c, runner |-> r, seq |-> seq, ts |-> ts]

(* The lines of command "a", whose numbers start over with the last one,   *)
(* and one of command "b" on another runner.                               *)
a0 == Line(1, "a", "r", 0, 0)
a1 == Line(2, "a", "r", 1, 0)
a2 == Line(3, "a", "r", 2, 0)
a0Again == Line(4, "a", "r", 0, 1)
b1 == Line(5, "b", "q", 1, 1)

ManyLines == {a0, a1, a2, a0Again, b1}
ManyBatches == {{a0, a2}, {a1, a0Again, b1}}

(* In the order of the worker's query; "all" is no command id.             *)
Limit(scope, id, maxAgeDays, maxSizeMB) ==
    [scope |-> scope, id |-> id, maxAgeDays |-> maxAgeDays, maxSizeMB |-> maxSizeMB]
SomePolicies ==
    <<Limit("command", "all", 1, 1), Limit("global", "", 0, 3), Limit("runner", "r", 1, 2)>>

FewLines == {a0, a1}
FewBatches == {{a0, a1}}
NoPolicies == <<>>
=============================================================================
