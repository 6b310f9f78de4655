\* A command that its runner executes is offered to POST /commands/{id}/kill.
SPECIFICATION Spec
CONSTANTS
    r1 = r1
    r2 = r2
    t = t
    k1 = k1
    k2 = k2
    None = None
    NoCmd = NoCmd
    Runners <- OneRunner
    Tags = {t}
    TagSets <- Tagged
    Finished = {"failed"}
    MaxCommands = 1
    Conns = {k1}
    Requests <- ToSlug
    ChanCap = 1
    InboxCap = 1
    MaxConcurrency = 1
    Environment = {"kill"}
INVARIANTS
    RunningIsKillable
