\* Two queued commands, which may be killed, and a runner that reconnects again and again.
SPECIFICATION LiveSpec
CONSTANTS
    r1 = r1
    r2 = r2
    t = t
    k1 = k1
    k2 = k2
    None = None
    NoCmd = NoCmd
    Runners <- OneRunner
    Tags = {t}
    TagSets <- Tagged
    Finished = {"failed"}
    MaxCommands = 2
    Conns = {k1}
    Requests <- ToSlug
    ChanCap = 1
    InboxCap = 1
    MaxConcurrency = 1
    Environment = {"link", "kill"}
INVARIANTS
    ActiveCountFloor
PROPERTIES
    ReconnectsDrainQueue
