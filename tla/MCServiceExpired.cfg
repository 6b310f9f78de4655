\* A command with a deadline that passes before anybody claims it, or after.
SPECIFICATION ServiceSpec
CONSTANTS
    r1 = r1
    r2 = r2
    t = t
    k1 = k1
    k2 = k2
    None = None
    NoCmd = NoCmd
    Runners <- OneRunner
    Tags = {t}
    TagSets <- Tagged
    Finished = {"failed"}
    MaxCommands = 1
    Conns = {k1}
    Requests <- ToSlugInTime
    ChanCap = 1
    InboxCap = 1
    MaxConcurrency = 1
    Environment = {"time"}
PROPERTIES
    ExpiredAreFailed
