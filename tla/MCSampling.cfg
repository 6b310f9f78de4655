\* Two dispatches of one or two commands, at most one or two at a time, sampled while they run.
SPECIFICATION SSpec
CONSTANTS
    j1 = j1
    j2 = j2
    NoJob = NoJob
    NoCommand = NoCommand
    Jobs = {j1, j2}
    Commands = {"a", "b"}
    Sources = {"stdout"}
    Newlines = {1}
    Bare = {}
    TextOf <- NoText
    LogCap = 1
    Limits = {1, 2}
    Pids = {1, 2}
CHECK_DEADLOCK FALSE
INVARIANTS
    SamplerOK
    SamplesInv
    SamplesAreOwn
    LatestIsMarked
PROPERTIES
    MarkedIsSampled
