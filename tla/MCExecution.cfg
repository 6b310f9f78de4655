\* Two dispatches of one or two commands, at most one or two at a time, channels of one line.
SPECIFICATION LiveSpec
CONSTANTS
    j1 = j1
    j2 = j2
    NoJob = NoJob
    Jobs = {j1, j2}
    Commands = {"a", "b"}
    Sources = {"stdout"}
    Newlines = {1, 3, 4}
    Bare = {1}
    TextOf <- TwoJobs
    LogCap = 1
    Limits = {1, 2}
CHECK_DEADLOCK FALSE
INVARIANTS
    TypeOK
    OneProcessPerCommand
    LimitKept
    ExecutorInv
    ShippedOnce
    NoOutputVanishes
    NumberedInOrder
    OutputInv
PROPERTIES
    EveryRunEnds
    ActsAsExecutor
