\* A line that a read cut in two, and the line after it.
SPECIFICATION Spec
CONSTANTS
    j1 = j1
    j2 = j2
    NoJob = NoJob
    Jobs = {j1}
    Commands = {"a"}
    Sources = {"stdout"}
    Newlines = {2, 4}
    Bare = {}
    TextOf <- OneJob
    LogCap = 1
    Limits = {1}
CHECK_DEADLOCK FALSE
INVARIANTS
    LinesUnmixed
