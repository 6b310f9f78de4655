\* A command whose output is still being sent when its channel is closed.
SPECIFICATION LiveSpec
CONSTANTS
    j1 = j1
    j2 = j2
    NoJob = NoJob
    Jobs = {j1}
    Commands = {"a"}
    Sources = {"stdout"}
    Newlines = {2}
    Bare = {}
    TextOf <- OneJob
    LogCap = 1
    Limits = {1}
CHECK_DEADLOCK FALSE
PROPERTIES
    EveryRunReports
