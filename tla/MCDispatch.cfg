\* One runner that comes back with other tags, overlapping streams, failures of every part, one
\* command: for its slug, for a tag, or for somebody else.
SPECIFICATION Spec
CONSTANTS
    r1 = r1
    r2 = r2
    t = t
    k1 = k1
    k2 = k2
    None = None
    NoCmd = NoCmd
    Runners <- TwoRunners
    Tags = {t}
    TagSets <- Retagged
    Finished = {"success", "failed"}
    MaxCommands = 1
    Conns = {k1, k2}
    Requests <- AllRequests
    ChanCap = 1
    InboxCap = 1
    MaxConcurrency = 1
    Environment = {"statement", "link", "client", "server", "time"}
SYMMETRY StreamSymmetry
INVARIANTS
    TypeOK
    IInv
    OnlyAddressed
    AddressInv
    StartedAtMostOnce
    FlushExclusive
    CountInv
PROPERTIES
    KeepsLedger
    ActAsExecutors
