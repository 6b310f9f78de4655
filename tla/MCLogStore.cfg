\* Two batches in any order, three policies of which one is an error, a reader, a follower.
SPECIFICATION Spec
CONSTANTS
    Lines <- ManyLines
    Batches <- ManyBatches
    Commands = {"a", "b"}
    Policies <- SomePolicies
    Watched = "a"
    DefaultPage = 1
    LargestPage = 2
    BytesPerMB = 5
    BytesPerLine = 4
    FollowPage = 2
    Sizes = {0, 2}
    LastDay = 2
INVARIANTS
    TypeOK
    PagedReadMissesNothing
    ReadInv
PROPERTIES
    DeletesOnlyUnwanted
    LimitsTakeEffect
    FollowerReaches
