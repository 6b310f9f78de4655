\* One batch of two lines, followed from before it arrives; nothing is deleted.
SPECIFICATION Spec
CONSTANTS
    Lines <- FewLines
    Batches <- FewBatches
    Commands = {"a", "b"}
    Policies <- NoPolicies
    Watched = "a"
    DefaultPage = 1
    LargestPage = 2
    BytesPerMB = 5
    BytesPerLine = 4
    FollowPage = 2
    Sizes = {0}
    LastDay = 0
CHECK_DEADLOCK FALSE
PROPERTIES
    FollowerDelivers
