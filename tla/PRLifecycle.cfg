CONSTANTS
    w1 = w1
    w2 = w2
    nightly = nightly
    None = None
    Workers = {w1, w2}
    Nightly = nightly
    Capacity = 1
    MaxPRs = 1
    MaxPushes = 2
    Early = FALSE
    Events <- MCEvents
SPECIFICATION FairSpec
INVARIANTS
    TypeOK
    ClosedAgrees
    MergedUnlessDeclined
    Tracked
PROPERTIES
    FollowsContract
    FinalOnce
    RowFollows
    MergeSyncs
