CONSTANTS
    Names <- MCNames
    Root = "/"
    Parent <- MCParent
    Targets <- MCTargets
    Links <- MCLinks
    Uploads = {u1, u2}
    TargetOf <- MCTargetOf
    Old = Old
    NoEntry = NoEntry
    Dir = Dir
    Link = Link
    Hole = Hole
    MaxSize = 2
    Listings = {l1, l2}
    Permits = 1
    MaxCount = 3
    u1 = u1
    u2 = u2
    l1 = l1
    l2 = l2
    Workloads <- MCWorkloads
SPECIFICATION FairSpec
INVARIANTS TypeOK CompleteIsWhole NoPartialFile PermitsConserved
PROPERTIES ListsSettled UploadAnswered ListingAnswered
CHECK_DEADLOCK FALSE
