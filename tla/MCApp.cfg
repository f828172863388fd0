\* One request that is not a GET, one response call, two failing operations.
SPECIFICATION FairSpec
CONSTANTS
    r1 = r1
    r2 = r2
    l1 = l1
    None = None
    Requests = {r1}
    Cacheable = {}
    MaxPosts = 1
    Lists = {l1}
    MaxFaults = 2
    ListLimit = 1
    DeleteLimit = 1
    BackendStays = FALSE
INVARIANT
    TypeOK
PROPERTIES
    WaitingKept
    PostReturns
    ListedAgain
    OldRequestsDeleted
