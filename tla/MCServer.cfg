\* One client request without a body and one shim data request, which has one; every call may end.
SPECIFICATION FairSpec
CONSTANTS
    c1 = c1
    c2 = c2
    i1 = i1
    i2 = i2
    p1 = p1
    p2 = p2
    l1 = l1
    None = None
    Frontends = {c1, c2}
    Reading = {}
    Dropping = {c2}
    WithBody = {c2}
    Lists = {l1}
    Posts = {p1, p2}
    IDs = {i1, i2}
    BodyLen = 2
    SerialIDs = TRUE
INVARIANTS
    TypeOK
    ResponseMatchesRequest
    RequestsMapExact
    HandedOutOnce
    SingleDelivery
    TruncatedOnlyIfAgentFailed
PROPERTIES
    DeliveredPostReturns
    CancelReleases
CHECK_DEADLOCK FALSE
