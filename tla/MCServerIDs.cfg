\* Overlapping calls of newID, as net/http makes them.
SPECIFICATION Spec
CONSTANTS
    c1 = c1
    c2 = c2
    i1 = i1
    i2 = i2
    p1 = p1
    p2 = p2
    l1 = l1
    None = None
    Frontends = {c1, c2}
    Reading = {}
    Dropping = {}
    WithBody = {c1}
    Lists = {l1}
    Posts = {p1, p2}
    IDs = {i1, i2}
    BodyLen = 1
    SerialIDs = FALSE
INVARIANT
    ResponseMatchesRequest
CHECK_DEADLOCK FALSE
