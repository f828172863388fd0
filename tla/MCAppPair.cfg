\* Two GET requests of one user for one URL and two response calls; a query for
\* pending requests returns one of them.
SPECIFICATION Spec
CONSTANTS
    r1 = r1
    r2 = r2
    l1 = l1
    None = None
    Requests = {r1, r2}
    Cacheable = {r1, r2}
    MaxPosts = 2
    Lists = {l1}
    MaxFaults = 0
    ListLimit = 1
    DeleteLimit = 1
    BackendStays = TRUE
INVARIANTS
    AnswerMatches
    AckedNotPending
SYMMETRY
    Equal
