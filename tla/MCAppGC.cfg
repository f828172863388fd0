\* The cron job runs while a client waits.
SPECIFICATION Spec
CONSTANTS
    r1 = r1
    r2 = r2
    l1 = l1
    None = None
    Requests = {r1}
    Cacheable = {r1}
    MaxPosts = 1
    Lists = {l1}
    MaxFaults = 0
    ListLimit = 1
    DeleteLimit = 1
    BackendStays = FALSE
PROPERTY
    FreshResponsesKept
