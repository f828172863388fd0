\* Two browsers, one of which has a session from before the agent was started,
\* three requests, a cache with room for two jars (one of them that of requests
\* without a session), and one report of the counts.
SPECIFICATION Spec
CONSTANTS
    b1 = b1
    b2 = b2
    ok = ok
    Browsers = {b1, b2}
    Returning = {b1}
    Codes = {ok}
    MaxTicks = 1
    MaxRequests = 3
    CacheLimit = 2
INVARIANTS
    TypeOK
    Isolation
    CookiesKept
    ReportedOnce
CHECK_DEADLOCK FALSE
