\* One client; every retry loop can run out, and one more fault may happen besides.
SPECIFICATION FairAllSpec
CONSTANTS
    c1 = c1
    i1 = i1
    l1 = l1
    None = None
    Frontends = {c1}
    Reading = {}
    Dropping = {}
    WithBody = {c1}
    Lists = {l1}
    Posts <- MCPosts
    IDs = {i1}
    BodyLen = 2
    SerialIDs = TRUE
    SeenLimit = 1
    ReadRetries = 1
    WriteRetries = 1
    MaxFaults = 3
INVARIANTS
    AgentTypeOK
    
PROPERTIES
    KeepsPromise
    ClientServed
CHECK_DEADLOCK FALSE
