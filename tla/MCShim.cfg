\* One session, two calls of any kind, channels of capacity one.
SPECIFICATION FairSpec
CONSTANTS
    s1 = s1
    None = None
    Sessions = {s1}
    MaxCalls = 2
    ChanCap = 1
    DataLen = 2
    MaxServer = 2
INVARIANTS
    TypeOK
    EndedMeansDrained
PROPERTIES
    DataIsWritten
    CloseTearsDown
    ExpiresUnlessStuck
CHECK_DEADLOCK FALSE
