\* A data call and a close call of one session.
SPECIFICATION Spec
CONSTANTS
    s1 = s1
    None = None
    Sessions = {s1}
    MaxCalls = 2
    ChanCap = 1
    DataLen = 2
    MaxServer = 2
INVARIANT
    SendOnlyIfOpen
CHECK_DEADLOCK FALSE
