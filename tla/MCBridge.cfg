\* Two messages from the client, which may be empty or longer than the buffer,
\* three from the backend, a channel that one batch fills, and one call that is lost.
SPECIFICATION FairSpec
CONSTANTS
    MaxClient = 2
    MaxServer = 3
    MaxPieces = 2
    ChanCap = 1
    MaxLost = 1
INVARIANTS
    TypeOK
    StreamsInOrder
PROPERTIES
    
    GoroutinesEnd
    ServerMessageRelayed
CHECK_DEADLOCK FALSE
