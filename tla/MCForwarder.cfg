\* A body of up to three bytes, a buffer of four, and the three attempts of
\* the code: wire formats that fit, that just fill the buffer and that do not.
SPECIFICATION FairSpec
CONSTANTS
    MaxBody = 3
    MaxWrite = 2
    BufSize = 4
    WriteRetries = 2
    MaxLeft = 1
INVARIANTS
    TypeOK
    AckedWhole
    ShortResponseRetried
PROPERTIES
    AllReturn
CHECK_DEADLOCK FALSE
