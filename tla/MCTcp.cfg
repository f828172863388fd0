\* Peers that send up to three bytes, in one to three messages.
SPECIFICATION FairSpec
CONSTANTS
    MaxBytes = 3
    MaxRead = 2
INVARIANTS
    StreamsIntact
PROPERTIES
    Delivered
    OtherSideFollows
CHECK_DEADLOCK FALSE
