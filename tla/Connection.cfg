SPECIFICATION FairSpec
CONSTANTS
    Client = {c1, c2}
    Slots = 1
    MaxFd = 8
    MaxChunks = 1
    FREE = FREE
INVARIANTS
    TypeOK
    DescriptorsOwned
    ClosedMeansReleased
PROPERTIES
    JobsEnd
CHECK_DEADLOCK FALSE
