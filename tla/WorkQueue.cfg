SPECIFICATION FairSpec
CONSTANTS
    Worker = {w1, w2}
    Job = {j1, j2, j3}
    MAIN = MAIN
    KILLER = KILLER
    NULL = NULL
    MaxShutdowns = 1
INVARIANTS
    TypeOK
    MutexOwner
    JobsOnce
    NoLostWakeup
PROPERTIES
    StackSpec
    WorkConserving
CHECK_DEADLOCK FALSE
