SPECIFICATION FairSpec
CONSTANTS
    Worker = {w1, w2}
    Job = {j1}
    MAIN = MAIN
    KILLER = KILLER
    NULL = NULL
    MaxShutdowns = 1
PROPERTIES
    WorkersTerminate
CHECK_DEADLOCK FALSE
