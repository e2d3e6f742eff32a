SPECIFICATION Spec
CONSTANTS
    CloseOnFree = FALSE
    Deferred = FALSE
    Does = {"ready", "due", "read event", "write event", "write", "enable", "timeouts", "setfd"}
    Marks = {0}
    MaxLen = 1
INVARIANT
    WritesStart
CHECK_DEADLOCK FALSE
