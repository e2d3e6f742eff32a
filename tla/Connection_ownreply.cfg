SPECIFICATION Spec
CONSTANTS
    Client = {c1, c2}
    Slots = 1
    MaxFd = 8
    MaxChunks = 1
    FREE = FREE
PROPERTIES
    RepliesToOwnClient
CHECK_DEADLOCK FALSE
