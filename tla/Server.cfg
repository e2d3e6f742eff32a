SPECIFICATION MCSpec
CONSTANTS
    Worker = {w1}
    MaxKills = 2
    CONNECTION_BACKLOG = 1
    NONE = NONE
    Client = {c1, c2}
    Phone = {"7", "9-2", "word"}
    Pwd = {"8", "user_login"}
    MaxSends = 3
    MaxExits = 1
INVARIANTS
    TypesOK
    ReturnsOnlyWhenKilled
    
PROPERTIES
    KillEndsServer
CHECK_DEADLOCK FALSE
