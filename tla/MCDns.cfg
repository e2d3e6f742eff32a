SPECIFICATION Spec
CONSTANTS
    BufLen = 150
    MaxReply = 60
    LabelMax = 2
    NameLimit = 255
    NameMax = 256
    MaxAddrs = 3
    h1 = h1
    h2 = h2
    NoValue = NoValue
    BadValue = BadValue
INVARIANTS
    ResolverSound
    ConfSound
    PacketSound
CHECK_DEADLOCK FALSE
